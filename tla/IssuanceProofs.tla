--------------------------- MODULE IssuanceProofs ---------------------------
(***************************************************************************)
(* Theorems about Issuance, for every list of rules, catalogue, content     *)
(* and person.                                                             *)
(***************************************************************************)
EXTENDS Issuance, WellFoundedInduction, SequenceTheorems, TLAPS

USE ListsFit, ContentsFit, PersonsFit, NoneIsNone

-----------------------------------------------------------------------------
(* Sets of positions have a first and a last member.                       *)

LEMMA HasSmallest ==
    ASSUME NEW S, S \subseteq Nat, S # {}
    PROVE  \E m \in S : \A k \in S : m <= k
<1> DEFINE LT == OpToRel(<, Nat)
<1>1. IsWellFoundedOn(LT, Nat)
  BY NatLessThanWellFounded
<1>2. \A x \in Nat, y \in Nat : x < y => <<x, y>> \in LT
  BY DEF OpToRel
<1> HIDE DEF LT
<1>3. PICK m \in S : \A k \in S : <<k, m>> \notin LT
  BY <1>1, WFMin, Zenon
<1>4. ASSUME NEW k \in S PROVE m <= k
  <2>1. k \in Nat /\ m \in Nat
    OBVIOUS
  <2>2. ~(k < m)
    BY <2>1, <1>2, <1>3
  <2> QED
    BY <2>1, <2>2
<1> QED
  BY <1>4

LEMMA HasLargest ==
    ASSUME NEW n \in Nat, NEW S, S \subseteq 1..n, S # {}
    PROVE  \E m \in S : \A k \in S : k <= m
<1> DEFINE T == {n - i : i \in S}
<1>1. T \subseteq Nat
  <2>1. \A i \in S : i \in Int /\ 1 <= i /\ i <= n
    OBVIOUS
  <2>2. \A i \in S : n - i \in Nat
    BY <2>1
  <2> QED
    BY <2>2, Zenon
<1>2. T # {}
  OBVIOUS
<1>3. \A i \in S : n - i \in T
  OBVIOUS
<1>4. \A t \in T : \E i \in S : t = n - i
  OBVIOUS
<1> HIDE DEF T
<1>5. PICK t \in T : \A u \in T : t <= u
  BY <1>1, <1>2, HasSmallest
<1>6. PICK m \in S : t = n - m
  BY <1>4
<1>7. ASSUME NEW k \in S PROVE k <= m
  <2>1. n - m <= n - k
    BY <1>3, <1>5, <1>6
  <2>2. k \in Int /\ m \in Int
    OBVIOUS
  <2> QED
    BY <2>1, <2>2
<1> QED
  BY <1>7

LEMMA FirstIn ==
    ASSUME NEW s \in Seq(Rule), NEW S \in SUBSET DOMAIN s, S # {}
    PROVE  First(S) \in S
<1>1. S \subseteq Nat
  OBVIOUS
<1> QED
  BY <1>1, HasSmallest, Zenon DEF First

-----------------------------------------------------------------------------
(* The invariant.                                                          *)

LEMMA InitInv == Init => IndInv
<1> SUFFICES ASSUME Init PROVE IndInv
  OBVIOUS
<1> USE DEF Init
<1>1. TypeOK
  <2>1. content \in Content
    OBVIOUS
  <2>2. rules \in Seq(Rule) /\ derived \in Seq(Rule) /\ spec \in Seq(Rule)
    BY EmptySeq
  <2>3. person \in [Field -> Datum \cup {None}]
    BY DEF Unknown
  <2>4. /\ status \in {"draft", "published"} /\ checked \in BOOLEAN
        /\ stage \in {"idle", "asking", "fetched", "bound", "answered", "failed"}
    BY Zenon
  <2>5. tries \in 0..1
    OBVIOUS
  <2> QED
    BY <2>1, <2>2, <2>3, <2>4, <2>5, Zenon DEF TypeOK
<1>2. PublishedChecked /\ BoundFromData /\ ShownBuilt
  BY DEF PublishedChecked, BoundFromData, ShownBuilt
<1>3. OnlyAsked
  BY DEF OnlyAsked, Requested, Empty
<1> QED
  BY <1>1, <1>2, <1>3 DEF IndInv

LEMMA DerivedFits == TypeOK => Derived \in Seq(Rule)
<1> SUFFICES ASSUME TypeOK, ~Apple PROVE Derived \in Seq(Rule)
  BY DEF Derived
<1>1. content.slots \in Seq([pointer : Pointer, field : Field])
  BY DEF TypeOK, Content
<1>2. /\ Len(content.slots) \in Nat /\ DOMAIN content.slots = 1..Len(content.slots)
      /\ \A n \in DOMAIN content.slots :
            content.slots[n].pointer \in Pointer /\ content.slots[n].field \in Field
  <2>1. \A n \in 1..Len(content.slots) : content.slots[n] \in [pointer : Pointer, field : Field]
    BY <1>1, ElementOfSeq
  <2> QED
    BY <1>1, <2>1, LenProperties
<1>3. Derived \in [1..Len(content.slots) -> Rule]
  BY <1>2 DEF Derived, Rule, TargetKind, FieldTargets, Type
<1> QED
  BY <1>2, <1>3, SeqDef

\* What a pass shows depends on the content, the rules and their values only.
LEMMA SameShown ==
    ASSUME UNCHANGED <<content, spec, bound>>
    PROVE  /\ References' = References /\ Apply(spec, bound)' = Apply(spec, bound)
           /\ Unbuildable(spec, bound)' = Unbuildable(spec, bound)
<1>1. References' = References
  BY DEF References, Apple
<1>2. ApplyApple(spec, bound)' = ApplyApple(spec, bound)
  <2>1. Written(spec, bound)' = Written(spec, bound)
    BY DEF Written, Lands
  <2>2. \A i \in DOMAIN spec : Place(spec[i])' = Place(spec[i])
    BY DEF Place
  <2>3. \A p : LaterWins(spec, bound, p)' = LaterWins(spec, bound, p)
    BY <2>1, Zenon DEF LaterWins
  <2>4. {Place(spec[i]) : i \in Written(spec, bound)}'
            = {Place(spec[i]) : i \in Written(spec, bound)}
    BY <2>1
  <2> QED
    BY <2>3, <2>4, SMT DEF ApplyApple
<1>3. ApplyGoogle(spec, bound)' = ApplyGoogle(spec, bound)
  <2> DEFINE Of(n) == {i \in DOMAIN spec :
                        bound[i] # None /\ spec[i].field = content.slots[n].field}
             Filled == {n \in DOMAIN content.slots : Of(n) # {}}
             LastOf(n) == CHOOSE i \in Of(n) : \A j \in Of(n) : j <= i
  <2>1. ApplyGoogle(spec, bound) = [n \in Filled |-> bound[LastOf(n)]]
    BY DEF ApplyGoogle
  <2>2. ApplyGoogle(spec, bound)' = [n \in Filled |-> bound[LastOf(n)]]'
    BY DEF ApplyGoogle
  <2>3. \A n : Of(n)' = Of(n)
    OBVIOUS
  <2>4. Filled' = Filled
    BY <2>3
  <2>5. \A n : LastOf(n)' = LastOf(n)
    BY <2>3, Zenon
  <2> HIDE DEF Filled, LastOf
  <2> QED
    BY <2>1, <2>2, <2>4, <2>5, SMT
<1>4. Unbuildable(spec, bound)' = Unbuildable(spec, bound)
  BY DEF Unbuildable, PointsNowhere, Apple
<1> QED
  BY <1>1, <1>2, <1>3, <1>4, Zenon DEF Apply, Apple

LEMMA AuthoringInv ==
    ASSUME IndInv, Publish \/ (\E rs \in RuleLists : SetMappings(rs)) \/ Refresh
    PROVE  IndInv'
<1> USE DEF IndInv
<1>1. TypeOK'
  BY DerivedFits DEF TypeOK, Publish, SetMappings, Refresh, version, call
<1>2. UNCHANGED <<content, stage, spec, checked, data, bound, shown, missing>>
  BY DEF Publish, SetMappings, Refresh, version, call
<1>3. PublishedChecked'
  BY <1>2 DEF PublishedChecked, Checked, PlacesPicture, TargetExists, Apple, Publish,
              Publishable, SetMappings, Refresh, version, Derived
<1>4. BoundFromData' /\ OnlyAsked'
  BY <1>2 DEF BoundFromData, OnlyAsked, Bound, Convert, Apple, Requested, Missing
<1>5. ShownBuilt'
  BY <1>2, SameShown, Zenon DEF ShownBuilt
<1> QED
  BY <1>1, <1>3, <1>4, <1>5

LEMMA BeginInv ==
    ASSUME IndInv, Begin
    PROVE  IndInv'
<1> USE DEF IndInv, Begin
<1>1. TypeOK'
  BY DEF TypeOK, version
<1>2. Apple /\ status = "published" => spec' = rules
  BY DEF PublishedChecked, TypeOK, version
<1>3. PublishedChecked'
  BY <1>2 DEF PublishedChecked, Checked, PlacesPicture, TargetExists, Apple, version
<1>4. BoundFromData' /\ OnlyAsked' /\ ShownBuilt'
  BY DEF BoundFromData, OnlyAsked, ShownBuilt
<1> QED
  BY <1>1, <1>3, <1>4

LEMMA BoundTyped ==
    ASSUME NEW r \in Rule, data \in [DOMAIN data -> Datum]
    PROVE  /\ Bound(r, data) \in (Value \ {"picture", "sample"}) \cup {None}
           /\ Bound(r, data) = None <=> r.field \notin DOMAIN data /\ r.default = None
  BY DEF Bound, Convert, Rule, Datum, Value

LEMMA FetchFieldsInv ==
    ASSUME IndInv, FetchFields
    PROVE  IndInv'
<1> USE DEF IndInv, FetchFields
<1>1. TypeOK'
  BY DEF TypeOK, version
<1>2. Requested' = Requested /\ Requested \subseteq Field
  <2>1. \A i \in DOMAIN spec : spec[i] \in Rule
    BY DEF TypeOK
  <2> QED
    BY <2>1 DEF Requested, Rule
<1>3. OnlyAsked'
  <2>1. person' \in [Field -> Datum \cup {None}]
    OBVIOUS
  <2>2. data' \in [DOMAIN data' -> Datum] /\ DOMAIN data' \subseteq Requested
    BY <1>2, <2>1
  <2> QED
    BY <1>2, <2>2 DEF OnlyAsked
<1>4. PublishedChecked'
  BY DEF PublishedChecked, Checked, PlacesPicture, TargetExists, Apple, version
<1>5. BoundFromData' /\ ShownBuilt'
  BY DEF BoundFromData, ShownBuilt
<1> QED
  BY <1>1, <1>3, <1>4, <1>5

\* What a call does to its own stage, attempts, values and pass leaves alone what
\* publishing has checked.
LEMMA CheckedStays ==
    ASSUME PublishedChecked, UNCHANGED <<version, spec, checked>>
    PROVE  PublishedChecked'
  BY DEF PublishedChecked, Checked, PlacesPicture, TargetExists, Apple, version

LEMMA FailInv ==
    ASSUME IndInv, NEW fields, Fail(fields), stage # "idle",
           fields = {} \/ fields = Missing(data)
    PROVE  IndInv'
<1> USE DEF IndInv, Fail
<1>1. TypeOK'
  BY DEF TypeOK, version
<1>2. PublishedChecked'
  BY CheckedStays
<1>3. BoundFromData' /\ ShownBuilt'
  BY DEF BoundFromData, ShownBuilt
<1>4. OnlyAsked'
  BY DEF OnlyAsked, Requested, Missing, Bound, Convert
<1> QED
  BY <1>1, <1>2, <1>3, <1>4

LEMMA RefuseInv ==
    ASSUME IndInv, Refuse
    PROVE  IndInv'
<1>1. CASE Fail({})
  BY <1>1, FailInv DEF Refuse, Asking
<1>2. CASE ~LastAttempt /\ Unreachable /\ ~Fail({})
  <2> USE <1>2 DEF Unreachable, LastAttempt, IndInv
  <2>1. UNCHANGED <<content, stage, spec, checked, data, bound, shown, missing>>
    BY DEF version
  <2>2. TypeOK' /\ PublishedChecked'
    BY CheckedStays DEF TypeOK, version
  <2>3. BoundFromData' /\ OnlyAsked'
    BY <2>1 DEF BoundFromData, OnlyAsked, Bound, Convert, Apple, Requested, Missing
  <2>4. ShownBuilt'
    BY <2>1, SameShown, Zenon DEF ShownBuilt
  <2> QED
    BY <2>2, <2>3, <2>4
<1> QED
  BY <1>1, <1>2 DEF Refuse, Unreachable

LEMMA BindInv ==
    ASSUME IndInv, Bind
    PROVE  IndInv'
<1>1. CASE Missing(data) # {}
  BY <1>1, FailInv DEF Bind
<1>2. CASE Missing(data) = {}
  <2> USE <1>2 DEF Bind, IndInv
  <2>1. TypeOK' /\ PublishedChecked'
    BY CheckedStays DEF TypeOK, version
  <2>2. BoundFromData'
    <3>1. \A i \in DOMAIN spec : spec[i].required => Bound(spec[i], data) # None
      <4> SUFFICES ASSUME NEW i \in DOMAIN spec, spec[i].required,
                          Bound(spec[i], data) = None
                   PROVE  spec[i].field \in Missing(data)
        BY <1>2, Zenon
      <4> QED
        BY Zenon DEF Missing
    <3>2. \A i \in DOMAIN spec : Bound(spec[i], data)' = Bound(spec[i], data)
      BY DEF Bound
    <3>3. spec' = spec /\ bound' = [i \in DOMAIN spec |-> Bound(spec[i], data)]
      OBVIOUS
    <3> QED
      BY <3>1, <3>2, <3>3 DEF BoundFromData
  <2>3. OnlyAsked' /\ ShownBuilt'
    BY DEF OnlyAsked, ShownBuilt, Requested
  <2> QED
    BY <2>1, <2>2, <2>3
<1> QED
  BY <1>1, <1>2

LEMMA FetchImageInv ==
    ASSUME IndInv, FetchImage
    PROVE  IndInv'
<1> DEFINE i == First(References)
<1>1. i \in References
  BY FirstIn DEF FetchImage, References, IndInv, TypeOK
<1> HIDE DEF i
<1>2. CASE bound[i] # "reference"
  BY <1>2, FailInv DEF FetchImage, i
<1>3. CASE bound[i] = "reference"
  <2>1. /\ bound' = [bound EXCEPT ![i] = "picture"] /\ tries' = 0
        /\ UNCHANGED <<version, catalogue, stage, spec, checked, person, data, shown,
                       missing>>
    BY <1>3 DEF FetchImage, i
  <2>2. stage = "bound"
    BY DEF FetchImage
  <2> USE DEF IndInv
  <2>3. TypeOK' /\ PublishedChecked'
    BY <2>1, CheckedStays DEF TypeOK, version
  <2>4. BoundFromData'
    BY <1>1, <1>3, <2>1, <2>2 DEF BoundFromData, References, Bound, Convert, Apple, version
  <2>5. OnlyAsked' /\ ShownBuilt'
    BY <2>1, <2>2 DEF OnlyAsked, ShownBuilt, Requested
  <2> QED
    BY <2>3, <2>4, <2>5
<1> QED
  BY <1>2, <1>3

LEMMA BuildInv ==
    ASSUME IndInv, Build
    PROVE  IndInv'
<1>1. CASE Unbuildable(spec, bound)
  BY <1>1, FailInv DEF Build
<1>2. CASE ~Unbuildable(spec, bound)
  <2> USE <1>2 DEF Build, IndInv
  <2>1. UNCHANGED <<content, spec, checked, data, bound, missing>>
    BY DEF version
  <2>2. TypeOK' /\ PublishedChecked'
    BY CheckedStays DEF TypeOK, version
  <2>3. BoundFromData' /\ OnlyAsked'
    BY <2>1 DEF BoundFromData, OnlyAsked, Bound, Convert, Apple, Requested, Missing
  <2>4. ShownBuilt'
    BY <2>1, SameShown, Zenon DEF ShownBuilt
  <2> QED
    BY <2>2, <2>3, <2>4
<1> QED
  BY <1>1, <1>2

LEMMA EndInv ==
    ASSUME IndInv, End
    PROVE  IndInv'
<1> USE DEF IndInv, End
<1>1. TypeOK'
  <2>1. spec' \in Seq(Rule)
    BY EmptySeq
  <2>2. person' \in [Field -> Datum \cup {None}]
    BY DEF Unknown
  <2>3. stage' \in {"idle", "asking", "fetched", "bound", "answered", "failed"}
    OBVIOUS
  <2> QED
    BY <2>1, <2>2, <2>3, Zenon DEF TypeOK, version
<1>2. PublishedChecked'
  BY DEF PublishedChecked, Checked, PlacesPicture, TargetExists, Apple, version
<1>3. BoundFromData' /\ ShownBuilt'
  BY DEF BoundFromData, ShownBuilt
<1>4. OnlyAsked'
  BY DEF OnlyAsked, Requested, Empty
<1> QED
  BY <1>1, <1>2, <1>3, <1>4

LEMMA StutterInv ==
    ASSUME IndInv, UNCHANGED vars
    PROVE  IndInv'
<1> USE DEF IndInv, vars, version
<1>1. TypeOK' /\ PublishedChecked'
  BY CheckedStays DEF TypeOK
<1>2. BoundFromData' /\ OnlyAsked'
  BY DEF BoundFromData, OnlyAsked, Bound, Convert, Apple, Requested, Missing
<1>3. ShownBuilt'
  BY SameShown, Zenon DEF ShownBuilt
<1> QED
  BY <1>1, <1>2, <1>3

\* Every reachable state satisfies the inductive invariant: what publish has checked
\* holds of the rules a call goes on with, and each stage keeps what it has made.
THEOREM Invariance == Spec => []IndInv
<1>1. IndInv /\ [Next]_vars => IndInv'
  BY AuthoringInv, BeginInv, FetchFieldsInv, RefuseInv, BindInv, FetchImageInv, BuildInv,
     EndInv, StutterInv DEF Next, Step
<1> QED
  BY InitInv, <1>1, PTL DEF Spec

-----------------------------------------------------------------------------
(* The properties.                                                         *)

\* In a pass that is built, a rule that has a value is written, and shows it.
LEMMA ValuesWritten ==
    ASSUME IndInv, stage = "answered", checked, Apple, NEW k \in DOMAIN spec
    PROVE  /\ Bound(spec[k], data) # None <=> k \in Written(spec, bound)
           /\ k \in Written(spec, bound) => bound[k] = Final(spec[k])
<1>1. /\ \/ bound[k] = Bound(spec[k], data)
         \/ Bound(spec[k], data) # None /\ spec[k].type = "image" /\ bound[k] = "picture"
      /\ "picture" # None
  BY DEF IndInv, BoundFromData, Value
<1>2. spec[k].type = "image" => bound[k] \in {None, "picture"}
  BY DEF IndInv, ShownBuilt, References
<1>3. Bound(spec[k], data) # None <=> bound[k] # None
  BY <1>1
<1>4. bound[k] # None => Lands(spec[k], bound[k])
  BY <1>2 DEF Lands, IndInv, PublishedChecked, Checked, PlacesPicture, TargetExists
<1>5. bound[k] # None => bound[k] = Final(spec[k])
  BY <1>1, <1>2 DEF Final
<1> QED
  BY <1>3, <1>4, <1>5 DEF Written

\* The position that wins a place is the last of those that are written there.
LEMMA WinnerIsLast ==
    ASSUME NEW s \in Seq(Rule), NEW b, NEW i \in Written(s, b)
    PROVE  LET p == Place(s[i])  j == LaterWins(s, b, p)
           IN  /\ j \in Written(s, b) /\ Place(s[j]) = p
               /\ \A k \in Written(s, b) : Place(s[k]) = p => k <= j
<1> DEFINE p == Place(s[i])
           There == {k \in Written(s, b) : Place(s[k]) = p}
<1>1. Len(s) \in Nat /\ There \subseteq 1..Len(s) /\ There # {}
  BY LenProperties DEF Written
<1>2. PICK n \in There : \A k \in There : k <= n
  BY <1>1, HasLargest
<1>3. \E m \in Written(s, b) : /\ Place(s[m]) = p
                             /\ \A k \in Written(s, b) : Place(s[k]) = p => k <= m
  BY <1>2
<1> HIDE DEF p
<1>4. LET j == LaterWins(s, b, p)
      IN  /\ j \in Written(s, b) /\ Place(s[j]) = p
          /\ \A k \in Written(s, b) : Place(s[k]) = p => k <= j
  BY <1>3, Zenon DEF LaterWins
<1> QED
  BY <1>4 DEF p

\* In an Apple pass the rules for one place compete.
LEMMA LandsOnApple ==
    ASSUME IndInv, stage = "answered", checked, Apple,
           NEW i \in DOMAIN spec, spec[i].required
    PROVE  \E j \in DOMAIN spec : j >= i /\
               ShowsLast(Place(spec[i]),
                         {k \in DOMAIN spec : Place(spec[k]) = Place(spec[i])}, j)
<1> DEFINE p == Place(spec[i])
           j == LaterWins(spec, bound, p)
<1>1. spec \in Seq(Rule) /\ shown = ApplyApple(spec, bound)
  BY DEF IndInv, TypeOK, ShownBuilt, Apply
<1>2. i \in Written(spec, bound)
  BY ValuesWritten DEF IndInv, BoundFromData
<1>3. /\ j \in Written(spec, bound) /\ Place(spec[j]) = p
      /\ \A k \in Written(spec, bound) : Place(spec[k]) = p => k <= j
  BY <1>1, <1>2, WinnerIsLast, Zenon
<1>4. p \in DOMAIN shown /\ shown[p] = bound[j]
  BY <1>1, <1>2 DEF ApplyApple
<1> HIDE DEF j, p
<1>5. j \in DOMAIN spec /\ i \in Int /\ j \in Int
  BY <1>1, <1>3, LenProperties DEF Written
<1>6. bound[j] = Final(spec[j])
  BY <1>3, <1>5, ValuesWritten
<1>7. j >= i
  BY <1>2, <1>3, <1>5 DEF p
<1>8. \A k \in DOMAIN spec : Place(spec[k]) = p /\ Bound(spec[k], data) # None => k <= j
  BY <1>3, ValuesWritten
<1>9. ShowsLast(p, {k \in DOMAIN spec : Place(spec[k]) = p}, j)
  BY <1>3, <1>4, <1>5, <1>6, <1>8 DEF ShowsLast
<1> QED
  BY <1>5, <1>7, <1>9 DEF p

\* In a Google object the rules for one field compete.
LEMMA LandsOnGoogle ==
    ASSUME IndInv, stage = "answered", ~Apple,
           NEW i \in DOMAIN spec, spec[i].required,
           NEW n \in DOMAIN content.slots, content.slots[n].field = spec[i].field
    PROVE  \E j \in DOMAIN spec : j >= i /\
               ShowsLast(n, {k \in DOMAIN spec : spec[k].field = spec[i].field}, j)
<1> DEFINE Of == {k \in DOMAIN spec :
                    bound[k] # None /\ spec[k].field = content.slots[n].field}
           j == CHOOSE m \in Of : \A k \in Of : k <= m
<1>1. spec \in Seq(Rule) /\ shown = ApplyGoogle(spec, bound)
  BY DEF IndInv, TypeOK, ShownBuilt, Apply
<1>2. \A k \in DOMAIN spec : bound[k] = Bound(spec[k], data) /\ bound[k] = Final(spec[k])
  BY DEF IndInv, BoundFromData, Final
<1>3. i \in Of
  BY DEF IndInv, BoundFromData
<1>4. Len(spec) \in Nat /\ DOMAIN spec = 1..Len(spec) /\ Of \subseteq 1..Len(spec)
  BY <1>1, LenProperties
<1>5. j \in Of /\ \A k \in Of : k <= j
  <2>1. \E m \in Of : \A k \in Of : k <= m
    BY <1>3, <1>4, HasLargest
  <2> HIDE DEF Of
  <2> QED
    BY <2>1, Zenon
<1>6. n \in DOMAIN shown /\ shown[n] = bound[j]
  <2>1. n \in {m \in DOMAIN content.slots :
                  \E k \in DOMAIN spec :
                      bound[k] # None /\ spec[k].field = content.slots[m].field}
    BY <1>3
  <2> QED
    BY <1>1, <2>1 DEF ApplyGoogle
<1> HIDE DEF j
<1>7. j \in DOMAIN spec /\ j >= i
  BY <1>3, <1>4, <1>5
<1>8. ShowsLast(n, {k \in DOMAIN spec : spec[k].field = spec[i].field}, j)
  BY <1>2, <1>5, <1>6 DEF ShowsLast
<1> QED
  BY <1>7, <1>8

LEMMA LandInvariant == IndInv => RulesLand
  BY LandsOnApple, LandsOnGoogle, Zenon DEF RulesLand

\* RulesLand holds for every list of rules, catalogue and person: what publish has
\* checked is enough for no required rule to be dropped in silence from an Apple
\* pass, and a Google object needs no check for that.
THEOREM RulesLandCorrect == Spec => []RulesLand
  BY Invariance, LandInvariant, PTL

LEMMA MissingInvariant == IndInv => MissingNamed
<1> SUFFICES ASSUME IndInv PROVE MissingNamed
  OBVIOUS
<1> DEFINE absent == {f \in Requested \ DOMAIN data :
                         \E i \in DOMAIN spec : /\ spec[i].field = f /\ spec[i].required
                                                /\ spec[i].default = None}
<1>1. \A i \in DOMAIN spec : Bound(spec[i], data) = None <=>
          spec[i].field \notin DOMAIN data /\ spec[i].default = None
  BY BoundTyped DEF IndInv, TypeOK, OnlyAsked
<1>2. Missing(data) = absent
  BY <1>1 DEF Missing, Requested
<1>3. stage = "answered" => absent = {}
  BY <1>1 DEF IndInv, BoundFromData
<1>4. stage = "failed" /\ missing # {} => missing = absent
  BY <1>2 DEF IndInv, OnlyAsked
<1> QED
  BY <1>3, <1>4 DEF MissingNamed

\* A pass is never built without a required field, and the caller learns all the
\* fields that are missing, whatever the rules are and the provider has.
THEOREM MissingNamedCorrect == Spec => []MissingNamed
  BY Invariance, MissingInvariant, PTL

\* A preview has a value for every rule, and a text too long only from a sample.
LEMMA PreviewValues ==
    ASSUME spec \in Seq(Rule), NEW S \in SUBSET Mapped,
           NEW d \in [S -> {"plain", "long"}], NEW i \in DOMAIN spec
    PROVE  LET b == PreviewBound(spec, d)
           IN  /\ b[i] \in {"plain", "long", "sample"} /\ b[i] # None
               /\ b[i] = "long" <=> spec[i].field \in S /\ d[spec[i].field] = "long"
<1> DEFINE f == spec[i].field
           v == Sampled(spec, d)[f]
<1>1. f \in DOMAIN Sampled(spec, d)
  BY DEF Sampled
<1>2. /\ f \in S => v = d[f]
      /\ f \notin S => v \in {"sample", "plain"}
  BY DEF Sampled
<1>3. PreviewBound(spec, d)[i] = Convert(v, spec[i].type)
  BY <1>1 DEF PreviewBound, Bound
<1>4. "sample" # None /\ "plain" # None /\ "long" # None
  BY DEF Value
<1>5. v \in {"plain", "long", "sample"} /\ (v = "long" <=> f \in S /\ d[f] = "long")
  BY <1>2
<1> HIDE DEF v
<1> QED
  BY <1>3, <1>4, <1>5 DEF Convert

\* A picture in a pass is not among the places a preview has to show.
LEMMA VisibleWritten ==
    ASSUME Apple, NEW b, NEW c,
           \A i \in Written(spec, b) : c[i] # None
    PROVE  Visible(ApplyApple(spec, b)) \subseteq Visible(ApplyApple(spec, c))
<1> SUFFICES ASSUME NEW p \in Visible(ApplyApple(spec, b))
             PROVE  p \in Visible(ApplyApple(spec, c))
  OBVIOUS
<1>1. PICK i \in Written(spec, b) : p = Place(spec[i]) /\ p.kind # "image"
  BY DEF Visible, ApplyApple
<1>2. spec[i].kind # "image"
  BY <1>1 DEF Place
<1>3. i \in Written(spec, c)
  BY <1>1, <1>2 DEF Written, Lands
<1> QED
  BY <1>1, <1>3 DEF Visible, ApplyApple

LEMMA PreviewInvariant == IndInv => PreviewCovers
<1> SUFFICES ASSUME IndInv, stage = "answered", NEW S \in SUBSET Mapped,
                    NEW d \in [S -> {"plain", "long"}]
             PROVE  IF Apple /\ \E i \in DOMAIN spec :
                          \/ bound[i] = None /\ PointsNowhere(spec[i])
                          \/ /\ spec[i].kind = "nfc_payload" /\ spec[i].field \in S
                             /\ d[spec[i].field] = "long"
                      THEN Preview(spec, d) = {}
                      ELSE \E p \in Preview(spec, d) :
                              /\ Visible(shown) \subseteq DOMAIN p.shown
                              /\ Mapped \subseteq p.fields
  BY DEF PreviewCovers
<1> DEFINE b == PreviewBound(spec, d)
           broken == Apple /\ \E i \in DOMAIN spec :
                         \/ bound[i] = None /\ PointsNowhere(spec[i])
                         \/ /\ spec[i].kind = "nfc_payload" /\ spec[i].field \in S
                            /\ d[spec[i].field] = "long"
           f == Apply(spec, b)
           answer == [shown |-> [p \in Visible(f) |-> f[p]],
                      fields |-> {spec[i].field : i \in {j \in DOMAIN spec : b[j] # None}}]
<1>1. spec \in Seq(Rule) /\ shown = Apply(spec, bound) /\ ~Unbuildable(spec, bound)
  BY DEF IndInv, TypeOK, ShownBuilt
<1>2. \A i \in DOMAIN spec :
          /\ b[i] \in {"plain", "long", "sample"} /\ b[i] # None
          /\ b[i] = "long" <=> spec[i].field \in S /\ d[spec[i].field] = "long"
  BY <1>1, PreviewValues
<1>3. Preview(spec, d) = IF Unbuildable(spec, b) THEN {} ELSE {answer}
  BY DEF Preview
<1> HIDE DEF b
<1>4. Unbuildable(spec, b) <=> broken
  BY <1>1, <1>2 DEF Unbuildable
<1>5. Visible(shown) \subseteq Visible(f)
  <2>1. CASE Apple
    BY <1>1, <1>2, <2>1, VisibleWritten DEF Apply, Written
  <2>2. CASE ~Apple
    BY <1>1, <1>2, <2>2 DEF Apply, ApplyGoogle, Visible
  <2> QED
    BY <2>1, <2>2
<1>6. Mapped \subseteq answer.fields
  BY <1>2 DEF Mapped
<1>7. DOMAIN answer.shown = Visible(f)
  OBVIOUS
<1> HIDE DEF broken, answer, f
<1>8. IF broken THEN Preview(spec, d) = {}
      ELSE \E p \in Preview(spec, d) :
              Visible(shown) \subseteq DOMAIN p.shown /\ Mapped \subseteq p.fields
  BY <1>3, <1>4, <1>5, <1>6, <1>7
<1> QED
  BY <1>8 DEF broken

\* A preview shows a value wherever a pass of the same rules will, whatever fields the
\* designer gives samples for, and fails for no other reason than a rule that points
\* nowhere or a sample that is too long.
THEOREM PreviewCoversCorrect == Spec => []PreviewCovers
  BY Invariance, PreviewInvariant, PTL
-----------------------------------------------------------------------------
\* A call takes a bounded number of steps, of which each connection refused costs
\* one: what CallEnds needs besides fairness.
THEOREM CallsAdvance == Spec => CallAdvances
<1> DEFINE Advances ==
        \/ Ahead(stage') < Ahead(stage)
        \/ /\ stage' = stage
           /\ \/ /\ tries < tries' /\ tries' <= 1
                 /\ stage = "bound" => References' = References
              \/ /\ stage = "bound"
                 /\ References' \subseteq References /\ References' # References
<1>1. ASSUME IndInv, NEW fields, Fail(fields), Ahead(stage) > 1
      PROVE  Ahead(stage') < Ahead(stage)
  BY <1>1 DEF Fail, Ahead
<1>2. ASSUME IndInv, FetchFields \/ Bind \/ Build \/ End
      PROVE  Advances
  <2>1. stage \in {"asking", "fetched", "bound", "answered", "failed"}
    BY <1>2 DEF FetchFields, Bind, Build, End
  <2>2. CASE FetchFields
    BY <2>2 DEF FetchFields, Ahead
  <2>3. CASE Bind
    BY <2>3 DEF Bind, Fail, Ahead
  <2>4. CASE Build
    BY <2>4 DEF Build, Fail, Ahead
  <2>5. CASE End
    BY <2>5 DEF End, Ahead
  <2> QED
    BY <1>2, <2>2, <2>3, <2>4, <2>5
<1>3. ASSUME IndInv, FetchImage
      PROVE  Advances
  <2> DEFINE i == First(References)
  <2>1. i \in References /\ stage = "bound"
    <3>1. References \in SUBSET DOMAIN spec /\ spec \in Seq(Rule)
      BY <1>3 DEF References, IndInv, TypeOK
    <3>2. References # {} /\ stage = "bound"
      BY <1>3 DEF FetchImage
    <3> QED
      BY <3>1, <3>2, FirstIn
  <2> HIDE DEF i
  <2>2. CASE bound[i] # "reference"
    <3>1. Fail({})
      BY <1>3, <2>2 DEF FetchImage, i
    <3> QED
      BY <2>1, <3>1 DEF Fail, Ahead
  <2>3. CASE bound[i] = "reference"
    <3>1. /\ bound' = [bound EXCEPT ![i] = "picture"] /\ tries' = 0
          /\ UNCHANGED <<version, stage, spec>>
      BY <1>3, <2>3 DEF FetchImage, i
    <3>2. DOMAIN bound = DOMAIN spec
      BY <1>3, <2>1 DEF IndInv, BoundFromData
    <3>3. References' = References \ {i}
      BY <2>1, <3>1, <3>2 DEF References, Apple, version
    <3>4. stage' = "bound" /\ References' # References
      BY <2>1, <3>1, <3>3
    <3> QED
      BY <2>1, <3>3, <3>4
  <2> QED
    BY <2>2, <2>3
<1>4. ASSUME IndInv, Refuse
      PROVE  Advances
  <2>1. stage \in {"asking", "bound"}
    BY <1>4 DEF Refuse, Asking
  <2>2. CASE Fail({})
    BY <2>1, <2>2 DEF Fail, Ahead
  <2>3. CASE ~LastAttempt /\ Unreachable /\ ~Fail({})
    <3>1. tries' = 1 /\ tries = 0 /\ UNCHANGED <<version, stage, spec, bound>>
      BY <1>4, <2>3 DEF Unreachable, LastAttempt, IndInv, TypeOK
    <3>2. References' = References
      BY <3>1 DEF References, Apple, version
    <3> QED
      BY <3>1, <3>2
  <2> QED
    BY <1>4, <2>2, <2>3 DEF Refuse, Unreachable
<1>5. IndInv /\ [Next]_vars => [Step \/ Refuse => Advances]_vars
  BY <1>2, <1>3, <1>4 DEF Step
<1> QED
  BY <1>5, Invariance, PTL DEF Spec, CallAdvances
=============================================================================

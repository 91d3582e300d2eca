-------------------------- MODULE CatalogueProofs --------------------------
(***************************************************************************)
(* Theorems about Catalogue, for every set of refreshes, views and fields. *)
(***************************************************************************)
EXTENDS Catalogue, NaturalsInduction, FiniteSetTheorems, TLAPS

USE ViewsRanked, StableAreKeys, NoneIsNone

LEMMA ViewsAreRanks == View \subseteq Nat
  BY ViewsRanked DEF View, Default

LEMMA InitInv == Init => IndInv
  BY DEF Init, IndInv, TypeOK, OneRowPerField, RefreshedComplete, ClosedEmpty,
         OwnViews, RowsOfEnded, DoneInserted, Exclusive, NothingEscapes, Open,
         WaitInv, InOrder, TakenInTurn, SeenOfEnded, SeenNested, OneDeletesInView

\* Templates and validations are no business of the refreshes.
LEMMA ElsewhereInv ==
    ASSUME IndInv, UNCHANGED <<rows, progress, refreshed>>,
           template' \in [Template -> TemplateRow \cup {None}],
           check' \in [Check -> View \cup {None}]
    PROVE  IndInv'
  BY DEF IndInv, TypeOK, OneRowPerField, RefreshedComplete, ClosedEmpty, OwnViews,
         RowsOfEnded, DoneInserted, Exclusive, NothingEscapes, Open, RowsOf, progress,
         WaitInv, InOrder, TakenInTurn, SeenOfEnded, SeenNested, OneDeletesInView,
         NextView

LEMMA ReadViewsInv ==
    ASSUME IndInv, NEW r \in Refresh, ReadViews(r)
    PROVE  IndInv'
<1> USE DEF IndInv, ReadViews
<1>1. ViewsInUse \in SUBSET View /\ ViewsInUse # {}
  BY DEF TypeOK, ViewsInUse, View, TemplateRow
<1>2. inserted[r] = {} /\ deleted[r] = {}
  BY DEF ClosedEmpty, Open
<1>3. TypeOK'
  BY <1>1 DEF TypeOK
<1>4. OneRowPerField' /\ RefreshedComplete' /\ Exclusive'
  BY DEF OneRowPerField, RefreshedComplete, Exclusive, RowsOf
<1>5. ClosedEmpty' /\ RowsOfEnded'
  BY DEF ClosedEmpty, RowsOfEnded, Open, TypeOK, Row
<1>6. OwnViews'
  BY <1>1, <1>2 DEF OwnViews, TypeOK
<1>7. DoneInserted'
  BY DEF DoneInserted, TypeOK
<1>8. NothingEscapes'
  BY DEF NothingEscapes, Open, RowsOf, TypeOK
<1>9. WaitInv'
  <2> USE DEF WaitInv
  <2>1. InOrder'
    BY DEF InOrder, NextView, TypeOK
  <2>2. TakenInTurn' /\ OneDeletesInView'
    BY <1>2 DEF TakenInTurn, OneDeletesInView, TypeOK
  <2>3. SeenNested' /\ SeenOfEnded'
    BY DEF SeenNested, SeenOfEnded, TypeOK, Row
  <2> QED
    BY <2>1, <2>2, <2>3
<1> QED
  BY <1>3, <1>4, <1>5, <1>6, <1>7, <1>8, <1>9

LEMMA FetchInv ==
    ASSUME IndInv, NEW r \in Refresh, FetchAndDelete(r)
    PROVE  IndInv'
<1> USE DEF IndInv, FetchAndDelete
<1>1. PICK v \in View, S \in SUBSET Key :
        /\ v \in todo[r] /\ NextView(r, v) /\ Stable \subseteq S
        /\ at' = [at EXCEPT ![r] = v]
        /\ fetched' = [fetched EXCEPT ![r] = S]
        /\ seen' = [seen EXCEPT ![r] = RowsOf(v)]
  BY DEF NextView, ToDelete
<1>2. TypeOK'
  BY <1>1 DEF TypeOK, RowsOf
<1>3. OneRowPerField' /\ RefreshedComplete' /\ Exclusive' /\ DoneInserted'
  BY DEF OneRowPerField, RefreshedComplete, Exclusive, DoneInserted, RowsOf
<1>4. ClosedEmpty' /\ RowsOfEnded'
  BY DEF ClosedEmpty, RowsOfEnded, Open, TypeOK, Row
<1>5. OwnViews'
  BY <1>1 DEF OwnViews, TypeOK, RowsOf
<1>6. NothingEscapes'
  BY <1>1 DEF NothingEscapes, Open, RowsOf, TypeOK
<1>7. WaitInv'
  <2> USE DEF WaitInv
  <2>1. InOrder'
    BY <1>1 DEF InOrder, NextView, TypeOK
  <2>2. TakenInTurn' /\ OneDeletesInView'
    BY DEF TakenInTurn, OneDeletesInView, TypeOK
  <2>3. SeenOfEnded'
    BY <1>1 DEF SeenOfEnded, RowsOfEnded, RowsOf, TypeOK, Row
  <2>4. SeenNested'
    <3>1. \A q \in Refresh : \A y \in deleted[q] : y \in rows
      BY DEF TakenInTurn
    <3>2. seen'[r] = RowsOf(v) /\ at'[r] = v /\ v \in View
      BY <1>1 DEF TypeOK
    <3>3. \A q \in Refresh \ {r} : pc[q] = "deleting" /\ at[q] = v =>
                seen[q] \cap rows \subseteq RowsOf(v)
      BY DEF OwnViews, RowsOf
    <3> QED
      BY <1>1, <3>1, <3>2, <3>3 DEF SeenNested, RowsOf, TypeOK
  <2> QED
    BY <2>1, <2>2, <2>3, <2>4
<1> QED
  BY <1>2, <1>3, <1>4, <1>5, <1>6, <1>7

LEMMA FinishDeleteInv ==
    ASSUME IndInv, NEW r \in Refresh, FinishDelete(r)
    PROVE  IndInv'
<1> USE DEF IndInv, FinishDelete
<1>1. \A q \in Refresh \ {r} : seen[r] \cap deleted[q] = {}
  BY DEF WaitsFor, ClosedEmpty
<1>2. TypeOK'
  BY DEF TypeOK
<1>3. OneRowPerField' /\ RefreshedComplete' /\ DoneInserted'
  BY DEF OneRowPerField, RefreshedComplete, DoneInserted, RowsOf
<1>4. ClosedEmpty' /\ RowsOfEnded'
  BY DEF ClosedEmpty, RowsOfEnded, Open, TypeOK, Row
<1>5. OwnViews'
  BY DEF OwnViews, TypeOK
<1>6. Exclusive'
  BY <1>1 DEF Exclusive, TypeOK
<1>7. NothingEscapes'
  BY DEF NothingEscapes, Open, RowsOf, TypeOK
<1>8. WaitInv'
  <2> USE DEF WaitInv
  <2>1. /\ deleted'[r] = deleted[r] \cup (seen[r] \cap rows)
        /\ \A q \in Refresh \ {r} : deleted'[q] = deleted[q]
        /\ seen'[r] = {} /\ pc'[r] = "insert"
        /\ \A q \in Refresh \ {r} : seen'[q] = seen[q] /\ pc'[q] = pc[q]
    BY DEF TypeOK
  <2>2. InOrder'
    BY <2>1 DEF InOrder, NextView
  <2>3. TakenInTurn'
    BY <2>1 DEF TakenInTurn, OwnViews
  <2>4. SeenOfEnded'
    BY <2>1 DEF SeenOfEnded, TypeOK, Row
  \* Deleting at its view, it had deleted nothing there before.
  <2>5. \A y \in deleted[r] : y.view # at[r]
    BY DEF TakenInTurn, OwnViews
  <2>6. SeenNested'
    <3> SUFFICES ASSUME NEW p \in Refresh \ {r}, pc[p] = "deleting"
                 PROVE  \/ seen[p] \cap rows \subseteq deleted'[r]
                        \/ \A y \in deleted'[r] : y.view = at[p] => y \in seen[p]
      BY <2>1 DEF SeenNested
    <3>1. CASE at[p] = at[r]
      <4>1. \/ seen[p] \cap rows \subseteq seen[r]
            \/ seen[r] \cap rows \subseteq seen[p]
        BY <3>1 DEF SeenNested
      <4> QED
        BY <2>1, <2>5, <3>1, <4>1
    <3>2. CASE at[p] # at[r]
      <4>1. \A y \in seen[r] : y.view = at[r]
        BY DEF OwnViews
      <4> QED
        BY <2>1, <3>2, <4>1 DEF SeenNested
    <3> QED
      BY <3>1, <3>2
  <2>7. OneDeletesInView'
    <3>1. \A q \in Refresh \ {r} :
            \A x \in seen[r] \cap rows, y \in deleted[q] : x.view # y.view
      BY <1>1 DEF SeenNested, OwnViews
    <3> QED
      BY <2>1, <3>1 DEF OneDeletesInView
  <2> QED
    BY <2>2, <2>3, <2>4, <2>6, <2>7
<1> QED
  BY <1>2, <1>3, <1>4, <1>5, <1>6, <1>7, <1>8

LEMMA ConflictSymmetric ==
    ASSUME NEW x \in Row, NEW y \in Row
    PROVE  Conflict(x, y) <=> Conflict(y, x)
  BY DEF Conflict

LEMMA InsertInv ==
    ASSUME IndInv, NEW r \in Refresh, Insert(r)
    PROVE  IndInv'
<1> USE DEF IndInv
<1>1. /\ pc[r] = "insert" /\ at[r] \in todo[r] /\ at[r] \in View
      /\ fetched[r] \in SUBSET Key /\ Stable \subseteq fetched[r]
  BY DEF OwnViews, Insert, TypeOK
<1>2. /\ inserted' = [inserted EXCEPT ![r] = @ \cup NewRows(r)]
      /\ todo' = [todo EXCEPT ![r] = @ \ {at[r]}]
      /\ pc' = [pc EXCEPT ![r] = IF todo'[r] = {} THEN "commit" ELSE "fetch"]
      /\ fetched' = [fetched EXCEPT ![r] = {}]
      /\ at' = [at EXCEPT ![r] = None]
      /\ UNCHANGED <<rows, template, views, seen, deleted, raced, refreshed, check>>
  BY DEF Insert
<1>3. /\ NewRows(r) \subseteq Row
      /\ \A x \in NewRows(r) : x.by = r /\ x.view = at[r]
      /\ \A k \in Stable : [view |-> at[r], key |-> k, by |-> r] \in NewRows(r)
  BY <1>1 DEF NewRows, Row
<1>4. /\ \A q \in Refresh \ {r} :
            \A x \in NewRows(r), y \in inserted[q] : ~Conflict(x, y)
      /\ \A x \in NewRows(r), y \in rows : Conflict(x, y) => y \in deleted[r]
  BY <1>1 DEF Insert, WaitsFor, Violates, ClosedEmpty
<1>5. TypeOK'
  BY <1>2, <1>3 DEF TypeOK
<1>6. OneRowPerField' /\ RefreshedComplete'
  BY <1>2 DEF OneRowPerField, RefreshedComplete, RowsOf
<1>7. ClosedEmpty' /\ RowsOfEnded'
  BY <1>1, <1>2 DEF ClosedEmpty, RowsOfEnded, Open, TypeOK, Row
<1>8. OwnViews'
  BY <1>1, <1>2, <1>3 DEF OwnViews, TypeOK
<1>9. DoneInserted'
  BY <1>1, <1>2, <1>3 DEF DoneInserted, TypeOK
<1>10. Exclusive'
  <2>1. \A q \in Refresh \ {r} :
            \A x \in NewRows(r), y \in inserted[q] : ~Conflict(y, x)
    BY <1>3, <1>4, ConflictSymmetric DEF TypeOK
  <2> QED
    BY <1>2, <1>4, <2>1 DEF Exclusive, TypeOK
<1>11. NothingEscapes'
  BY <1>1, <1>2 DEF NothingEscapes, Open, RowsOf, TypeOK
<1>12. WaitInv'
  <2> USE DEF WaitInv
  <2>1. InOrder'
    <3>1. ASSUME NEW w \in todo'[r] PROVE at[r] < w
      <4>1. w \in todo[r] /\ w # at[r] /\ w \in View
        BY <1>2 DEF TypeOK
      <4>2. at[r] <= w
        BY <1>1, <4>1 DEF InOrder, NextView
      <4> QED
        BY <1>1, <4>1, <4>2, ViewsAreRanks
    <3>2. \A v \in views[r] \ todo'[r] : v = at[r] \/ v \in views[r] \ todo[r]
      BY <1>1, <1>2 DEF TypeOK
    <3> QED
      BY <1>1, <1>2, <3>1, <3>2 DEF InOrder, NextView, TypeOK
  <2>2. TakenInTurn'
    BY <1>1, <1>2, <1>3 DEF TakenInTurn, OwnViews, TypeOK
  <2>3. SeenOfEnded' /\ OneDeletesInView'
    BY <1>1, <1>2 DEF SeenOfEnded, OneDeletesInView, TypeOK, Row
  <2>4. SeenNested'
    BY <1>1, <1>2 DEF SeenNested, TypeOK
  <2> QED
    BY <2>1, <2>2, <2>3, <2>4
<1> QED
  BY <1>5, <1>6, <1>7, <1>8, <1>9, <1>10, <1>11, <1>12

LEMMA CommitInv ==
    ASSUME IndInv, NEW r \in Refresh, Commit(r)
    PROVE  IndInv'
<1> USE DEF IndInv, Commit, Close, Replaced
<1>1. TypeOK'
  BY DEF TypeOK
<1>2. OneRowPerField'
  <2> SUFFICES ASSUME NEW x \in rows', NEW y \in rows', Conflict(x, y)
               PROVE  x = y
    BY DEF OneRowPerField, Conflict
  <2>1. x \in Row /\ y \in Row
    BY DEF TypeOK
  <2>2. CASE x \in inserted[r] /\ y \in inserted[r]
    BY <2>1, <2>2 DEF OwnViews, Conflict, Row
  <2>3. CASE x \notin inserted[r] /\ y \notin inserted[r]
    BY <2>3 DEF OneRowPerField, Conflict
  <2>4. CASE x \in inserted[r] /\ y \notin inserted[r]
    BY <2>4 DEF Exclusive
  <2>5. CASE x \notin inserted[r] /\ y \in inserted[r]
    BY <2>1, <2>5, ConflictSymmetric DEF Exclusive
  <2> QED
    BY <2>2, <2>3, <2>4, <2>5
<1>3. RefreshedComplete'
  <2> SUFFICES ASSUME NEW v \in refreshed', NEW k \in Stable
               PROVE  \E x \in rows' : x.view = v /\ x.key = k
    BY DEF RefreshedComplete, RowsOf
  <2>1. CASE v \in views[r]
    <3>1. [view |-> v, key |-> k, by |-> r] \in rows'
      BY <2>1 DEF DoneInserted, OwnViews
    <3> QED
      BY <3>1
  <2>2. CASE v \notin views[r]
    <3>1. PICK x \in rows : x.view = v /\ x.key = k
      BY <2>2 DEF RefreshedComplete, RowsOf
    <3> QED
      BY <2>2, <3>1 DEF OwnViews
  <2> QED
    BY <2>1, <2>2
<1>4. ClosedEmpty' /\ RowsOfEnded'
  BY DEF ClosedEmpty, RowsOfEnded, OwnViews, Open, TypeOK, Row
<1>5. OwnViews'
  BY DEF OwnViews, TypeOK
<1>6. DoneInserted'
  BY DEF DoneInserted, TypeOK
<1>7. Exclusive'
  BY DEF Exclusive, TypeOK
<1>8. NothingEscapes'
  BY DEF NothingEscapes, Open, TypeOK
<1>9. WaitInv'
  <2> USE DEF WaitInv
  <2>1. InOrder' /\ OneDeletesInView'
    BY DEF InOrder, OneDeletesInView, NextView, TypeOK
  <2>2. TakenInTurn'
    BY DEF TakenInTurn, Exclusive, TypeOK
  <2>3. SeenOfEnded'
    BY DEF SeenOfEnded, TypeOK, Row
  <2>4. SeenNested'
    \* What it adds, nobody has seen.
    <3>1. \A q \in Refresh : seen[q] \cap rows' \subseteq seen[q] \cap rows
      BY DEF SeenOfEnded, OwnViews
    <3> QED
      BY <3>1 DEF SeenNested, TypeOK
  <2> QED
    BY <2>1, <2>2, <2>3, <2>4
<1> QED
  BY <1>1, <1>2, <1>3, <1>4, <1>5, <1>6, <1>7, <1>8, <1>9

\* A refresh that fails has no effect.
LEMMA RollBackInv ==
    ASSUME IndInv, NEW r \in Refresh, RollBack(r)
    PROVE  IndInv'
<1> USE DEF IndInv, RollBack, Close, AfterFailure
<1>1. TypeOK'
  BY DEF TypeOK
<1>2. OneRowPerField' /\ RefreshedComplete'
  BY DEF OneRowPerField, RefreshedComplete, RowsOf
<1>3. ClosedEmpty' /\ RowsOfEnded' /\ DoneInserted'
  BY DEF ClosedEmpty, RowsOfEnded, DoneInserted, Open, TypeOK, Row
<1>4. OwnViews'
  BY DEF OwnViews, TypeOK
<1>5. Exclusive'
  BY DEF Exclusive, TypeOK
<1>6. NothingEscapes'
  BY DEF NothingEscapes, Open, RowsOf, TypeOK
<1>7. WaitInv'
  <2> USE DEF WaitInv
  <2>1. InOrder' /\ OneDeletesInView' /\ TakenInTurn'
    BY DEF InOrder, OneDeletesInView, TakenInTurn, NextView, TypeOK
  <2>2. SeenOfEnded' /\ SeenNested'
    BY DEF SeenOfEnded, SeenNested, TypeOK, Row
  <2> QED
    BY <2>1, <2>2
<1> QED
  BY <1>1, <1>2, <1>3, <1>4, <1>5, <1>6, <1>7

LEMMA InvStep == IndInv /\ [Next]_vars => IndInv'
<1> SUFFICES ASSUME IndInv, [Next]_vars
             PROVE  IndInv'
  OBVIOUS
<1>1. ASSUME NEW t \in Template, NEW v \in View,
             CreateTemplate(t, v) \/ UpdateTemplate(t, v) \/ ArchiveTemplate(t)
      PROVE  IndInv'
  <2>1. template' \in [Template -> TemplateRow \cup {None}]
    <3>1. template \in [Template -> TemplateRow \cup {None}]
      BY DEF IndInv, TypeOK
    <3>2. CASE CreateTemplate(t, v)
      BY <3>1, <3>2 DEF CreateTemplate, TemplateRow
    <3>3. CASE UpdateTemplate(t, v)
      <4>1. [template[t] EXCEPT !.view = v] \in TemplateRow
        BY <3>1, <3>3 DEF UpdateTemplate, TemplateRow
      <4> QED
        BY <3>1, <3>3, <4>1 DEF UpdateTemplate
    <3>4. CASE ArchiveTemplate(t)
      <4>1. [template[t] EXCEPT !.archived = TRUE] \in TemplateRow
        BY <3>1, <3>4 DEF ArchiveTemplate, TemplateRow
      <4> QED
        BY <3>1, <3>4, <4>1 DEF ArchiveTemplate
    <3> QED
      BY <1>1, <3>2, <3>3, <3>4
  <2> QED
    BY <1>1, <2>1, ElsewhereInv
    DEF CreateTemplate, UpdateTemplate, ArchiveTemplate, IndInv, TypeOK
<1>2. ASSUME NEW r \in Refresh, Step(r) \/ Fail(r)
      PROVE  IndInv'
  BY <1>2, ReadViewsInv, FetchInv, FinishDeleteInv, InsertInv, CommitInv,
     RollBackInv
  DEF Step, Fail, IntegrityFailure
<1>3. ASSUME NEW c \in Check, NEW t \in Template, ReadTemplateView(c, t)
      PROVE  IndInv'
  <2>1. check' \in [Check -> View \cup {None}]
    BY <1>3 DEF ReadTemplateView, IndInv, TypeOK, TemplateRow
  <2> QED
    BY <1>3, <2>1, ElsewhereInv DEF ReadTemplateView, IndInv, TypeOK
<1>4. CASE UNCHANGED vars
  BY <1>4, ElsewhereInv DEF vars, IndInv, TypeOK
<1>5. ASSUME NEW c \in Check, ValidateRules(c)
      PROVE  IndInv'
  <2>1. check' \in [Check -> View \cup {None}]
    BY <1>5 DEF ValidateRules, IndInv, TypeOK
  <2> QED
    BY <1>5, <2>1, ElsewhereInv DEF ValidateRules, IndInv, TypeOK
<1>6. ASSUME NEW t \in Template, ArchiveTemplate(t)
      PROVE  IndInv'
  BY <1>1, <1>6 DEF View
<1> QED
  BY <1>1, <1>2, <1>3, <1>4, <1>5, <1>6 DEF Next

\* The invariant the theorems below rest on: what open refreshes hold excludes
\* what others hold, and is complete for the views they are done with.
THEOREM Invariance == Spec => []IndInv
  BY InitInv, InvStep, PTL DEF Spec

\* A named view never has two rows for a field, however many refreshes overlap.
THEOREM OneRowPerFieldCorrect == Spec => []OneRowPerField
  BY Invariance, PTL DEF IndInv

\* A field that is always offered stays in the catalogue of every view that some
\* refresh has covered, also while others delete and insert or fail.
THEOREM RefreshedStaysComplete == Spec => []RefreshedComplete
  BY Invariance, PTL DEF IndInv

\* So a rule on such a field is not refused.
THEOREM RejectionsExplained == Spec => []RejectionExplained
<1>1. IndInv => RejectionExplained
  BY DEF IndInv, RefreshedComplete, RejectionExplained, Unknown, DataFieldCatalogue
<1> QED
  BY <1>1, Invariance, PTL

\* What a refresh has inserted comes to be seen in all of its views at once.
THEOREM ViewsAtOnce == Spec => AllViewsAtOnce
<1> DEFINE Once == \A r \in Refresh : (\E x \in rows' \ rows : x.by = r) =>
                \A v \in views[r], k \in Stable :
                    [view |-> v, key |-> k, by |-> r] \in rows'
<1>1. ASSUME IndInv, NEW q \in Refresh, Commit(q)
      PROVE  Once
  BY <1>1 DEF IndInv, OwnViews, DoneInserted, Commit, Replaced
<1>2. ASSUME IndInv, [Next]_vars, ~(\E q \in Refresh : Commit(q))
      PROVE  rows' = rows
  BY <1>2 DEF Next, vars, CreateTemplate, UpdateTemplate, ArchiveTemplate, Step,
     ReadViews, FetchAndDelete, FinishDelete, Insert, IntegrityFailure, Fail,
     RollBack, AfterFailure, ReadTemplateView, ValidateRules
<1>3. IndInv /\ [Next]_vars => Once
  BY <1>1, <1>2
<1> QED
  BY <1>3, Invariance, PTL DEF AllViewsAtOnce, Spec

\* A refresh during which no other committed leaves its own rows only.
THEOREM RefreshesReplace == Spec => RefreshReplaces
<1>1. ASSUME IndInv, NEW r \in Refresh, Commit(r), ~raced[r],
             NEW x \in rows', x.view \in views[r]
      PROVE  x.by = r
  <2>1. todo[r] = {} /\ Open(r)
    BY <1>1 DEF IndInv, OwnViews, Commit, Open
  <2>2. x \in inserted[r]
    BY <1>1, <2>1 DEF IndInv, NothingEscapes, Commit, Replaced
  <2> QED
    BY <1>1, <2>2 DEF IndInv, OwnViews
<1>2. IndInv => \A r \in Refresh : Commit(r) /\ ~raced[r] =>
                    \A x \in rows' : x.view \in views[r] => x.by = r
  BY <1>1
<1> QED
  BY <1>2, Invariance, PTL DEF RefreshReplaces

-----------------------------------------------------------------------------
(* Waiting.                                                                *)

LEMMA HasSmallest ==
    ASSUME NEW S, S \subseteq Nat, S # {}
    PROVE  \E m \in S : \A k \in S : m <= k
<1> DEFINE LT == OpToRel(<, Nat)
<1>1. IsWellFoundedOn(LT, Nat)
  BY NatLessThanWellFounded
<1>2. \A x \in Nat, y \in Nat : x < y => <<x, y>> \in LT
  BY DEF OpToRel
<1> HIDE DEF LT
<1>3. PICK m \in S : \A k \in S : <<k, m>> \notin LT
  BY <1>1, WFMin, Zenon
<1>4. ASSUME NEW k \in S PROVE m <= k
  <2>1. k \in Nat /\ m \in Nat
    OBVIOUS
  <2>2. ~(k < m)
    BY <1>2, <1>3, <2>1
  <2> QED
    BY <2>1, <2>2
<1> QED
  BY <1>4

\* Of finitely many, one has the largest rank: a set without, with the fewest
\* members, would have one when a member is taken out.
LEMMA OneIsLast ==
    ASSUME NEW S, IsFiniteSet(S), S # {}, NEW f, \A r \in S : f[r] \in Nat
    PROVE  \E r \in S : \A q \in S : f[q] <= f[r]
<1> DEFINE Last(T) == \E r \in T : \A q \in T : f[q] <= f[r]
           Without == {T \in SUBSET S : T # {} /\ ~Last(T)}
           Sizes == {Cardinality(T) : T \in Without}
<1> SUFFICES ASSUME Without # {} PROVE FALSE
  OBVIOUS
<1>1. \A T \in SUBSET S : IsFiniteSet(T) /\ Cardinality(T) \in Nat
  BY FS_Subset, FS_CardinalityType
<1>2. Sizes \subseteq Nat /\ Sizes # {}
  BY <1>1
<1> HIDE DEF Sizes
<1>3. PICK n \in Sizes : \A k \in Sizes : n <= k
  BY <1>2, HasSmallest
<1>4. PICK T \in Without : n = Cardinality(T)
  BY <1>3 DEF Sizes
<1>5. PICK t \in T : TRUE
  OBVIOUS
<1> DEFINE U == T \ {t}
<1>6. Cardinality(U) = n - 1 /\ n \in Nat
  <2>1. IsFiniteSet(T) /\ n \in Nat
    BY <1>1, <1>4
  <2> QED
    BY <1>4, <1>5, <2>1, FS_RemoveElement
<1>7. U \notin Without
  <2>1. SUFFICES ASSUME Cardinality(U) \in Sizes PROVE FALSE
    BY DEF Sizes
  <2> QED
    BY <1>3, <1>6, <2>1
<1>8. CASE U = {}
  <2>1. T = {t} /\ f[t] \in Nat
    BY <1>5, <1>8
  <2> QED
    BY <1>4, <2>1
<1>9. CASE Last(U)
  <2>1. PICK r \in U : \A q \in U : f[q] <= f[r]
    BY <1>9
  <2>2. f[r] \in Nat /\ f[t] \in Nat
    BY <1>5
  <2>3. \A q \in T : f[q] \in Nat
    OBVIOUS
  <2>4. CASE f[t] <= f[r]
    BY <1>4, <2>1, <2>4
  <2>5. CASE f[r] <= f[t]
    BY <1>4, <1>5, <2>1, <2>2, <2>3, <2>5
  <2> QED
    BY <2>2, <2>4, <2>5
<1> QED
  BY <1>7, <1>8, <1>9

\* Whom a refresh waits for is past its view, or has deleted rows of that view and
\* is about to insert into it.
LEMMA WaitsAhead ==
    ASSUME IndInv, NEW r \in Refresh, NEW q \in Refresh, WaitsFor(r, q),
           pc[q] \in {"deleting", "insert"}
    PROVE  /\ pc[r] \in {"deleting", "insert"}
           /\ at[r] \in View /\ at[q] \in View
           /\ \/ at[r] < at[q]
              \/ /\ at[q] = at[r] /\ pc[q] = "insert"
                 /\ \E y \in deleted[q] : y.view = at[r]
<1> USE DEF IndInv
<1>1. pc[r] \in {"deleting", "insert"}
  BY DEF WaitsFor
<1>2. at[r] \in View /\ at[q] \in View /\ at[q] \in todo[q]
  BY <1>1 DEF OwnViews, TypeOK
<1>3. PICK y \in inserted[q] \cup deleted[q] :
            y.view = at[r] /\ (pc[r] = "deleting" => y \in deleted[q])
  BY DEF WaitsFor, Conflict, NewRows, OwnViews
<1>4. CASE y.view \in views[q] \ todo[q]
  BY <1>1, <1>2, <1>3, <1>4 DEF WaitInv, InOrder
<1>5. CASE y \in deleted[q] /\ pc[q] = "insert" /\ y.view = at[q]
  BY <1>1, <1>2, <1>3, <1>5
<1> QED
  BY <1>3, <1>4, <1>5 DEF WaitInv, TakenInTurn

\* Refreshes never wait for one another in a circle.
THEOREM RefreshesNeverDeadlock == Spec => []NoCircularWait
<1>1. ASSUME IndInv, NEW S \in (SUBSET Refresh) \ {{}}, IsFiniteSet(S),
             \A r \in S : \E q \in S : WaitsFor(r, q)
      PROVE  FALSE
  <2>1. \A r \in S : pc[r] \in {"deleting", "insert"} /\ at[r] \in View
    BY <1>1 DEF WaitsFor, IndInv, OwnViews, TypeOK
  <2>2. \A r \in S : at[r] \in Nat
    BY <2>1, ViewsAreRanks
  <2>3. PICK r \in S : \A q \in S : at[q] <= at[r]
    BY <1>1, <2>2, OneIsLast
  \* The one it waits for has deleted rows of the last view, ...
  <2>4. PICK q \in S : WaitsFor(r, q)
    BY <1>1
  <2>5. at[q] = at[r] /\ pc[q] = "insert" /\ \E y \in deleted[q] : y.view = at[r]
    BY <1>1, <2>1, <2>2, <2>3, <2>4, WaitsAhead
  \* ... and so has the one that one waits for.
  <2>6. PICK p \in S : WaitsFor(q, p)
    BY <1>1
  <2>7. at[p] = at[q] /\ \E y \in deleted[p] : y.view = at[q]
    BY <1>1, <2>1, <2>2, <2>3, <2>5, <2>6, WaitsAhead
  <2>8. p # q
    BY <2>6 DEF WaitsFor
  <2> QED
    BY <1>1, <2>5, <2>7, <2>8 DEF IndInv, WaitInv, OneDeletesInView
<1>2. IndInv => NoCircularWait
  BY <1>1 DEF NoCircularWait
<1> QED
  BY <1>2, Invariance, PTL
-----------------------------------------------------------------------------
\* A refresh takes a bounded number of steps, at most three for each of its views;
\* with RefreshesNeverDeadlock, nothing but the provider can keep it from its end.
THEOREM RefreshesAdvance == Spec => RefreshAdvances
<1> DEFINE Advances(r) ==
        \/ pc'[r] = "ended"
        \/ todo'[r] \subseteq todo[r] /\ todo'[r] # todo[r]
        \/ todo'[r] = todo[r] /\ Left(pc'[r]) < Left(pc[r])
<1>1. ASSUME IndInv, NEW r \in Refresh, Open(r), NEW q \in Refresh, Step(q) \/ Fail(q),
             pc'[r] # pc[r] \/ todo'[r] # todo[r]
      PROVE  Advances(r)
  <2> USE DEF IndInv, TypeOK
  <2>1. CASE q # r
    <3>1. pc'[r] = pc[r] /\ todo'[r] = todo[r]
      BY <1>1, <2>1 DEF Step, Fail, ReadViews, FetchAndDelete, FinishDelete, Insert,
         IntegrityFailure, Commit, RollBack, Close
    <3> QED
      BY <1>1, <3>1
  <2>2. CASE q = r /\ (ReadViews(r) \/ Commit(r) \/ IntegrityFailure(r) \/ Fail(r))
    BY <1>1, <2>2 DEF ReadViews, Open, Commit, IntegrityFailure, Fail, RollBack, Close
  <2>3. CASE q = r /\ FetchAndDelete(r)
    BY <1>1, <2>3 DEF FetchAndDelete, Left
  <2>4. CASE q = r /\ FinishDelete(r)
    BY <1>1, <2>4 DEF FinishDelete, Left
  <2>5. CASE q = r /\ Insert(r)
    <3>1. at[r] \in todo[r] /\ todo'[r] = todo[r] \ {at[r]}
      BY <1>1, <2>5 DEF Insert, OwnViews
    <3> QED
      BY <3>1
  <2> QED
    BY <1>1, <2>1, <2>2, <2>3, <2>4, <2>5 DEF Step
<1>2. ASSUME IndInv, Next, NEW r \in Refresh, Open(r),
             pc'[r] # pc[r] \/ todo'[r] # todo[r]
      PROVE  Advances(r)
  BY <1>1, <1>2 DEF Next, CreateTemplate, UpdateTemplate, ArchiveTemplate,
     ReadTemplateView, ValidateRules, progress
<1>3. IndInv /\ [Next]_vars =>
        [\A r \in Refresh : Open(r) /\ (pc'[r] # pc[r] \/ todo'[r] # todo[r]) =>
            Advances(r)]_vars
  BY <1>2
<1> QED
  BY <1>3, Invariance, PTL DEF Spec, RefreshAdvances
=============================================================================

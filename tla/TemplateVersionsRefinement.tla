--------------------- MODULE TemplateVersionsRefinement ---------------------
(***************************************************************************)
(* More theorems about TemplateVersions: the numbers of the versions of a  *)
(* variant, the content of a version, and that what readers see is a       *)
(* VersionRegistry.                                                        *)
(***************************************************************************)
EXTENDS TemplateVersionsProofs, FiniteSetTheorems, NaturalsInduction

-----------------------------------------------------------------------------
(***************************************************************************)
(* Numbers.  A create has read at most the next number, and once its row   *)
(* is in the unique index, committed or not, it has exactly that and no    *)
(* other create of the variant has come so far.                            *)
(***************************************************************************)
Size(x) == Cardinality(Committed(x))

Creates(r) == pc[r] # "idle" /\ op[r] = "create"

HasInserted(r) == Creates(r) /\ pc[r] # "numbered"

FinitelyMany == \A x \in Variant : IsFiniteSet(Committed(x))

NumberRead ==
    \A r \in Request : Creates(r) => num[r] \in 1..(Size(VariantOf[ver[r]]) + 1)

NumberInserted ==
    \A r \in Request : HasInserted(r) =>
        /\ holder[ver[r]] = r /\ image[ver[r]] = "draft"
        /\ number[ver[r]] = num[r]
        /\ num[r] = Size(VariantOf[ver[r]]) + 1

OneInserts ==
    \A q, r \in Request :
        /\ HasInserted(q) /\ HasInserted(r)
        /\ VariantOf[ver[q]] = VariantOf[ver[r]]
        => q = r

NumberInv ==
    /\ IndInv
    /\ FinitelyMany
    /\ NumbersSequential
    /\ NumberRead
    /\ NumberInserted
    /\ OneInserts

LEMMA OneMore ==
    ASSUME NEW k \in Nat
    PROVE  1..k \cup {k + 1} = 1..(k + 1)
  OBVIOUS

LEMMA SizeOfVariant ==
    ASSUME NumberInv, NEW x \in Variant
    PROVE  /\ Size(x) \in Nat /\ IsFiniteSet(Committed(x))
           /\ {number[w] : w \in Committed(x)} = 1..Size(x)
<1>1. IsFiniteSet(Committed(x))
  BY DEF NumberInv, FinitelyMany
<1>2. Size(x) \in Nat
  BY <1>1, FS_CardinalityType DEF Size
<1> QED
  BY <1>1, <1>2 DEF NumberInv, NumbersSequential, Size

LEMMA VariantOfVersion ==
    ASSUME NEW v \in Version
    PROVE  VariantOf[v] \in Variant
  BY VariantOfType

\* A step that leaves the committed versions and their numbers alone, and starts
\* or inserts no version.
LEMMA NumbersKept ==
    ASSUME NumberInv, IndInv', UNCHANGED status,
           \A v \in Version : status[v] # "none" => number'[v] = number[v],
           \A q \in Request : Creates(q)' =>
               Creates(q) /\ ver'[q] = ver[q] /\ num'[q] = num[q],
           \A q \in Request : HasInserted(q)' =>
               /\ HasInserted(q)
               /\ holder'[ver[q]] = holder[ver[q]]
               /\ image'[ver[q]] = image[ver[q]]
               /\ number'[ver[q]] = number[ver[q]]
    PROVE  NumberInv'
<1>1. \A x : Committed(x)' = Committed(x)
  BY DEF Committed
<1>2. \A x : Size(x)' = Size(x)
  BY <1>1 DEF Size
<1>3. ASSUME NEW x \in Variant
      PROVE  {number'[v] : v \in Committed(x)} = {number[v] : v \in Committed(x)}
  BY DEF Committed
<1>4. FinitelyMany' /\ NumbersSequential'
  BY <1>1, <1>3 DEF NumberInv, FinitelyMany, NumbersSequential
<1>5. NumberRead'
  BY <1>2 DEF NumberInv, NumberRead
<1>6. NumberInserted'
  BY <1>2 DEF NumberInv, NumberInserted, HasInserted
<1>7. OneInserts'
  BY DEF NumberInv, OneInserts, HasInserted
<1> QED
  BY <1>4, <1>5, <1>6, <1>7 DEF NumberInv

\* The next number that a create reads is at most one more than there are.
LEMMA NumbersOfBegin ==
    ASSUME NumberInv, IndInv', NEW r \in Request, Begin(r)
    PROVE  NumberInv'
<1> USE DEF NumberInv, IndInv, LocalInv, TypeOK, HasVersion
<1>1. ASSUME NEW v \in Version, NEW n \in 1..Cardinality(Version),
             BeginCreate(r, v, n)
      PROVE  NumberInv'
  <2>1. /\ UNCHANGED <<status, number, holder, image>> /\ pc[r] = "idle"
        /\ pc'[r] = "numbered" /\ num'[r] = n /\ ver'[r] = v
        /\ \A q \in Request \ {r} :
              pc'[q] = pc[q] /\ op'[q] = op[q] /\ ver'[q] = ver[q] /\ num'[q] = num[q]
    BY <1>1 DEF BeginCreate, Goto, table
  <2>2. \A x : Committed(x)' = Committed(x) /\ Size(x)' = Size(x)
    BY <2>1 DEF Committed, Size
  <2>3. n \in 1..(Size(VariantOf[v]) + 1)
    <3>1. /\ {number[w] : w \in Committed(VariantOf[v])} = 1..Size(VariantOf[v])
          /\ Size(VariantOf[v]) \in Nat
      BY SizeOfVariant, VariantOfVersion
    <3>2. n = 1 \/ n - 1 \in 1..Size(VariantOf[v])
      BY <1>1, <3>1 DEF BeginCreate, IsNextNumber
    <3> QED
      BY <3>1, <3>2
  <2>4. FinitelyMany' /\ NumbersSequential'
    BY <2>1, <2>2 DEF FinitelyMany, NumbersSequential
  <2>5. NumberRead'
    BY <2>1, <2>2, <2>3 DEF NumberRead, Creates
  <2>6. NumberInserted' /\ OneInserts'
    BY <2>1, <2>2 DEF NumberInserted, OneInserts, HasInserted, Creates
  <2> QED
    BY <2>4, <2>5, <2>6
<1>2. ASSUME NEW o \in AllOps \ {"create"}, NEW v \in Version, NEW s,
             RequireDraft(r, o, v, s)
      PROVE  NumberInv'
  BY <1>2, NumbersKept DEF RequireDraft, Goto, table, Creates, HasInserted
<1> QED
  BY <1>1, <1>2
     DEF Begin, BeginSetMappings, BeginPutAsset, BeginDeleteAsset,
         BeginPublish, AllOps

\* The unique index lets a create in only with the number after the last one.
LEMMA NumbersOfInsert ==
    ASSUME NumberInv, IndInv', NEW r \in Request, InsertVersion(r)
    PROVE  NumberInv'
<1> USE DEF NumberInv, IndInv, LocalInv, TypeOK, HasVersion
<1> DEFINE x == VariantOf[ver[r]]
<1>1. /\ UNCHANGED <<status, op, ver, num>> /\ pc[r] = "numbered"
      /\ pc'[r] \in {"inserted", "done"}
      /\ \A q \in Request \ {r} : pc'[q] = pc[q]
      /\ holder'[ver[r]] = r /\ image'[ver[r]] = "draft"
      /\ number'[ver[r]] = num[r]
      /\ \A w \in Version \ {ver[r]} : /\ holder'[w] = holder[w]
                                     /\ image'[w] = image[w]
                                     /\ number'[w] = number[w]
  BY DEF InsertVersion, Goto
<1>2. /\ ver[r] \in Version /\ op[r] = "create" /\ status[ver[r]] = "none"
      /\ \A q \in Request \ {r} : pc[q] # "idle" => ver[q] # ver[r]
  BY <1>1 DEF StageOfOp, Targets
<1>3. \A v : Committed(v)' = Committed(v) /\ Size(v)' = Size(v)
  BY <1>1 DEF Committed, Size
<1>4. \A w \in Version \ {ver[r]} : VariantOf[w] = x => number[w] # num[r]
  <2> SUFFICES ASSUME NEW w \in NumberRivals(r)
               PROVE  FALSE
    BY DEF NumberRivals
  <2>1. w \in Version \ {ver[r]} /\ holder[w] # None
    BY <1>1 DEF InsertVersion, Violates, NumberRivals
  <2>2. holder[w] = r
    BY <1>1, <2>1 DEF InsertVersion, Free, WaitsFor
  <2> QED
    BY <1>2, <2>1, <2>2 DEF HeldRows
<1>5. Size(x) \in Nat /\ {number[w] : w \in Committed(x)} = 1..Size(x)
  BY <1>2, SizeOfVariant, VariantOfVersion
<1>6. num[r] = Size(x) + 1
  <2>1. num[r] \in 1..(Size(x) + 1)
    BY <1>1, <1>2 DEF NumberRead, Creates
  <2>2. num[r] \notin {number[w] : w \in Committed(x)}
    BY <1>2, <1>4 DEF Committed
  <2> QED
    BY <1>5, <2>1, <2>2
<1>7. \A q \in Request \ {r} : HasInserted(q) => VariantOf[ver[q]] # x
  BY <1>2, <1>4, <1>6 DEF NumberInserted, HasInserted, Creates
<1>8. FinitelyMany' /\ NumbersSequential'
  <2>1. ASSUME NEW v \in Variant
        PROVE  {number'[w] : w \in Committed(v)} = {number[w] : w \in Committed(v)}
    BY <1>1, <1>2 DEF Committed
  <2> QED
    BY <1>3, <2>1 DEF FinitelyMany, NumbersSequential
<1>9. NumberRead'
  BY <1>1, <1>3 DEF NumberRead, Creates
<1>10. NumberInserted'
  BY <1>1, <1>2, <1>3, <1>6 DEF NumberInserted, HasInserted, Creates
<1>11. OneInserts'
  BY <1>1, <1>7 DEF OneInserts, HasInserted, Creates
<1> QED
  BY <1>8, <1>9, <1>10, <1>11

\* The commit of a create appends its version; other commits add none.
LEMMA CommitAppends ==
    ASSUME NumberInv, NEW r \in Request, Commit(r), NEW x, x = VariantOf[ver[r]]
    PROVE  /\ op[r] = "create" =>
                 /\ ver[r] \in Version /\ ver[r] \notin Committed(x)
                 /\ Committed(x)' = Committed(x) \cup {ver[r]}
                 /\ \A y : y # x => Committed(y)' = Committed(y)
           /\ op[r] # "create" => \A y : Committed(y)' = Committed(y)
<1> USE DEF NumberInv, IndInv, LocalInv, TypeOK, HasVersion
<1>1. /\ pc[r] = "done" /\ ver[r] \in Version
      /\ \A v \in Version : status'[v] = IF holder[v] = r THEN image[v] ELSE status[v]
  BY DEF Commit
<1>2. CASE op[r] = "create"
  <2>1. /\ status[ver[r]] = "none" /\ holder[ver[r]] = r /\ image[ver[r]] = "draft"
        /\ \A v \in Version : holder[v] = r => v = ver[r]
    BY <1>1, <1>2 DEF Targets, HeldRows, NumberInserted, HasInserted, Creates
  <2>2. \A v \in Version : status'[v] # "none" <=> status[v] # "none" \/ v = ver[r]
    BY <1>1, <2>1
  <2> QED
    BY <1>1, <1>2, <2>1, <2>2 DEF Committed
<1>3. CASE op[r] # "create"
  <2>1. \A v \in Version : holder[v] = r => status[v] # "none" /\ image[v] # "none"
    BY <1>1, <1>3 DEF Targets, HeldRows
  <2>2. \A v \in Version : status'[v] # "none" <=> status[v] # "none"
    BY <1>1, <2>1
  <2> QED
    BY <1>3, <2>2 DEF Committed
<1> QED
  BY <1>2, <1>3

LEMMA NumbersOfCommit ==
    ASSUME NumberInv, IndInv', NEW r \in Request, Commit(r)
    PROVE  NumberInv'
<1> USE DEF NumberInv, IndInv, LocalInv, TypeOK, HasVersion
<1> PICK x : x = VariantOf[ver[r]]
  OBVIOUS
<1>1. /\ pc[r] = "done" /\ ver[r] \in Version /\ pc'[r] = "idle"
      /\ UNCHANGED <<number, image>>
      /\ \A q \in Request \ {r} :
            pc'[q] = pc[q] /\ op'[q] = op[q] /\ ver'[q] = ver[q] /\ num'[q] = num[q]
      /\ \A v \in Version : holder[v] # r => holder'[v] = holder[v]
  BY DEF Commit, Close
<1>2. \A q \in Request : HasInserted(q)' => q # r /\ HasInserted(q)
  BY <1>1 DEF HasInserted, Creates
<1>3. \A q \in Request : HasInserted(q)' => holder'[ver[q]] = q
  BY <1>1, <1>2 DEF NumberInserted, HasInserted, Creates
<1>4. OneInserts'
  BY <1>1, <1>2 DEF OneInserts
<1>5. CASE op[r] # "create"
  <2>1. \A v : Committed(v)' = Committed(v) /\ Size(v)' = Size(v)
    BY <1>5, CommitAppends DEF Size
  <2>2. FinitelyMany' /\ NumbersSequential'
    BY <1>1, <2>1 DEF FinitelyMany, NumbersSequential
  <2>3. NumberRead' /\ NumberInserted'
    BY <1>1, <1>2, <1>3, <2>1 DEF NumberRead, NumberInserted, HasInserted, Creates
  <2> QED
    BY <1>4, <2>2, <2>3
<1>6. CASE op[r] = "create"
  <2>1. /\ x \in Variant /\ HasInserted(r)
        /\ number[ver[r]] = Size(VariantOf[ver[r]]) + 1
    BY <1>1, <1>6, VariantOfVersion DEF NumberInserted, HasInserted, Creates
  <2>10. /\ Size(x) \in Nat /\ IsFiniteSet(Committed(x))
         /\ {number[w] : w \in Committed(x)} = 1..Size(x)
         /\ number[ver[r]] = Size(x) + 1
    BY <2>1, SizeOfVariant
  <2>2. /\ Committed(x)' = Committed(x) \cup {ver[r]}
        /\ ver[r] \notin Committed(x)
        /\ \A v : v # x => Committed(v)' = Committed(v)
    BY <1>6, CommitAppends
  <2>3. IsFiniteSet(Committed(x)') /\ Size(x)' = Size(x) + 1
    BY <2>2, <2>10, FS_AddElement DEF Size
  <2>4. \A v : v # x => Size(v)' = Size(v)
    BY <2>2 DEF Size
  <2>5. {number'[w] : w \in Committed(x)'} = 1..Size(x)'
    <3>1. {number'[w] : w \in Committed(x)'} = 1..Size(x) \cup {Size(x) + 1}
      BY <1>1, <2>2, <2>10
    <3> QED
      BY <2>3, <2>10, <3>1, OneMore
  <2>6. FinitelyMany'
    BY <2>2, <2>3 DEF FinitelyMany
  <2>7. NumbersSequential'
    <3>1. ASSUME NEW y \in Variant
          PROVE  {number'[w] : w \in Committed(y)'} = 1..Cardinality(Committed(y)')
      <4>1. CASE y = x
        BY <2>5, <4>1 DEF Size
      <4>2. CASE y # x
        <5>1. {number[w] : w \in Committed(y)} = 1..Size(y)
          BY SizeOfVariant
        <5> QED
          BY <1>1, <2>2, <4>2, <5>1 DEF Size
      <4> QED
        BY <4>1, <4>2
    <3> QED
      BY <3>1 DEF NumbersSequential
  <2>8. NumberRead'
    <3> SUFFICES ASSUME NEW q \in Request, Creates(q)'
                 PROVE  (num[q] \in 1..(Size(VariantOf[ver[q]]) + 1))'
      BY DEF NumberRead
    <3>1. /\ num[q] \in 1..(Size(VariantOf[ver[q]]) + 1) /\ ver'[q] = ver[q]
          /\ num'[q] = num[q] /\ VariantOf[ver[q]] \in Variant
      BY <1>1, VariantOfVersion DEF NumberRead, Creates
    <3>2. CASE VariantOf[ver[q]] = x
      BY <2>3, <2>10, <3>1, <3>2
    <3>3. CASE VariantOf[ver[q]] # x
      BY <2>4, <3>1, <3>3
    <3> QED
      BY <3>2, <3>3
  <2>9. NumberInserted'
    <3> SUFFICES ASSUME NEW q \in Request, HasInserted(q)'
                 PROVE  (/\ holder[ver[q]] = q /\ image[ver[q]] = "draft"
                         /\ number[ver[q]] = num[q]
                         /\ num[q] = Size(VariantOf[ver[q]]) + 1)'
      BY DEF NumberInserted
    <3>1. q # r /\ HasInserted(q) /\ VariantOf[ver[q]] # x
      BY <1>2, <2>1 DEF OneInserts
    <3>2. Size(VariantOf[ver[q]])' = Size(VariantOf[ver[q]])
      BY <1>1, <2>4, <3>1
    <3> QED
      BY <1>1, <1>3, <3>1, <3>2 DEF NumberInserted
  <2> QED
    BY <1>4, <2>6, <2>7, <2>8, <2>9
<1> QED
  BY <1>5, <1>6

LEMMA NumbersOfStep ==
    ASSUME NumberInv, IndInv', NEW r \in Request, Step(r), ~InsertVersion(r), ~Commit(r)
    PROVE  NumberInv'
<1> USE DEF NumberInv, IndInv, LocalInv, TypeOK, HasVersion, StageOfOp, Goto
<1>1. /\ UNCHANGED <<status, number, op, ver, num>>
      /\ \A q \in Request \ {r} : pc'[q] = pc[q]
      /\ op[r] = "create" => pc[r] = "inserted"
      /\ pc[r] # "idle"
  BY DEF Step, StoreBundle, ReadRules, ReplaceRules, LoadAsset, RemoveAsset,
         UploadAsset, InsertAsset, Validate, FindPublished, ArchivePrevious,
         LockTarget, MarkPublished, table
<1>2. ASSUME NEW v \in Version, status[v] = "none"
      PROVE  holder'[v] = holder[v] /\ image'[v] = image[v]
  <2>1. CASE ArchivePrevious(r)
    BY <1>2, <2>1 DEF ArchivePrevious, Targets
  <2>2. CASE LockTarget(r)
    BY <1>2, <2>2 DEF LockTarget, Targets
  <2>3. CASE MarkPublished(r)
    BY <1>2, <2>3 DEF MarkPublished, Targets
  <2> QED
    BY <2>1, <2>2, <2>3
       DEF Step, StoreBundle, ReadRules, ReplaceRules, LoadAsset, RemoveAsset,
           UploadAsset, InsertAsset, Validate, FindPublished, table
<1>3. \A q \in Request : Creates(q)' => Creates(q)
  BY <1>1 DEF Creates
<1>4. \A q \in Request : HasInserted(q)' =>
          HasInserted(q) /\ ver[q] \in Version /\ status[ver[q]] = "none"
  BY <1>1 DEF HasInserted, Creates, Targets
<1> QED
  BY <1>1, <1>2, <1>3, <1>4, NumbersKept

LEMMA NumbersOfRollback ==
    ASSUME NumberInv, IndInv', NEW r \in Request, Rollback(r)
    PROVE  NumberInv'
<1> USE DEF NumberInv, IndInv, LocalInv, TypeOK, HasVersion
<1>1. /\ UNCHANGED status /\ pc'[r] = "idle"
      /\ \A q \in Request \ {r} :
            pc'[q] = pc[q] /\ op'[q] = op[q] /\ ver'[q] = ver[q] /\ num'[q] = num[q]
      /\ \A v \in Version : status[v] # "none" => number'[v] = number[v]
      /\ \A v \in Version : holder[v] # r =>
            /\ holder'[v] = holder[v] /\ image'[v] = image[v]
            /\ number'[v] = number[v]
  BY DEF Rollback, Close
<1>2. \A q \in Request : Creates(q)' => q # r /\ Creates(q)
  BY <1>1 DEF Creates
<1>3. \A q \in Request : HasInserted(q)' =>
          HasInserted(q) /\ ver[q] \in Version /\ holder[ver[q]] # r
  BY <1>1 DEF HasInserted, Creates, NumberInserted
<1> QED
  BY <1>1, <1>2, <1>3, NumbersKept

LEMMA NumbersInit == Init => NumberInv
<1> SUFFICES ASSUME Init
             PROVE  NumberInv
  OBVIOUS
<1>1. \A x : Committed(x) = {}
  BY DEF Init, Committed
<1>2. FinitelyMany /\ NumbersSequential
  BY <1>1, FS_EmptySet DEF FinitelyMany, NumbersSequential
<1> QED
  BY <1>2, IndInit
     DEF Init, NumberInv, NumberRead, NumberInserted, OneInserts, HasInserted, Creates

LEMMA NumbersInductive == NumberInv /\ [Next]_vars => NumberInv'
<1> SUFFICES ASSUME NumberInv, [Next]_vars
             PROVE  NumberInv'
  OBVIOUS
<1>1. IndInv'
  BY IndStep DEF NumberInv
<1>2. ASSUME NEW r \in Request, Step(r)
      PROVE  NumberInv'
  BY <1>1, <1>2, NumbersOfInsert, NumbersOfCommit, NumbersOfStep
<1>3. ASSUME NEW r \in Request, Fail(r)
      PROVE  NumberInv'
  BY <1>1, <1>3, NumbersOfRollback
     DEF Fail, Refuse, IntegrityFailure, DeadlockVictim, Crash
<1>4. CASE UNCHANGED vars
  BY <1>1, <1>4, NumbersKept DEF vars, table, local, Creates, HasInserted
<1> QED
  BY <1>1, <1>2, <1>3, <1>4, NumbersOfBegin DEF Next

\* What open requests have read and inserted keeps the numbers in order, whatever
\* requests race, fail and crash.
THEOREM Invariance == Spec => []NumberInv
  BY NumbersInit, NumbersInductive, PTL DEF Spec

\* The k versions of a variant carry the numbers 1 to k: racing imports leave no
\* gap and no double.
THEOREM NumbersSequentialCorrect == Spec => []NumbersSequential
<1>1. NumberInv => NumbersSequential
  BY DEF NumberInv
<1> QED
  BY <1>1, Invariance, PTL

-----------------------------------------------------------------------------
(***************************************************************************)
(* Readers see a VersionRegistry: a commit appends a version, moves the    *)
(* published pointer, or shows nothing, and nothing else shows.            *)
(***************************************************************************)
LEMMA OnlyElement ==
    ASSUME NEW S, NEW v \in S, \A w \in S : w = v
    PROVE  (CHOOSE w \in S : TRUE) = v
  OBVIOUS

Count == [x \in Variant |-> Size(x)]

Current == [x \in Variant |-> IF PublishedOf(x) = {} THEN 0
                             ELSE number[CHOOSE v \in PublishedOf(x) : TRUE]]

\* The pointer is the number of the published version.
LEMMA CurrentNumber ==
    ASSUME OnePublished, NEW x \in Variant, NEW v \in PublishedOf(x)
    PROVE  Current[x] = number[v]
<1>1. \A w \in PublishedOf(x) : w = v
  BY DEF OnePublished, PublishedOf
<1> QED
  BY <1>1, OnlyElement DEF Current

LEMMA CurrentNone ==
    ASSUME NEW x \in Variant, PublishedOf(x) = {}
    PROVE  Current[x] = 0
  BY DEF Current

\* What a step leaves of a variant that it does not publish a version of.
LEMMA CurrentKept ==
    ASSUME NumberInv, NumberInv', NEW x \in Variant,
           (PublishedOf(x))' = PublishedOf(x),
           \A v \in PublishedOf(x) : number'[v] = number[v]
    PROVE  (Current[x])' = Current[x]
<1>1. OnePublished /\ OnePublished'
  BY DEF NumberInv, IndInv
<1>2. CASE PublishedOf(x) = {}
  <2>1. (Current[x])' = 0
    BY <1>2 DEF Current
  <2> QED
    BY <1>2, <2>1, CurrentNone
<1>3. ASSUME NEW v \in PublishedOf(x)
      PROVE  (Current[x])' = Current[x]
  <2>1. Current[x] = number[v]
    BY <1>1, <1>3, CurrentNumber
  <2>2. (Current[x])' = number'[v]
    <3>1. \A w \in (PublishedOf(x))' : w = v
      BY <1>1, <1>3 DEF OnePublished, PublishedOf
    <3>2. (CHOOSE w \in (PublishedOf(x))' : TRUE) = v
      BY <1>3, <3>1, OnlyElement
    <3>3. (PublishedOf(x))' # {}
      BY <1>3
    <3> QED
      BY <3>2, <3>3 DEF Current
  <2> QED
    BY <1>3, <2>1, <2>2
<1> QED
  BY <1>2, <1>3

\* Only InsertVersion and a rollback change numbers, of versions nobody sees.
LEMMA NumbersShown ==
    ASSUME NumberInv, [Next]_vars, NEW v \in Version, status[v] # "none"
    PROVE  number'[v] = number[v]
<1> USE DEF NumberInv, IndInv, LocalInv, TypeOK, HasVersion, StageOfOp
<1>1. ASSUME NEW r \in Request, Step(r)
      PROVE  number'[v] = number[v]
  <2>1. CASE InsertVersion(r)
    BY <2>1 DEF InsertVersion, Targets
  <2> QED
    BY <1>1, <2>1
       DEF Step, StoreBundle, ReadRules, ReplaceRules, LoadAsset, RemoveAsset,
           UploadAsset, InsertAsset, Validate, FindPublished, ArchivePrevious,
           LockTarget, MarkPublished, Commit, table
<1>2. ASSUME NEW r \in Request, Begin(r)
      PROVE  number'[v] = number[v]
  BY <1>2
     DEF Begin, BeginCreate, BeginSetMappings, BeginPutAsset, BeginDeleteAsset,
         BeginPublish, RequireDraft, table
<1>3. ASSUME NEW r \in Request, Fail(r)
      PROVE  number'[v] = number[v]
  BY <1>3
     DEF Fail, Refuse, IntegrityFailure, DeadlockVictim, Crash, Rollback
<1> QED
  BY <1>1, <1>2, <1>3 DEF Next, vars, table

\* A step after which every variant shows what it did is a stutter.
LEMMA NothingShown ==
    ASSUME \A x \in Variant : Size(x)' = Size(x) /\ (Current[x])' = Current[x]
    PROVE  UNCHANGED <<Count, Current>>
  BY DEF Count, Current

LEMMA CommitOfCreate ==
    ASSUME NumberInv, NumberInv', NEW r \in Request, Commit(r), op[r] = "create"
    PROVE  \E x \in Variant :
              /\ Count' = [Count EXCEPT ![x] = @ + 1]
              /\ UNCHANGED Current
<1> USE DEF NumberInv, IndInv, LocalInv, TypeOK, HasVersion
<1>1. PICK x \in Variant : x = VariantOf[ver[r]]
  BY VariantOfVersion DEF Commit
<1>2. /\ ver[r] \in Version /\ ver[r] \notin Committed(x)
      /\ Committed(x)' = Committed(x) \cup {ver[r]}
      /\ \A y : y # x => Committed(y)' = Committed(y)
  BY <1>1, CommitAppends
<1>3. Size(x)' = Size(x) + 1
  <2>1. IsFiniteSet(Committed(x))
    BY SizeOfVariant
  <2>2. Cardinality(Committed(x) \cup {ver[r]}) = Cardinality(Committed(x)) + 1
    BY <1>2, <2>1, FS_AddElement
  <2> QED
    BY <1>2, <2>2 DEF Size
<1>4. \A y \in Variant : y # x => Size(y)' = Size(y)
  BY <1>2 DEF Size
<1>5. /\ \A v \in Version : holder[v] = r => v = ver[r]
      /\ image[ver[r]] = "draft" /\ status[ver[r]] = "none"
  BY DEF HeldRows, Targets, NumberInserted, HasInserted, Creates, Commit
<1>6. \A v \in Version : status'[v] = "published" <=> status[v] = "published"
  BY <1>2, <1>5 DEF Commit
<1>7. \A y \in Variant : (Current[y])' = Current[y]
  <2>1. \A y \in Variant : (PublishedOf(y))' = PublishedOf(y)
    BY <1>6 DEF PublishedOf
  <2>2. UNCHANGED number
    BY DEF Commit
  <2> QED
    BY <2>1, <2>2, CurrentKept
<1> QED
  BY <1>3, <1>4, <1>7 DEF Count, Current

LEMMA CommitOfPublish ==
    ASSUME NumberInv, NumberInv', NEW r \in Request, Commit(r), op[r] = "publish"
    PROVE  \E x \in Variant : \E n \in 1..Count[x] :
              /\ Current' = [Current EXCEPT ![x] = n]
              /\ UNCHANGED Count
<1> USE DEF NumberInv, IndInv, LocalInv, TypeOK, HasVersion
<1>1. PICK x \in Variant : x = VariantOf[ver[r]]
  BY VariantOfVersion DEF Commit
<1>2. PICK v \in Version : v = ver[r]
  BY DEF Commit
<1>3. /\ holder[v] = r /\ image[v] = "published" /\ status[v] # "none"
      /\ \A w \in Version : holder[w] = r => VariantOf[w] = x
      /\ UNCHANGED number
      /\ \A w \in Version : status'[w] = IF holder[w] = r THEN image[w] ELSE status[w]
  BY <1>1, <1>2 DEF HeldRows, Targets, Publishing, Commit
<1>4. \A y \in Variant : Committed(y)' = Committed(y)
  BY CommitAppends
<1>5. UNCHANGED Count
  BY <1>4 DEF Count, Size
<1>6. v \in Committed(x) /\ number[v] \in 1..Size(x)
  <2>1. v \in Committed(x)
    BY <1>1, <1>2, <1>3 DEF Committed
  <2> QED
    BY <2>1, SizeOfVariant
<1>7. (Current[x])' = number[v]
  <2>1. v \in (PublishedOf(x))'
    BY <1>1, <1>2, <1>3 DEF PublishedOf
  <2>2. \A w \in (PublishedOf(x))' : w = v
    BY <2>1 DEF OnePublished, PublishedOf
  <2>3. (CHOOSE w \in (PublishedOf(x))' : TRUE) = v
    BY <2>1, <2>2, OnlyElement
  <2>4. (PublishedOf(x))' # {}
    BY <2>1
  <2> QED
    BY <1>3, <2>3, <2>4 DEF Current
<1>8. \A y \in Variant : y # x => (Current[y])' = Current[y]
  <2> SUFFICES ASSUME NEW y \in Variant, y # x
               PROVE  (Current[y])' = Current[y]
    OBVIOUS
  <2>1. (PublishedOf(y))' = PublishedOf(y)
    BY <1>3 DEF PublishedOf
  <2> QED
    BY <1>3, <2>1, CurrentKept
<1>9. Current' = [Current EXCEPT ![x] = number[v]]
  BY <1>7, <1>8 DEF Current
<1> QED
  BY <1>5, <1>6, <1>9 DEF Count

\* The committed versions of a variant implement VersionRegistry: no reader can
\* observe a step of an import or a publish call halfway.
THEOREM RefinesRegistry == Spec => ImplementsRegistry
<1>1. Init => Registry!Init
  BY FS_EmptySet DEF Init, Registry!Init, Committed, PublishedOf
<1>2. ASSUME NumberInv, NumberInv', [Next]_vars
      PROVE  \/ UNCHANGED <<Count, Current>>
             \/ \E x \in Variant : Count' = [Count EXCEPT ![x] = @ + 1] /\ UNCHANGED Current
             \/ \E x \in Variant : \E n \in 1..Count[x] :
                   Current' = [Current EXCEPT ![x] = n] /\ UNCHANGED Count
  <2>1. CASE UNCHANGED status
    <3>1. \A x \in Variant :
              (PublishedOf(x))' = PublishedOf(x) /\ Size(x)' = Size(x)
      BY <2>1 DEF PublishedOf, Size, Committed
    <3>2. \A x \in Variant : (Current[x])' = Current[x]
      BY <1>2, <3>1, NumbersShown, CurrentKept DEF PublishedOf
    <3> QED
      BY <3>1, <3>2, NothingShown
  <2>2. ASSUME NEW r \in Request, Commit(r)
        PROVE  \/ UNCHANGED status
               \/ op[r] \in {"create", "publish"}
    BY <1>2, <2>2
       DEF NumberInv, IndInv, LocalInv, TypeOK, HeldRows, Commit
  <2> QED
    BY <1>2, <2>1, <2>2, CommitOfCreate, CommitOfPublish, OnlyCommitsShow
       DEF vars, table
<1>3. NumberInv /\ NumberInv' /\ [Next]_vars => [Registry!Next]_<<Count, Current>>
  BY <1>2 DEF Registry!Next, Registry!AddVersion, Registry!Publish, Count, Current, Size
<1> QED
  BY <1>1, <1>3, Invariance, PTL DEF Spec, ImplementsRegistry, Registry!Spec, Count, Current, Size

-----------------------------------------------------------------------------
(***************************************************************************)
(* Content.  What an open transaction has inserted is known by its         *)
(* handler; of two uploads of one name, at most one is past the unique     *)
(* index, and then no row that stays has the name.                         *)
(***************************************************************************)
SlotOfOp ==
    \A r \in Request : pc[r] # "idle" =>
        /\ op[r] \in {"set_mappings", "publish"} => slot[r] \in Origin
        /\ op[r] \in {"put_asset", "delete_asset"} => slot[r] \in File

\* What an open transaction has inserted is what its handler inserts.
InsertedRows ==
    \A r \in Request :
        /\ pc[r] \in {"idle", "numbered", "inserted", "checked", "validated",
                      "read", "removed"} => ins[r] = {}
        /\ op[r] = "delete_asset" => ins[r] = {}
        /\ op[r] \in {"set_mappings", "publish", "put_asset"} =>
              \A w \in ins[r] : w.slot = slot[r]
        /\ op[r] \in {"create", "put_asset"} =>
              \A u, w \in ins[r] : u.slot = w.slot => u = w
        /\ op[r] = "create" => \A w \in ins[r] : w.slot \in File
        /\ pc[r] \in {"uploaded", "done"} /\ op[r] = "put_asset" => ins[r] # {}

\* The uploads of a request are where its rows say.
UploadsStored ==
    \A r \in Request : \A w \in ins[r] :
        w.slot \in File => <<ver[r], w.id>> \in blobs

\* A file name an upload has inserted is free but for rows it has deleted.
NameTaken ==
    \A r \in Request : pc[r] = "done" /\ op[r] = "put_asset" =>
        \A w \in rows[ver[r]] : w.slot = slot[r] => w \in del[r]

\* Two uploads of one name are not both past the unique index.
OneUploads ==
    \A q, r \in Request :
        /\ pc[q] = "done" /\ op[q] = "put_asset"
        /\ pc[r] = "done" /\ op[r] = "put_asset"
        /\ ver[q] = ver[r] /\ slot[q] = slot[r]
        => q = r

\* A version that is not committed has no rows.
RowsOfVersions == \A v \in Version : status[v] = "none" => rows[v] = {}

ContentInv ==
    /\ NumberInv
    /\ SlotOfOp
    /\ InsertedRows
    /\ UploadsStored
    /\ AssetsStored
    /\ NameTaken
    /\ OneUploads
    /\ OneRowPerFile
    /\ RowsOfVersions

LEMMA ContentInit == Init => ContentInv
  BY NumbersInit
     DEF Init, ContentInv, SlotOfOp, InsertedRows, UploadsStored, AssetsStored,
         NameTaken, OneUploads, OneRowPerFile, RowsOfVersions

LEMMA ContentBegin ==
    ASSUME ContentInv, NumberInv', NEW r \in Request, Begin(r)
    PROVE  ContentInv'
<1> USE DEF ContentInv, NumberInv, IndInv, LocalInv, TypeOK, Goto
<1>1. /\ UNCHANGED <<table, store, del, ins>> /\ pc[r] = "idle"
      /\ pc'[r] \in {"numbered", "checked"}
      /\ op'[r] \in {"set_mappings", "publish"} => slot'[r] \in Origin
      /\ op'[r] \in {"put_asset", "delete_asset"} => slot'[r] \in File
      /\ \A q \in Request \ {r} :
            pc'[q] = pc[q] /\ op'[q] = op[q] /\ ver'[q] = ver[q] /\ slot'[q] = slot[q]
  BY DEF Begin, BeginCreate, BeginSetMappings, BeginPutAsset, BeginDeleteAsset,
         BeginPublish, RequireDraft, Origin
<1>2. SlotOfOp' /\ InsertedRows'
  BY <1>1 DEF SlotOfOp, InsertedRows
<1>3. UploadsStored' /\ AssetsStored' /\ OneRowPerFile' /\ RowsOfVersions'
  BY <1>1 DEF InsertedRows, UploadsStored, AssetsStored, OneRowPerFile,
              RowsOfVersions, table, store
<1>4. NameTaken' /\ OneUploads'
  BY <1>1 DEF NameTaken, OneUploads, store
<1> QED
  BY <1>2, <1>3, <1>4

\* A step that shows nothing, of a request that has uploaded nothing before or
\* goes on with what it has.
LEMMA ContentKept ==
    ASSUME ContentInv, NumberInv', NEW r \in Request,
           UNCHANGED <<status, rows, op, ver, slot>>, blobs \subseteq blobs',
           \A q \in Request \ {r} :
               pc'[q] = pc[q] /\ ins'[q] = ins[q] /\ del'[q] = del[q],
           pc[r] # "idle", SlotOfOp', InsertedRows',
           \A w \in ins'[r] : w.slot \in File => <<ver[r], w.id>> \in blobs',
           pc'[r] = "done" => op[r] # "put_asset"
    PROVE  ContentInv'
<1> USE DEF ContentInv, NumberInv, IndInv, LocalInv, TypeOK
<1>1. UploadsStored' /\ AssetsStored'
  BY DEF UploadsStored, AssetsStored
<1>2. OneRowPerFile' /\ RowsOfVersions'
  BY DEF OneRowPerFile, RowsOfVersions
<1>3. NameTaken' /\ OneUploads'
  BY DEF NameTaken, OneUploads
<1> QED
  BY <1>1, <1>2, <1>3

\* Steps that upload or insert rows and assets, before any commit.
LEMMA ContentWritten ==
    ASSUME ContentInv, NumberInv', NEW r \in Request,
           \/ \E i \in RowId, F \in SUBSET File : StoreBundle(r, i, F)
           \/ \E new \in SUBSET RowId : ReplaceRules(r, new)
           \/ RemoveAsset(r)
           \/ \E i \in RowId : UploadAsset(r, i)
    PROVE  ContentInv'
<1> USE DEF ContentInv, NumberInv, IndInv, LocalInv, TypeOK, Goto
<1>1. ASSUME NEW i \in RowId, NEW F \in SUBSET File, StoreBundle(r, i, F)
      PROVE  ContentInv'
  <2>1. /\ op[r] = "create" /\ pc[r] = "inserted" /\ pc'[r] = "done"
        /\ ins'[r] = {[id |-> i, slot |-> f] : f \in F}
        /\ blobs' = blobs \cup {<<ver[r], i>>}
        /\ UNCHANGED <<status, rows, op, ver, slot, del>>
        /\ \A q \in Request \ {r} : pc'[q] = pc[q] /\ ins'[q] = ins[q]
    BY <1>1 DEF StoreBundle, StageOfOp, table
  <2>2. \A w \in ins'[r] : w.id = i /\ w.slot \in File
    BY <2>1
  <2>3. \A u, w \in ins'[r] : u.slot = w.slot => u = w
    BY <2>1
  <2>4. SlotOfOp' /\ InsertedRows'
    BY <2>1, <2>2, <2>3 DEF SlotOfOp, InsertedRows
  <2> QED
    BY <2>1, <2>2, <2>4, ContentKept
<1>2. ASSUME NEW new \in SUBSET RowId, ReplaceRules(r, new)
      PROVE  ContentInv'
  <2>1. /\ op[r] \in {"set_mappings", "publish"} /\ pc[r] = "read"
        /\ pc'[r] \in {"derived", "done"}
        /\ ins'[r] = {[id |-> i, slot |-> slot[r]] : i \in new}
        /\ UNCHANGED <<status, rows, blobs, op, ver, slot>>
        /\ \A q \in Request \ {r} :
              pc'[q] = pc[q] /\ ins'[q] = ins[q] /\ del'[q] = del[q]
    BY <1>2 DEF ReplaceRules, DeleteSelected, table, store
  <2>2. \A w \in ins'[r] : w.slot = slot[r]
    BY <2>1
  <2>3. slot[r] \notin File
    BY <2>1, FilesAreNotOrigins DEF SlotOfOp
  <2>4. SlotOfOp' /\ InsertedRows'
    BY <2>1, <2>2 DEF SlotOfOp, InsertedRows
  <2> QED
    BY <2>1, <2>2, <2>3, <2>4, ContentKept
<1>3. CASE RemoveAsset(r)
  <2>1. /\ op[r] \in {"put_asset", "delete_asset"} /\ pc[r] = "read"
        /\ pc'[r] = IF op[r] = "put_asset" THEN "removed" ELSE "done"
        /\ UNCHANGED <<status, rows, blobs, op, ver, slot, ins>>
        /\ \A q \in Request \ {r} : pc'[q] = pc[q] /\ del'[q] = del[q]
    BY <1>3 DEF RemoveAsset, DeleteSelected, table, store
  <2>2. SlotOfOp' /\ InsertedRows' /\ ins[r] = {}
    BY <2>1 DEF SlotOfOp, InsertedRows
  <2> QED
    BY <2>1, <2>2, ContentKept
<1>4. ASSUME NEW i \in RowId, UploadAsset(r, i)
      PROVE  ContentInv'
  <2>1. /\ op[r] = "put_asset" /\ pc[r] = "removed" /\ pc'[r] = "uploaded"
        /\ ins'[r] = {[id |-> i, slot |-> slot[r]]}
        /\ blobs' = blobs \cup {<<ver[r], i>>}
        /\ UNCHANGED <<status, rows, op, ver, slot, del>>
        /\ \A q \in Request \ {r} : pc'[q] = pc[q] /\ ins'[q] = ins[q]
    BY <1>4 DEF UploadAsset, table
  <2>2. \A w \in ins'[r] : w.id = i /\ w.slot = slot[r]
    BY <2>1
  <2>3. ins'[r] # {} /\ \A u, w \in ins'[r] : u = w
    BY <2>1
  <2>4. SlotOfOp' /\ InsertedRows'
    BY <2>1, <2>2, <2>3 DEF SlotOfOp, InsertedRows
  <2> QED
    BY <2>1, <2>2, <2>4, ContentKept
<1> QED
  BY <1>1, <1>2, <1>3, <1>4

\* The unique index lets an upload in only if the name is free.
LEMMA ContentIndexed ==
    ASSUME ContentInv, NumberInv', NEW r \in Request, InsertAsset(r)
    PROVE  ContentInv'
<1> USE DEF ContentInv, NumberInv, IndInv, LocalInv, TypeOK, Goto
<1>1. /\ op[r] = "put_asset" /\ pc[r] = "uploaded" /\ pc'[r] = "done"
      /\ UNCHANGED <<status, rows, blobs, op, ver, slot, del, ins>>
      /\ \A q \in Request \ {r} : pc'[q] = pc[q]
      /\ ver[r] \in Version
  BY DEF InsertAsset, StageOfOp, HasVersion, table, store
<1>2. \A w \in rows[ver[r]] : w.slot = slot[r] => w \in del[r]
  <2> SUFFICES ASSUME NEW w \in FileRivals(r)
               PROVE  FALSE
    BY DEF FileRivals, RowsIn
  <2>1. PICK q \in Request : w \in del[q]
    BY <1>1 DEF InsertAsset, Violates
  <2>2. q # r
    BY <2>1 DEF FileRivals
  <2> QED
    BY <1>1, <2>1, <2>2 DEF InsertAsset, Free, WaitsFor
<1>3. \A q \in Request \ {r} : pc[q] = "done" /\ op[q] = "put_asset" =>
          ver[q] # ver[r] \/ slot[q] # slot[r]
  <2> SUFFICES ASSUME NEW q \in Request \ {r}, pc[q] = "done", op[q] = "put_asset",
                      ver[q] = ver[r], slot[q] = slot[r]
               PROVE  FALSE
    OBVIOUS
  <2>1. PICK w \in ins[q] : w.slot = slot[r]
    BY DEF InsertedRows
  <2> QED
    BY <1>1, <2>1 DEF InsertAsset, Free, WaitsFor
<1>4. SlotOfOp' /\ InsertedRows'
  BY <1>1 DEF SlotOfOp, InsertedRows
<1>5. UploadsStored' /\ AssetsStored' /\ OneRowPerFile' /\ RowsOfVersions'
  BY <1>1 DEF UploadsStored, AssetsStored, OneRowPerFile, RowsOfVersions
<1>6. NameTaken' /\ OneUploads'
  BY <1>1, <1>2, <1>3 DEF NameTaken, OneUploads
<1> QED
  BY <1>4, <1>5, <1>6

\* The other steps before a commit write no row of a version.
LEMMA ContentAside ==
    ASSUME ContentInv, NumberInv', NEW r \in Request,
           \/ InsertVersion(r) \/ ReadRules(r) \/ LoadAsset(r) \/ Validate(r)
           \/ \E p \in Version \cup {None} : FindPublished(r, p)
           \/ ArchivePrevious(r) \/ LockTarget(r) \/ MarkPublished(r)
    PROVE  ContentInv'
<1> USE DEF ContentInv, NumberInv, IndInv, LocalInv, TypeOK, Goto, StageOfOp
<1>1. /\ UNCHANGED <<status, rows, blobs, op, ver, slot, del, ins>>
      /\ pc[r] \notin {"idle", "uploaded", "done"}
      /\ pc'[r] = "done" => op[r] \in {"create", "publish"}
      /\ pc'[r] # "uploaded"
      /\ pc[r] \in {"derived", "found", "archived", "marking"} \/ ins[r] = {}
      /\ pc'[r] \in {"idle", "numbered", "inserted", "checked", "validated", "read",
                     "removed"} => pc[r] \in {"numbered", "checked", "validated"}
      /\ \A q \in Request \ {r} : pc'[q] = pc[q]
  BY DEF InsertVersion, ReadRules, LoadAsset, Validate, FindPublished,
         ArchivePrevious, LockTarget, MarkPublished, SelectRows, InsertedRows,
         table, store
<1>2. SlotOfOp' /\ InsertedRows'
  BY <1>1 DEF SlotOfOp, InsertedRows
<1> QED
  BY <1>1, <1>2, ContentKept DEF UploadsStored

LEMMA ContentCommit ==
    ASSUME ContentInv, NumberInv', NEW r \in Request, Commit(r)
    PROVE  ContentInv'
<1> USE DEF ContentInv, NumberInv, IndInv, LocalInv, TypeOK, HasVersion
<1>1. PICK v \in Version : v = ver[r]
  BY DEF Commit
<1>2. /\ pc[r] = "done" /\ pc'[r] = "idle" /\ op'[r] = None /\ ins'[r] = {}
      /\ \A q \in Request \ {r} :
            /\ pc'[q] = pc[q] /\ op'[q] = op[q] /\ ver'[q] = ver[q]
            /\ slot'[q] = slot[q] /\ del'[q] = del[q] /\ ins'[q] = ins[q]
      /\ UNCHANGED blobs
      /\ rows'[v] = (rows[v] \ del[r]) \cup ins[r]
      /\ \A w \in Version \ {v} : rows'[w] = rows[w]
      /\ \A w \in Version : status'[w] = IF holder[w] = r THEN image[w] ELSE status[w]
  BY <1>1 DEF Commit, Close
<1>3. SlotOfOp' /\ InsertedRows' /\ UploadsStored' /\ OneUploads'
  <2>1. SlotOfOp'
    BY <1>2 DEF SlotOfOp
  <2>4. OneUploads'
    BY <1>2 DEF OneUploads
  <2>2. InsertedRows'
    BY <1>2 DEF InsertedRows
  <2>3. UploadsStored'
    BY <1>2 DEF UploadsStored
  <2> QED
    BY <2>1, <2>2, <2>3, <2>4
<1>4. AssetsStored'
  BY <1>1, <1>2 DEF AssetsStored, UploadsStored
<1>5. \A w \in ins[r], u \in rows[v] \ del[r] : w.slot \in File => u.slot # w.slot
  <2>1. CASE op[r] = "create"
    BY <1>1, <1>2, <2>1 DEF Targets, RowsOfVersions
  <2>2. CASE op[r] = "put_asset"
    BY <1>1, <1>2, <2>2 DEF NameTaken, InsertedRows
  <2>3. CASE op[r] \in {"set_mappings", "publish"}
    BY <1>2, <2>3, FilesAreNotOrigins DEF SlotOfOp, InsertedRows
  <2>4. CASE op[r] = "delete_asset"
    BY <2>4 DEF InsertedRows
  <2> QED
    BY <1>2, <2>1, <2>2, <2>3, <2>4 DEF StageOfOp, AllOps
<1>6. \A u, w \in ins[r] : u.slot = w.slot /\ u.slot \in File => u = w
  BY <1>2, FilesAreNotOrigins DEF SlotOfOp, InsertedRows, StageOfOp, AllOps
<1>7. OneRowPerFile'
  BY <1>2, <1>5, <1>6 DEF OneRowPerFile
<1>8. NameTaken'
  <2> SUFFICES ASSUME NEW q \in Request \ {r}, pc[q] = "done", op[q] = "put_asset",
                      ver[q] = v, NEW w \in ins[r], w.slot = slot[q]
               PROVE  FALSE
    BY <1>2 DEF NameTaken
  <2>1. op[r] # "create"
    BY <1>1, <1>2 DEF Targets
  <2>2. slot[q] \in File
    BY DEF SlotOfOp
  <2>3. op[r] = "put_asset" /\ slot[r] = slot[q]
    BY <1>2, <2>1, <2>2, FilesAreNotOrigins
       DEF SlotOfOp, InsertedRows, StageOfOp, AllOps
  <2> QED
    BY <1>1, <1>2, <2>3 DEF OneUploads
<1>9. RowsOfVersions'
  <2>1. status'[v] # "none"
    <3>1. CASE holder[v] = r
      BY <1>2, <3>1 DEF HeldRows
    <3>2. CASE holder[v] # r
      <4>1. op[r] # "create"
        BY <1>1, <1>2, <3>2 DEF NumberInserted, HasInserted, Creates
      <4> QED
        BY <1>1, <1>2, <3>2, <4>1 DEF Targets
    <3> QED
      BY <3>1, <3>2
  <2>2. \A w \in Version : status'[w] = "none" => status[w] = "none"
    BY <1>2 DEF HeldRows
  <2> QED
    BY <1>2, <2>1, <2>2 DEF RowsOfVersions
<1> QED
  BY <1>3, <1>4, <1>7, <1>8, <1>9

LEMMA ContentRollback ==
    ASSUME ContentInv, NumberInv', NEW r \in Request, Rollback(r)
    PROVE  ContentInv'
<1> USE DEF ContentInv, NumberInv, IndInv, LocalInv, TypeOK
<1>1. /\ pc'[r] = "idle" /\ op'[r] = None /\ ins'[r] = {}
      /\ \A q \in Request \ {r} :
            /\ pc'[q] = pc[q] /\ op'[q] = op[q] /\ ver'[q] = ver[q]
            /\ slot'[q] = slot[q] /\ del'[q] = del[q] /\ ins'[q] = ins[q]
      /\ UNCHANGED <<status, rows, blobs>>
  BY DEF Rollback, Close
<1>2. SlotOfOp' /\ InsertedRows' /\ UploadsStored' /\ OneUploads'
  <2>1. SlotOfOp'
    BY <1>1 DEF SlotOfOp
  <2>4. OneUploads'
    BY <1>1 DEF OneUploads
  <2>2. InsertedRows'
    BY <1>1 DEF InsertedRows
  <2>3. UploadsStored'
    BY <1>1 DEF UploadsStored
  <2> QED
    BY <2>1, <2>2, <2>3, <2>4
<1>3. AssetsStored' /\ OneRowPerFile' /\ RowsOfVersions' /\ NameTaken'
  BY <1>1 DEF AssetsStored, OneRowPerFile, RowsOfVersions, NameTaken
<1> QED
  BY <1>2, <1>3

LEMMA ContentInductive == ContentInv /\ [Next]_vars => ContentInv'
<1> SUFFICES ASSUME ContentInv, [Next]_vars
             PROVE  ContentInv'
  OBVIOUS
<1>1. NumberInv'
  BY NumbersInductive DEF ContentInv
<1>2. ASSUME NEW r \in Request, Step(r)
      PROVE  ContentInv'
  BY <1>1, <1>2, ContentWritten, ContentIndexed, ContentAside, ContentCommit
     DEF Step, FreshId
<1>3. ASSUME NEW r \in Request, Fail(r)
      PROVE  ContentInv'
  BY <1>1, <1>3, ContentRollback
     DEF Fail, Refuse, IntegrityFailure, DeadlockVictim, Crash
<1>4. CASE UNCHANGED vars
  BY <1>1, <1>4
     DEF vars, table, store, local, ContentInv, SlotOfOp, InsertedRows,
         UploadsStored, AssetsStored, NameTaken, OneUploads, OneRowPerFile,
         RowsOfVersions
<1> QED
  BY <1>1, <1>2, <1>3, <1>4, ContentBegin DEF Next

\* What open requests have uploaded and inserted fits what is committed.
THEOREM ContentInvariance == Spec => []ContentInv
  BY ContentInit, ContentInductive, PTL DEF Spec

\* No asset row points to content that a failed or rolled back request has not
\* left in the object store.
THEOREM AssetsStoredCorrect == Spec => []AssetsStored
<1>1. ContentInv => AssetsStored
  BY DEF ContentInv
<1> QED
  BY <1>1, ContentInvariance, PTL

\* However many uploads race, a version has one asset of a file name.
THEOREM OneRowPerFileCorrect == Spec => []OneRowPerFile
<1>1. ContentInv => OneRowPerFile
  BY DEF ContentInv
<1> QED
  BY <1>1, ContentInvariance, PTL

-----------------------------------------------------------------------------
(***************************************************************************)
(* Waiting.  A request that keeps others waiting has written a version row *)
(* or deleted rows of the slot it replaces; no other holds those, and of   *)
(* the requests that do, only publish calls have something left to wait    *)
(* for.                                                                    *)
(***************************************************************************)
\* Requests at these stages have written no version row.
HeldLate ==
    \A r \in Request, v \in Version :
        holder[v] = r => pc[r] \in {"inserted", "archived", "marking", "done"}

\* What a request has selected and not deleted yet is of its slot.
SelectedRows ==
    \A r \in Request :
        /\ pc[r] # "read" => sel[r] = {}
        /\ \A w \in sel[r] : w.slot = slot[r]

\* What it has deleted was of its slot, and is in nobody else's hands.
DeletedRows ==
    \A r \in Request :
        /\ pc[r] \in {"idle", "numbered", "inserted", "checked", "validated",
                      "read"} => del[r] = {}
        /\ op[r] = "create" => del[r] = {}
        /\ \A w \in del[r] : w \in rows[ver[r]] /\ w.slot = slot[r]
        /\ \A q \in Request \ {r} : del[q] \cap del[r] = {}

HoldInv == ContentInv /\ HeldLate /\ SelectedRows /\ DeletedRows

LEMMA HoldInit == Init => HoldInv
<1>1. Init => HeldLate
  BY NoneIsNew DEF Init, HeldLate
<1>2. Init => SelectedRows /\ DeletedRows
  BY DEF Init, SelectedRows, DeletedRows
<1> QED
  BY <1>1, <1>2, ContentInit DEF HoldInv

LEMMA HoldBegin ==
    ASSUME HoldInv, ContentInv', NEW r \in Request, Begin(r)
    PROVE  HoldInv'
<1> USE DEF HoldInv, ContentInv, NumberInv, IndInv, LocalInv, TypeOK, Goto
<1>1. /\ UNCHANGED <<holder, rows, sel, del>> /\ pc[r] = "idle"
      /\ pc'[r] \in {"numbered", "checked"}
      /\ \A q \in Request \ {r} :
            pc'[q] = pc[q] /\ op'[q] = op[q] /\ ver'[q] = ver[q] /\ slot'[q] = slot[q]
  BY DEF Begin, BeginCreate, BeginSetMappings, BeginPutAsset, BeginDeleteAsset,
         BeginPublish, RequireDraft, table, store
<1>2. HeldLate'
  BY <1>1 DEF HeldLate
<1>3. SelectedRows' /\ DeletedRows'
  BY <1>1 DEF SelectedRows, DeletedRows
<1> QED
  BY <1>2, <1>3

\* The steps that select or delete rows.
LEMMA HoldDelete ==
    ASSUME HoldInv, ContentInv', NEW r \in Request,
           \/ ReadRules(r) \/ LoadAsset(r) \/ RemoveAsset(r)
           \/ \E new \in SUBSET RowId : ReplaceRules(r, new)
    PROVE  HoldInv'
<1> USE DEF HoldInv, ContentInv, NumberInv, IndInv, LocalInv, TypeOK, Goto
<1>1. /\ UNCHANGED <<holder, rows, op, ver, slot>>
      /\ ver[r] \in Version /\ op[r] # "create"
      /\ \A q \in Request \ {r} : pc'[q] = pc[q] /\ sel'[q] = sel[q] /\ del'[q] = del[q]
  BY DEF ReadRules, LoadAsset, RemoveAsset, ReplaceRules, SelectRows,
         DeleteSelected, HasVersion, table, store
<1>2. CASE ReadRules(r) \/ LoadAsset(r)
  <2>1. /\ pc[r] \in {"checked", "validated"} /\ pc'[r] = "read"
        /\ UNCHANGED del /\ sel'[r] = RowsIn(ver[r], slot[r])
    BY <1>2 DEF ReadRules, LoadAsset, SelectRows
  <2>2. HeldLate'
    BY <1>1, <2>1 DEF HeldLate
  <2>3. SelectedRows'
    BY <1>1, <2>1 DEF SelectedRows, RowsIn
  <2>4. DeletedRows'
    BY <1>1, <2>1 DEF DeletedRows
  <2> QED
    BY <2>2, <2>3, <2>4
<1>3. CASE RemoveAsset(r) \/ \E new \in SUBSET RowId : ReplaceRules(r, new)
  <2>1. /\ pc[r] = "read" /\ pc'[r] \in {"removed", "derived", "done"} /\ Free(r)
        /\ del'[r] = sel[r] \cap rows[ver[r]] /\ sel'[r] = {}
    BY <1>3 DEF RemoveAsset, ReplaceRules, DeleteSelected
  <2>2. HeldLate'
    BY <1>1, <2>1 DEF HeldLate
  <2>3. SelectedRows'
    BY <1>1, <2>1 DEF SelectedRows
  <2>4. \A q \in Request \ {r} : sel[r] \cap del[q] = {}
    BY <2>1 DEF Free, WaitsFor
  <2>5. DeletedRows'
    BY <1>1, <2>1, <2>4 DEF DeletedRows, SelectedRows
  <2> QED
    BY <2>2, <2>3, <2>5
<1> QED
  BY <1>2, <1>3

\* The other steps before a commit.
LEMMA HoldAside ==
    ASSUME HoldInv, ContentInv', NEW r \in Request, Step(r), ~Commit(r),
           ~(ReadRules(r) \/ LoadAsset(r) \/ RemoveAsset(r)),
           ~(\E new \in SUBSET RowId : ReplaceRules(r, new))
    PROVE  HoldInv'
<1> USE DEF HoldInv, ContentInv, NumberInv, IndInv, LocalInv, TypeOK, Goto
<1>1. \/ InsertVersion(r) \/ InsertAsset(r) \/ Validate(r)
      \/ \E i \in RowId, F \in SUBSET File : StoreBundle(r, i, F)
      \/ \E i \in RowId : UploadAsset(r, i)
      \/ \E p \in Version \cup {None} : FindPublished(r, p)
      \/ ArchivePrevious(r) \/ LockTarget(r) \/ MarkPublished(r)
  BY DEF Step, FreshId
<1>2. /\ UNCHANGED <<rows, op, ver, slot, sel, del>>
      /\ \A q \in Request \ {r} : pc'[q] = pc[q]
      /\ pc[r] # "read" /\ pc'[r] # "read"
      /\ op[r] = "create" \/ pc[r] \in {"checked", "removed", "uploaded", "derived",
                                        "found", "archived", "marking"}
      /\ pc'[r] \in {"inserted", "uploaded", "validated", "derived", "found",
                     "archived", "marking", "done"}
      /\ pc'[r] = "inserted" => op[r] = "create"
      /\ pc'[r] = "validated" => pc[r] = "checked"
  BY <1>1 DEF InsertVersion, StoreBundle, InsertAsset, Validate, UploadAsset,
              FindPublished, ArchivePrevious, LockTarget, MarkPublished,
              StageOfOp, table, store
<1>3. HeldLate'
  <2>1. \A v \in Version : holder'[v] = holder[v] \/ holder'[v] = r
    BY <1>1 DEF InsertVersion, StoreBundle, InsertAsset, Validate, UploadAsset,
                FindPublished, ArchivePrevious, LockTarget, MarkPublished, table
  <2>2. \A v \in Version : holder'[v] = r =>
            pc'[r] \in {"inserted", "archived", "marking", "done"}
    BY <1>1 DEF InsertVersion, StoreBundle, InsertAsset, Validate, UploadAsset,
                FindPublished, ArchivePrevious, LockTarget, MarkPublished,
                HeldLate, table
  <2> QED
    BY <1>2, <2>1, <2>2, NoneIsNew DEF HeldLate
<1>4. SelectedRows'
  BY <1>2 DEF SelectedRows
<1>5. DeletedRows'
  BY <1>2 DEF DeletedRows
<1> QED
  BY <1>3, <1>4, <1>5

LEMMA HoldEnd ==
    ASSUME HoldInv, ContentInv', NEW r \in Request, Commit(r) \/ Rollback(r)
    PROVE  HoldInv'
<1> USE DEF HoldInv, ContentInv, NumberInv, IndInv, LocalInv, TypeOK
<1>1. /\ pc'[r] = "idle" /\ sel'[r] = {} /\ del'[r] = {}
      /\ \A q \in Request \ {r} :
            /\ pc'[q] = pc[q] /\ op'[q] = op[q] /\ ver'[q] = ver[q]
            /\ slot'[q] = slot[q] /\ sel'[q] = sel[q] /\ del'[q] = del[q]
      /\ \A v \in Version : holder'[v] # r /\ (holder'[v] # None => holder'[v] = holder[v])
      /\ \A v \in Version : \A w \in rows[v] \ del[r] : w \in rows'[v]
  BY NoneIsNew DEF Commit, Rollback, Close
<1>2. HeldLate' /\ SelectedRows'
  BY <1>1, NoneIsNew DEF HeldLate, SelectedRows
<1>3. DeletedRows'
  <2>1. \A q \in Request \ {r} : \A w \in del[q] : w \in rows'[ver[q]]
    BY <1>1 DEF DeletedRows, HasVersion
  <2> QED
    BY <1>1, <2>1 DEF DeletedRows
<1> QED
  BY <1>2, <1>3

LEMMA HoldInductive == HoldInv /\ [Next]_vars => HoldInv'
<1> SUFFICES ASSUME HoldInv, [Next]_vars
             PROVE  HoldInv'
  OBVIOUS
<1>1. ContentInv'
  BY ContentInductive DEF HoldInv
<1>2. ASSUME NEW r \in Request, Step(r)
      PROVE  HoldInv'
  BY <1>1, <1>2, HoldDelete, HoldAside, HoldEnd
<1>3. ASSUME NEW r \in Request, Fail(r)
      PROVE  HoldInv'
  BY <1>1, <1>3, HoldEnd
     DEF Fail, Refuse, IntegrityFailure, DeadlockVictim, Crash
<1>4. CASE UNCHANGED vars
  BY <1>1, <1>4
     DEF vars, table, store, local, HoldInv, HeldLate, SelectedRows, DeletedRows
<1> QED
  BY <1>1, <1>2, <1>3, <1>4, HoldBegin DEF Next

\* Who waits and keeps others waiting is a publish, and waits for a request of its
\* own variant.
LEMMA WaitsInTheMiddle ==
    ASSUME HoldInv, NEW q \in Request, NEW r \in Request, NEW p \in Request,
           WaitsFor(q, r), WaitsFor(r, p)
    PROVE  op[r] = "publish" /\ VariantOf[ver[p]] = VariantOf[ver[r]]
<1> USE DEF HoldInv, ContentInv, NumberInv, IndInv, LocalInv, TypeOK
<1>1. p # r /\ q # r /\ ver[r] \in Version
  BY DEF WaitsFor, HasVersion
<1>2. \/ \E v \in Version : holder[v] = r
      \/ del[r] # {}
      \/ pc[r] = "done"
  BY DEF WaitsFor, NumberRivals, PublishedRivals, HasVersion
<1>3. pc[r] \notin {"done", "numbered", "read"}
  BY <1>2 DEF WaitsFor, HeldLate, DeletedRows
<1>4. pc[r] # "uploaded"
  <2> SUFFICES ASSUME pc[r] = "uploaded" PROVE FALSE
    OBVIOUS
  <2>1. op[r] = "put_asset" /\ slot[r] \in File
    BY DEF StageOfOp, SlotOfOp
  \* It has deleted the asset of its file name, ...
  <2>2. PICK w \in del[r] : w \in rows[ver[r]] /\ w.slot = slot[r]
    BY <1>2 DEF HeldLate, DeletedRows
  \* ... which is the only one, so that what it meets in the index is an upload.
  <2>3. FileRivals(r) = {}
    BY <1>1, <2>1, <2>2 DEF FileRivals, RowsIn, OneRowPerFile
  <2>4. pc[p] = "done" /\ ver[p] = ver[r] /\ \E u \in ins[p] : u.slot = slot[r]
    BY <2>3 DEF WaitsFor
  <2>5. op[p] = "put_asset" /\ slot[p] = slot[r]
    <3>1. op[p] # "create"
      BY <1>1, <2>4 DEF Targets
    <3> QED
      BY <2>1, <2>4, <3>1, FilesAreNotOrigins
         DEF SlotOfOp, InsertedRows, StageOfOp, AllOps
  \* That has deleted the same asset.
  <2>6. w \in del[p]
    BY <2>2, <2>4, <2>5 DEF NameTaken
  <2> QED
    BY <1>1, <2>2, <2>6 DEF DeletedRows
<1>5. op[r] = "publish"
  BY <1>3, <1>4 DEF WaitsFor, StageOfOp
<1>6. \E v \in Version : holder[v] = p /\ VariantOf[v] = VariantOf[ver[r]]
  <2>1. CASE pc[r] = "found"
    BY <2>1 DEF WaitsFor, Targets
  <2>2. CASE pc[r] = "archived"
    BY <1>1, <2>2 DEF WaitsFor
  <2>3. CASE pc[r] = "marking"
    BY <2>3 DEF WaitsFor, PublishedRivals
  <2> QED
    BY <1>3, <1>4, <2>1, <2>2, <2>3 DEF WaitsFor
<1>7. VariantOf[ver[p]] = VariantOf[ver[r]]
  BY <1>6 DEF HeldRows
<1> QED
  BY <1>5, <1>7

\* Only publish calls of one variant can deadlock.
THEOREM OnlyPublishesDeadlockCorrect == Spec => []OnlyPublishesDeadlock
<1>1. ASSUME HoldInv, NEW r \in Request, NEW p \in Request,
             Deadlocked(r), WaitsFor(r, p)
      PROVE  op[r] = "publish" /\ VariantOf[ver[p]] = VariantOf[ver[r]]
  \* Without r there would be no way back to it.
  <2>1. PICK q \in Request : WaitsFor(q, r)
    <3>1. PICK s \in Request :
            /\ WaitsFor(r, s)
            /\ \A C \in SUBSET Request :
                  s \in C /\ (\A t \in C, u \in Request : WaitsFor(t, u) => u \in C)
                  => r \in C
      BY <1>1 DEF Deadlocked
    <3>2. s \in Request \ {r}
      BY <3>1 DEF WaitsFor
    <3>3. r \notin Request \ {r} /\ Request \ {r} \in SUBSET Request
      OBVIOUS
    <3>4. ~(\A t \in Request \ {r}, u \in Request : WaitsFor(t, u) => u \in Request \ {r})
      BY <3>1, <3>2, <3>3
    <3> QED
      BY <3>4
  <2> QED
    BY <1>1, <2>1, WaitsInTheMiddle
<1>2. HoldInv => OnlyPublishesDeadlock
  BY <1>1 DEF OnlyPublishesDeadlock
<1> QED
  BY <1>2, HoldInit, HoldInductive, PTL DEF Spec

\* Of the stuck sets within a finite one, some has the fewest members.
LEMMA HasSmallestStuck ==
    ASSUME NEW Sets, Sets # {}, \A T \in Sets : IsFiniteSet(T)
    PROVE  \E C \in Sets : \A T \in Sets : Cardinality(C) <= Cardinality(T)
<1> DEFINE Sizes == {Cardinality(T) : T \in Sets}
           LT == OpToRel(<, Nat)
<1>1. Sizes \subseteq Nat /\ Sizes # {}
  BY FS_CardinalityType
<1>2. \A x \in Nat, y \in Nat : x < y => <<x, y>> \in LT
  BY DEF OpToRel
<1>3. IsWellFoundedOn(LT, Nat)
  BY NatLessThanWellFounded
<1> HIDE DEF LT, Sizes
<1>4. PICK m \in Sizes : \A k \in Sizes : <<k, m>> \notin LT
  BY <1>1, <1>3, WFMin, Zenon
<1>5. PICK C \in Sets : m = Cardinality(C)
  BY <1>4 DEF Sizes
<1>6. ASSUME NEW T \in Sets PROVE Cardinality(C) <= Cardinality(T)
  <2>1. Cardinality(T) \in Sizes
    BY DEF Sizes
  <2>2. Cardinality(T) \in Nat /\ m \in Nat
    BY <1>1, <1>4, <2>1
  <2>3. ~(Cardinality(T) < m)
    BY <1>2, <1>4, <2>1, <2>2
  <2> QED
    BY <1>5, <2>2, <2>3
<1> QED
  BY <1>6

\* Waiting requests that wait only for one another include one on a cycle: take
\* the fewest of them that still wait for one another; whatever one of these
\* leads to, it leads back to it.
LEMMA StuckHasCycle ==
    ASSUME NEW S, S \subseteq Request, S # {}, IsFiniteSet(S),
           \A r \in S : \E q \in S : WaitsFor(r, q)
    PROVE  \E r \in S : Deadlocked(r)
<1> DEFINE Stuck == {T \in SUBSET S : /\ T # {}
                                     /\ \A r \in T : \E q \in T : WaitsFor(r, q)}
<1>1. S \in Stuck /\ \A T \in Stuck : IsFiniteSet(T)
  BY FS_Subset
<1>2. PICK C \in Stuck : \A T \in Stuck : Cardinality(C) <= Cardinality(T)
  <2> HIDE DEF Stuck
  <2> QED
    BY <1>1, HasSmallestStuck
<1>3. PICK r \in C : TRUE
  OBVIOUS
<1>4. PICK q \in C : WaitsFor(r, q)
  BY <1>3
<1>5. ASSUME NEW D \in SUBSET Request, q \in D,
             \A p \in D, s \in Request : WaitsFor(p, s) => s \in D
      PROVE  r \in D
  <2> DEFINE B == C \cap D
  <2>1. B \in Stuck
    <3>1. q \in B
      BY <1>4, <1>5
    <3>2. ASSUME NEW p \in B PROVE \E s \in B : WaitsFor(p, s)
      BY <1>5
    <3> QED
      BY <3>1, <3>2
  <2>2. Cardinality(B) \in Nat /\ Cardinality(C) \in Nat
    BY <1>1, <2>1, FS_CardinalityType
  <2>3. Cardinality(B) <= Cardinality(C) /\ (Cardinality(B) = Cardinality(C) => B = C)
    BY <1>1, FS_Subset
  <2>4. Cardinality(C) <= Cardinality(B)
    BY <1>2, <2>1
  <2>5. B = C
    BY <2>2, <2>3, <2>4
  <2> QED
    BY <1>3, <2>5
<1>6. r \in Request /\ q \in Request
  OBVIOUS
<1>7. Deadlocked(r)
  BY <1>4, <1>5, <1>6 DEF Deadlocked
<1> QED
  BY <1>7

\* Requests that wait only for one another are never stuck for good.
THEOREM StuckRequestsAreBroken == Spec => []StuckIsBroken
<1>1. ASSUME OnlyPublishesDeadlock, NEW S \in (SUBSET Request) \ {{}}, IsFiniteSet(S),
             \A r \in S : \E q \in S : WaitsFor(r, q)
      PROVE  \E r \in S : Deadlocked(r) /\ op[r] = "publish"
  <2>1. PICK r \in S : Deadlocked(r)
    BY <1>1, StuckHasCycle
  <2>2. PICK q \in S : WaitsFor(r, q)
    BY <1>1
  <2> QED
    BY <1>1, <2>1, <2>2 DEF OnlyPublishesDeadlock
<1>2. OnlyPublishesDeadlock => StuckIsBroken
  BY <1>1 DEF StuckIsBroken
<1> QED
  BY <1>2, OnlyPublishesDeadlockCorrect, PTL
=============================================================================

--------------------------- MODULE VariantsProofs ---------------------------
(***************************************************************************)
(* Theorems about Variants, for every set of requests and variants.        *)
(***************************************************************************)
EXTENDS Variants, TLAPS

USE NoneIsNew, NoneIsNoFlag

-----------------------------------------------------------------------------
LEMMA InitInv == Init => IndInv
  BY DEF Init, IndInv, TypeOK, Exclusive, Marks, Holdings, CallOfStage, Flag,
         Stage

\* The end of a request, in which flags may change to what it has left.
LEMMA CloseInv ==
    ASSUME IndInv, NEW r \in Request, Close(r),
           flag' = flag \/ flag' = [v \in Variant |-> View(r, v)]
    PROVE  IndInv'
<1> USE DEF IndInv, TypeOK, Close, Goto, Flag, Stage
<1>1. TypeOK'
  BY DEF View
<1>2. Exclusive'
  BY DEF Exclusive, Marks, View
<1>3. Holdings'
  BY DEF Holdings
<1>4. CallOfStage'
  BY DEF CallOfStage, Marks, View
<1> QED
  BY <1>1, <1>2, <1>3, <1>4

LEMMA InvStep == IndInv /\ [Next]_vars => IndInv'
<1> SUFFICES ASSUME IndInv, [Next]_vars
             PROVE  IndInv'
  OBVIOUS
<1> USE DEF IndInv, TypeOK, Goto, Flag, Stage, table, call
<1>1. ASSUME NEW r \in Request, Start(r)
      PROVE  IndInv'
  <2> PICK o \in {"create", "update"}, v \in Variant,
           w \in {"plain", "default", None} : Begin(r, o, v, w)
    BY <1>1 DEF Start
  <2>1. TypeOK'
    BY DEF Begin
  <2>2. Exclusive'
    BY DEF Begin, Exclusive, Marks
  <2>3. Holdings'
    BY DEF Begin, Holdings
  <2>4. CallOfStage'
    BY DEF Begin, CallOfStage, Marks
  <2> QED
    BY <2>1, <2>2, <2>3, <2>4
<1>2. ASSUME NEW r \in Request, Rename(r)
      PROVE  IndInv'
  <2>1. TypeOK'
    BY <1>2 DEF Rename, Hold
  <2>2. Exclusive'
    BY <1>2 DEF Rename, Hold, Exclusive, Marks, CallOfStage
  <2>3. Holdings'
    BY <1>2 DEF Rename, Hold, Holdings, CallOfStage
  <2>4. CallOfStage'
    BY <1>2 DEF Rename, Hold, CallOfStage, Marks
  <2> QED
    BY <2>1, <2>2, <2>3, <2>4
<1>3. ASSUME NEW r \in Request, FindDefault(r)
      PROVE  IndInv'
  BY <1>3 DEF FindDefault, Exclusive, Holdings, CallOfStage, Marks
<1>4. ASSUME NEW r \in Request, SkipWrite(r)
      PROVE  IndInv'
  BY <1>4 DEF SkipWrite, Writes, Exclusive, Holdings, CallOfStage, Marks
<1>5. ASSUME NEW r \in Request, ClearDefault(r)
      PROVE  IndInv'
  <2>1. found[r] # None => holder[found[r]] \in {r, None}
    BY <1>5 DEF ClearDefault, Free, WaitsFor, NextRow
  <2>2. TypeOK'
    BY <1>5 DEF ClearDefault, Hold
  <2>3. Exclusive'
    BY <1>5, <2>1 DEF ClearDefault, Hold, Exclusive, Marks
  <2>4. Holdings'
    BY <1>5, <2>1 DEF ClearDefault, Hold, Holdings, CallOfStage
  <2>5. CallOfStage'
    BY <1>5, <2>1 DEF ClearDefault, Hold, CallOfStage, Marks
  <2> QED
    BY <2>2, <2>3, <2>4, <2>5
<1>6. ASSUME NEW r \in Request, TakeTarget(r)
      PROVE  IndInv'
  <2>1. /\ target[r] \in Variant /\ holder[target[r]] \in {r, None}
        /\ want[r] # None
        /\ op[r] = "create" => flag[target[r]] = "none"
    BY <1>6 DEF TakeTarget, Free, WaitsFor, NextRow, Violates, Writes, CallOfStage
  <2>2. TypeOK'
    BY <1>6, <2>1 DEF TakeTarget, Hold, View
  <2>3. Exclusive'
    BY <1>6, <2>1 DEF TakeTarget, Hold, View, Exclusive, Marks
  <2>4. Holdings'
    BY <1>6, <2>1 DEF TakeTarget, Hold, Holdings, CallOfStage
  <2>5. CallOfStage'
    BY <1>6, <2>1 DEF TakeTarget, Hold, CallOfStage, Marks
  <2> QED
    BY <2>2, <2>3, <2>4, <2>5
<1>7. ASSUME NEW r \in Request, MarkTarget(r)
      PROVE  IndInv'
  <2>1. /\ target[r] \in Variant /\ holder[target[r]] = r
        /\ want[r] \in {"plain", "default"}
    BY <1>7 DEF MarkTarget, CallOfStage
  <2>2. ASSUME NEW w \in Variant, w # target[r], want[r] = "default"
        PROVE  /\ flag[w] = "default" => holder[w] = r
               /\ \A q \in Request : ~Marks(q, w)
    <3>1. w \notin DefaultRivals(r)
      <4>1. ASSUME w \in DefaultRivals(r)
            PROVE  holder[w] = r /\ image[w] = "default"
        BY <1>7, <4>1
           DEF MarkTarget, Free, WaitsFor, Violates, DefaultRivals
      <4> QED
        BY <2>2, <4>1 DEF Holdings
    <3> QED
      BY <1>7, <2>2, <3>1 DEF MarkTarget, DefaultRivals, Marks
  <2>3. TypeOK'
    BY <1>7, <2>1 DEF MarkTarget, Hold
  <2>4. Exclusive'
    BY <1>7, <2>1, <2>2 DEF MarkTarget, Hold, Exclusive, Marks
  <2>5. Holdings'
    BY <1>7, <2>1 DEF MarkTarget, Hold, Holdings
  <2>6. CallOfStage'
    BY <1>7, <2>1 DEF MarkTarget, Hold, CallOfStage, Marks
  <2> QED
    BY <2>3, <2>4, <2>5, <2>6
<1>8. ASSUME NEW r \in Request,
             Commit(r) \/ Refuse(r) \/ IntegrityFailure(r) \/ DeadlockVictim(r)
      PROVE  IndInv'
  BY <1>8, CloseInv
     DEF Commit, Refuse, IntegrityFailure, DeadlockVictim, Rollback
<1>9. CASE UNCHANGED vars
  BY <1>9 DEF vars, Exclusive, Holdings, CallOfStage, Marks
<1> QED
  BY <1>1, <1>2, <1>3, <1>4, <1>5, <1>6, <1>7, <1>8, <1>9 DEF Next, Step

THEOREM Inductive == Spec => []IndInv
<1>1. Init => IndInv
  BY InitInv
<1>2. IndInv /\ [Next]_vars => IndInv'
  BY InvStep
<1> QED
  BY <1>1, <1>2, PTL DEF Spec

\* Every variable keeps its type.
THEOREM TypeCorrect == Spec => []TypeOK
  BY Inductive, PTL DEF IndInv

\* However many calls race for the flag, no statement ever sees two defaults.
THEOREM OneDefaultCorrect == Spec => []OneDefault
<1>1. IndInv => OneDefault
  BY DEF IndInv, TypeOK, Exclusive, Marks, OneDefault, View
<1> QED
  BY <1>1, Inductive, PTL

\* A default goes away only with the commit of a call that asked for it, or
\* that had read the variant it makes the default as the default.
THEOREM LossIsExplained == Spec => LossExplained
<1>1. IndInv /\ [Next]_vars =>
        [Defaults # {} /\ Defaults' = {} =>
            \E r \in Request : /\ pc[r] = "done" /\ pc'[r] = "idle"
                               /\ op[r] = "update"
                               /\ want[r] = "plain" \/ loaded[r] = "default"]_vars
  <2> SUFFICES ASSUME IndInv, Next, Defaults # {}, Defaults' = {}
               PROVE  \E r \in Request :
                        /\ pc[r] = "done" /\ pc'[r] = "idle"
                        /\ op[r] = "update"
                        /\ want[r] = "plain" \/ loaded[r] = "default"
    BY DEF Defaults, vars, table
  <2> USE DEF IndInv, TypeOK
  <2>1. PICK r \in Request : Commit(r)
    BY DEF Next, Start, Begin, Rename, Step, FindDefault, ClearDefault,
           TakeTarget, MarkTarget, SkipWrite, IntegrityFailure, DeadlockVictim,
           Refuse, Rollback, Hold, Defaults, table
  <2>2. PICK v \in Variant : flag[v] = "default"
    BY DEF Defaults
  <2>3. \A w \in Variant : View(r, w) # "default"
    BY <2>1 DEF Commit, Defaults
  <2>4. holder[v] = r
    BY <2>2, <2>3 DEF View
  <2>5. want[r] # None /\ (v # target[r] => want[r] = "default")
    BY <2>4 DEF Holdings
  <2>6. pc[r] = "done" /\ pc'[r] = "idle" /\ target[r] \in Variant
    BY <2>1 DEF Commit, Close, Goto, CallOfStage
  <2>7. ~Marks(r, target[r])
    BY <2>3, <2>6 DEF Marks, View
  <2>8. op[r] = "update"
    BY <2>2, <2>5, <2>6, <2>7 DEF CallOfStage
  <2>9. want[r] = "plain" \/ loaded[r] = "default"
    BY <2>5, <2>6, <2>7, <2>8 DEF CallOfStage
  <2> QED
    BY <2>6, <2>8, <2>9
<1> QED
  BY <1>1, Inductive, PTL DEF Spec, LossExplained

\* A call that asks for the flag, and had not read it as set, has the target's
\* row and the entry in the index when it commits.
THEOREM SettingTakesEffect == Spec => SetTakesEffect
<1>1. IndInv /\ [Next]_vars =>
        [\A r \in Request :
            /\ pc[r] = "done" /\ want[r] = "default" /\ loaded[r] # "default"
            /\ Commit(r)
            => flag'[target[r]] = "default"]_vars
  <2> SUFFICES ASSUME IndInv, NEW r \in Request, Commit(r), pc[r] = "done",
                      want[r] = "default", loaded[r] # "default"
               PROVE  flag'[target[r]] = "default"
    OBVIOUS
  <2>1. Marks(r, target[r]) /\ target[r] \in Variant
    BY DEF IndInv, TypeOK, CallOfStage
  <2> QED
    BY <2>1 DEF Commit, View, Marks
<1> QED
  BY <1>1, Inductive, PTL DEF Spec, SetTakesEffect

\* A call that does not set the flag waits for one row and holds none meanwhile, so
\* that nobody waits for it.
THEOREM OnlySettersDeadlockCorrect == Spec => []OnlySettersDeadlock
<1>1. ASSUME IndInv, NEW r \in Request, Deadlocked(r)
      PROVE  want[r] = "default"
  <2>1. PICK s \in Request :
          /\ WaitsFor(r, s)
          /\ \A C \in SUBSET Request :
                s \in C /\ (\A t \in C, u \in Request : WaitsFor(t, u) => u \in C)
                => r \in C
    BY <1>1 DEF Deadlocked
  \* Without r there would be no way back to it.
  <2>2. PICK q \in Request : WaitsFor(q, r)
    <3>1. s \in Request \ {r}
      BY <2>1 DEF WaitsFor
    <3>2. r \notin Request \ {r} /\ Request \ {r} \in SUBSET Request
      OBVIOUS
    <3>3. ~(\A t \in Request \ {r}, u \in Request : WaitsFor(t, u) => u \in Request \ {r})
      BY <2>1, <3>1, <3>2
    <3> QED
      BY <3>3
  <2>3. \E v \in Variant : holder[v] = r
    BY <2>2 DEF WaitsFor, NextRow, DefaultRivals
  <2>4. pc[r] \in {"found", "cleared"} \/ want[r] = "default"
    BY <2>1 DEF WaitsFor, NextRow, DefaultRivals
  <2> QED
    BY <1>1, <2>3, <2>4 DEF IndInv, TypeOK, Holdings
<1>2. IndInv => OnlySettersDeadlock
  BY <1>1 DEF OnlySettersDeadlock
<1> QED
  BY <1>2, Inductive, PTL
=============================================================================

---------------------------- MODULE RenderProofs ----------------------------
(***************************************************************************)
(* Theorems about Render, for every set of calls, passes and variants,     *)
(* every pool and every fault, where nothing else is said.                 *)
(***************************************************************************)
EXTENDS Render, TLAPS, FiniteSetTheorems

USE NoneIsNothing, CallsKnown, BoundNat, ContentsKnown

-----------------------------------------------------------------------------
(***************************************************************************)
(* The inductive invariant.                                                *)
(***************************************************************************)
LEMMA ResolveInType ==
    ASSUME NEW k, NEW n, NEW d \in Resolve(k, n)
    PROVE  /\ d \in Design
           /\ k # None /\ n # 0 => d = <<k, n>>
  BY DEF Resolve, Design, Number

LEMMA InitInv == Init => IndInv
<1> SUFFICES ASSUME Init PROVE IndInv
  OBVIOUS
<1>1. authored \in [Design -> AllContents]
  BY DEF Init, AllContents
<1> QED
  BY <1>1
     DEF Init, IndInv, TypeOK, EntryAtEnd, ResolvedAsPinned, EffectAtGoogle, SetByCall,
         CallOfStage, Resolved, Specified, Delivered, Succeeded, Pinned,
         Registry!Init, Stage, Number, Rendering

\* An expired object stays so, unless r is an update whose content has a state; an
\* object does not go away, and who has set its state is the one before or r.
ObjectsKeep(r) ==
    \A p \in Pass : object[p] # None =>
        /\ object'[p] # None
        /\ \/ object'[p].state = object[p].state /\ object'[p].by = object[p].by
           \/ /\ object'[p].by = r
              /\ \/ object'[p].state = "EXPIRED"
                 \/ op[r] = "update" /\ Offers(r, "ACTIVE")

\* The states a content may have are states.
LEMMA ContentsAreStates ==
    ASSUME IndInv, NEW d \in Design, NEW s \in authored[d], s # None
    PROVE  s \in State
  BY DEF IndInv, TypeOK, AllContents

\* A delivery is made by a call that has resolved what it names, and one that
\* renders has its specification.
LEMMA StageBeforeDelivery ==
    ASSUME IndInv, NEW r \in Request, Push(r) \/ Sign(r)
    PROVE  /\ pc[r] \in {"resolved", "bound"}
           /\ op[r] \in Rendering => pc[r] = "bound"
           /\ op[r] \in AllOps /\ pass[r] \in Pass /\ named[r] \in Design
           /\ pc[r] = "bound" => spec[r] \in Design
  BY DEF IndInv, TypeOK, CallOfStage, Resolved, Push, Sign, CreateObject,
         UpdateObject, Withdraw, Rendering, AllOps

\* What build_google_object makes is an object.
LEMMA BuiltIsObject ==
    ASSUME IndInv, NEW r \in Request, pc[r] = "bound", Push(r),
           NEW s \in authored[spec[r]]
    PROVE  /\ Built(r, s) \in Object /\ Built(r, s).by = r
           /\ Built(r, s).design = spec[r]
           /\ s # None => Built(r, s).state = s /\ s \in State
           /\ s = None => Built(r, s).state = "ACTIVE"
<1>1. named[r] \in Design /\ spec[r] \in Design
  BY StageBeforeDelivery
<1>2. s # None => s \in State
  BY <1>1, ContentsAreStates
<1> QED
  BY <1>1, <1>2 DEF Built, Object, Design, State

\* What an update makes of an object.
LEMMA PatchedIsObject ==
    ASSUME IndInv, NEW r \in Request, pc[r] = "bound", Push(r),
           NEW s \in authored[spec[r]], NEW o \in Object
    PROVE  /\ Patched(o, r, s) \in Object
           /\ Patched(o, r, s).design = spec[r]
           /\ s # None => /\ Patched(o, r, s).state = s /\ s \in State
                          /\ Patched(o, r, s).by = r
           /\ s = None => /\ Patched(o, r, s).state = o.state
                          /\ Patched(o, r, s).by = o.by
<1> DEFINE b == Built(r, s)
<1>1. /\ b \in Object /\ b.by = r /\ b.design = spec[r]
      /\ s # None => b.state = s /\ s \in State
  BY BuiltIsObject
<1>2. Patched(o, r, s) =
          IF s = None THEN [b EXCEPT !.state = o.state, !.by = o.by] ELSE b
  BY DEF Patched
<1> HIDE DEF b
<1> QED
  BY <1>1, <1>2 DEF Object

\* What a delivery does at Google.
LEMMA PushKeeps ==
    ASSUME IndInv, NEW r \in Request, Push(r) \/ Sign(r)
    PROVE  /\ object' \in [Pass -> Object \cup {None}]
           /\ ObjectsKeep(r)
           /\ \A p \in Pass : object'[p] # None =>
                  \/ p = pass[r] /\ object'[p].by = r
                  \/ object[p] # None /\ object'[p].by = object[p].by
           /\ Google /\ op[r] # "save_link" => object'[pass[r]] # None
           /\ Google /\ op[r] = "deactivate" =>
                  object'[pass[r]].state = "EXPIRED"
<1> USE StageBeforeDelivery DEF IndInv, TypeOK, ObjectsKeep
<1>1. CASE Push(r) /\ CreateObject(r)
  <2>1. PICK s \in authored[spec[r]] :
            object' = IF object[pass[r]] = None
                        THEN [object EXCEPT ![pass[r]] = Built(r, s)]
                        ELSE object
    BY <1>1 DEF CreateObject
  <2>2. Built(r, s) \in Object /\ Built(r, s).by = r
    BY <1>1, BuiltIsObject DEF CreateObject
  <2>3. op[r] = "create"
    BY <1>1 DEF CreateObject
  <2> QED
    BY <1>1, <2>1, <2>2, <2>3
<1>2. CASE Push(r) /\ UpdateObject(r)
  <2>1. PICK s \in authored[spec[r]] :
            object' = [object EXCEPT ![pass[r]] = Patched(object[pass[r]], r, s)]
    BY <1>2 DEF UpdateObject
  <2> DEFINE o == object[pass[r]]  w == Patched(o, r, s)
  <2>2. /\ op[r] = "update" /\ pc[r] = "bound" /\ o \in Object
        /\ pass[r] \in Pass /\ spec[r] \in Design
    BY <1>2 DEF UpdateObject
  <2>3. /\ w \in Object
        /\ s # None => w.state = s /\ s \in State /\ w.by = r
        /\ s = None => w.state = o.state /\ w.by = o.by
    BY <1>2, <2>2, PatchedIsObject
  <2>4. \/ w.state = o.state /\ w.by = o.by
        \/ w.by = r /\ (w.state = "EXPIRED" \/ Offers(r, "ACTIVE"))
    BY <2>2, <2>3 DEF Offers, Rendering, State
  <2>5. object' = [object EXCEPT ![pass[r]] = w] /\ w # None
    BY <2>1, <2>3
  <2> HIDE DEF w
  <2>6. object' \in [Pass -> Object \cup {None}]
    BY <2>2, <2>3, <2>5
  <2>7. \A p \in Pass : p # pass[r] => object'[p] = object[p]
    BY <2>5
  <2>8. object'[pass[r]] = w
    BY <2>2, <2>5
  <2>9. ObjectsKeep(r)
    BY <2>2, <2>4, <2>5, <2>7, <2>8
  <2> QED
    BY <2>2, <2>4, <2>5, <2>6, <2>7, <2>8, <2>9
<1>3. CASE Withdraw(r)
  <2> DEFINE o == object[pass[r]]
             w == [o EXCEPT !.class = named[r][1], !.state = "EXPIRED", !.by = r]
  <2>1. o \in Object /\ pass[r] \in Pass /\ named[r][1] \in Variant
    BY <1>3 DEF Withdraw, Design
  <2>2. w \in Object /\ w.state = "EXPIRED" /\ w.by = r
    BY <2>1 DEF Object, State
  <2>3. object' = [object EXCEPT ![pass[r]] = w]
    BY <1>3 DEF Withdraw
  <2> HIDE DEF w
  <2> QED
    BY <1>3, <2>1, <2>2, <2>3
<1>4. CASE Sign(r)
  BY <1>4 DEF Sign, Rendering, AllOps
<1> QED
  BY <1>1, <1>2, <1>3, <1>4 DEF Push

\* A call that has pushed keeps what it is.
LEMMA PushedKeeps ==
    ASSUME IndInv, [Next]_vars, NEW q \in Request,
           pc[q] \in {"delivered", "failing", "ended"}
    PROVE  /\ pc'[q] \in {"delivered", "failing", "ended"}
           /\ op'[q] = op[q] /\ pass'[q] = pass[q] /\ spec'[q] = spec[q]
           /\ UNCHANGED <<authored, wallet_type>>
<1> USE DEF IndInv, TypeOK, Goto, call, templates
<1>1. ASSUME NEW r \in Request,
             \/ Start(r) \/ Step(r) \/ LoseAnswer(r) \/ Raise(r) \/ Abort(r)
      PROVE  /\ pc'[q] \in {"delivered", "failing", "ended"}
             /\ op'[q] = op[q] /\ pass'[q] = pass[q] /\ spec'[q] = spec[q]
             /\ UNCHANGED <<authored, wallet_type>>
  <2>1. CASE Start(r)
    BY <2>1 DEF Start, Begin
  <2>2. CASE Specify(r) \/ FetchFields(r) \/ Raise(r)
    BY <2>2 DEF Specify, FetchFields, Raise
  <2>3. CASE Deliver(r) \/ LoseAnswer(r)
    BY <2>3 DEF Deliver, LoseAnswer
  <2>4. CASE Commit(r) \/ AuditError(r) \/ PoolTimeout(r) \/ Abort(r)
    BY <2>4 DEF Commit, AuditError, PoolTimeout, Abort
  <2> QED
    BY <1>1, <2>1, <2>2, <2>3, <2>4 DEF Step
<1>2. CASE Manage \/ UNCHANGED vars
  BY <1>2 DEF Manage, vars
<1> QED
  BY <1>1, <1>2 DEF Next

\* A push, and every step that leaves the objects alone, keeps who has set a state,
\* and what each call that has delivered has done.
LEMMA EffectStep ==
    ASSUME IndInv, [Next]_vars,
           \/ UNCHANGED object /\ \A q \in Request : Delivered(q)' => Delivered(q)
           \/ \E r \in Request :
                 /\ Push(r) \/ Sign(r)
                 /\ pc'[r] \in {"delivered", "failing"}
                 /\ UNCHANGED <<op, pass, spec, authored, wallet_type>>
                 /\ \A q \in Request \ {r} : Delivered(q)' => Delivered(q)
    PROVE  SetByCall' /\ EffectAtGoogle'
<1> USE DEF IndInv, TypeOK
<1>1. \A p \in Pass : object[p] # None =>
          /\ object[p].by \in Request
          /\ pc'[object[p].by] \in {"delivered", "failing", "ended"}
          /\ op'[object[p].by] = op[object[p].by]
          /\ pass'[object[p].by] = p /\ pass[object[p].by] = p
          /\ spec'[object[p].by] = spec[object[p].by]
          /\ authored' = authored
  BY PushedKeeps DEF SetByCall, Object
<1>2. ASSUME NEW q \in Request, Delivered(q)
      PROVE  /\ UNCHANGED <<op[q], pass[q], wallet_type>>
             /\ pass[q] \in Pass
  BY <1>2, PushedKeeps DEF Delivered, Succeeded, EntryAtEnd, CallOfStage, Resolved
<1>3. CASE UNCHANGED object /\ \A q \in Request : Delivered(q)' => Delivered(q)
  <2>1. SetByCall'
    BY <1>1, <1>3 DEF SetByCall
  <2>2. \A p \in Pass : object[p] # None /\ StaysWithdrawn(p) => StaysWithdrawn(p)'
    BY <1>1, <1>3 DEF StaysWithdrawn, Offers
  <2> QED
    BY <1>2, <1>3, <2>1, <2>2 DEF EffectAtGoogle, Google
<1>4. ASSUME NEW r \in Request, Push(r) \/ Sign(r), pc'[r] \in {"delivered", "failing"},
             UNCHANGED <<op, pass, spec, authored, wallet_type>>,
             \A q \in Request \ {r} : Delivered(q)' => Delivered(q)
      PROVE  SetByCall' /\ EffectAtGoogle'
  <2>1. SetByCall'
    BY <1>1, <1>4, PushKeeps DEF SetByCall
  <2>2. ASSUME NEW p \in Pass, object[p] # None
        PROVE  object'[p] # None /\ (StaysWithdrawn(p) => StaysWithdrawn(p)')
    <3>1. /\ object'[p] # None
          /\ \/ object'[p].state = object[p].state /\ object'[p].by = object[p].by
             \/ /\ object'[p].by = r
                /\ \/ object'[p].state = "EXPIRED"
                   \/ op[r] = "update" /\ Offers(r, "ACTIVE")
      BY <1>4, <2>2, PushKeeps DEF ObjectsKeep
    <3> QED
      BY <1>1, <1>4, <2>2, <3>1 DEF StaysWithdrawn, Offers
  <2>3. ASSUME NEW q \in Request, Delivered(q)', Google, op[q] # "save_link"
        PROVE  /\ object'[pass[q]] # None
               /\ op[q] = "deactivate" => StaysWithdrawn(pass[q])'
    <3>1. CASE q = r
      BY <1>4, <2>3, <3>1, PushKeeps DEF StaysWithdrawn
    <3>2. CASE q # r
      BY <1>2, <1>4, <2>2, <2>3, <3>2 DEF EffectAtGoogle
    <3> QED
      BY <3>1, <3>2
  <2>4. EffectAtGoogle'
    BY <1>4, <2>3 DEF EffectAtGoogle, Google, StaysWithdrawn
  <2> QED
    BY <2>1, <2>4
<1> QED
  BY <1>3, <1>4

LEMMA InvStep == IndInv /\ [Next]_vars => IndInv'
<1> SUFFICES ASSUME IndInv, [Next]_vars
             PROVE  IndInv'
  OBVIOUS
<1> USE DEF IndInv, TypeOK, EntryAtEnd, ResolvedAsPinned, CallOfStage, Google,
            Pinned, Succeeded, Resolved, Specified, Goto, Stage, templates,
            call
<1>1. ASSUME NEW r \in Request, Start(r)
      PROVE  IndInv'
  <2> PICK o \in Ops, p \in Pass, k \in Variant \cup {None},
           n \in 0..MaxNumber : Begin(r, o, p, k, n)
    BY <1>1 DEF Start
  <2>1. TypeOK'
    BY ResolveInType DEF Begin
  <2>2. EntryAtEnd' /\ CallOfStage'
    BY ResolveInType DEF Begin
  <2>3. ResolvedAsPinned'
    BY ResolveInType DEF Begin
  <2>4. SetByCall' /\ EffectAtGoogle'
    BY EffectStep DEF Begin, Delivered
  <2> QED
    BY <2>1, <2>2, <2>3, <2>4
<1>2. ASSUME NEW r \in Request, Specify(r)
      PROVE  IndInv'
  <2>1. TypeOK' /\ EntryAtEnd' /\ CallOfStage'
    BY <1>2, ResolveInType DEF Specify
  <2>2. ResolvedAsPinned'
    BY <1>2, ResolveInType DEF Specify
  <2>3. SetByCall' /\ EffectAtGoogle'
    BY <1>2, EffectStep DEF Specify, Delivered
  <2> QED
    BY <2>1, <2>2, <2>3
<1>3. ASSUME NEW r \in Request, FetchFields(r)
      PROVE  IndInv'
  <2>1. TypeOK' /\ EntryAtEnd' /\ CallOfStage' /\ ResolvedAsPinned'
    BY <1>3 DEF FetchFields
  <2>2. SetByCall' /\ EffectAtGoogle'
    BY <1>3, EffectStep DEF FetchFields, Delivered
  <2> QED
    BY <2>1, <2>2
<1>4. ASSUME NEW r \in Request, Deliver(r) \/ LoseAnswer(r)
      PROVE  IndInv'
  <2>1. TypeOK' /\ EntryAtEnd' /\ CallOfStage' /\ ResolvedAsPinned'
    BY <1>4, PushKeeps, StageBeforeDelivery DEF Deliver, LoseAnswer, Rendering
  <2>2. SetByCall' /\ EffectAtGoogle'
    BY <1>4, EffectStep DEF Deliver, LoseAnswer, Delivered
  <2> QED
    BY <2>1, <2>2
<1>5. ASSUME NEW r \in Request, Commit(r) \/ AuditError(r)
      PROVE  IndInv'
  <2>1. TypeOK' /\ EntryAtEnd'
    BY <1>5 DEF Commit, AuditError, Log, Entry
  <2>2. CallOfStage' /\ ResolvedAsPinned'
    BY <1>5 DEF Commit, AuditError, Log
  <2>3. \A q \in Request : Delivered(q)' => Delivered(q)
    BY <1>5 DEF Commit, AuditError, Log, Delivered
  <2>4. SetByCall' /\ EffectAtGoogle'
    BY <1>5, <2>3, EffectStep DEF Commit, AuditError
  <2> QED
    BY <2>1, <2>2, <2>4
<1>6. ASSUME NEW r \in Request, Raise(r) \/ PoolTimeout(r) \/ Abort(r)
      PROVE  IndInv'
  <2>1. TypeOK' /\ EntryAtEnd' /\ CallOfStage' /\ ResolvedAsPinned'
    BY <1>6 DEF Raise, PoolTimeout, Abort, Held
  <2>2. SetByCall' /\ EffectAtGoogle'
    BY <1>6, EffectStep DEF Raise, PoolTimeout, Abort, Held, Delivered
  <2> QED
    BY <2>1, <2>2
<1>7. CASE Manage
  <2>1. /\ count' \in [Variant -> 0..MaxNumber]
        /\ current' \in [Variant -> 0..MaxNumber]
        /\ default' \in Variant \cup {None}
    BY <1>7 DEF Manage, Registry!AddVersion, Registry!Publish
  <2>2. SetByCall' /\ EffectAtGoogle'
    BY <1>7, EffectStep DEF Manage, Delivered
  <2> QED
    BY <1>7, <2>1, <2>2 DEF Manage
<1>8. CASE UNCHANGED vars
  <2>1. SetByCall' /\ EffectAtGoogle'
    BY <1>8, EffectStep DEF vars, Delivered
  <2> QED
    BY <1>8, <2>1 DEF vars
<1> QED
  BY <1>1, <1>2, <1>3, <1>4, <1>5, <1>6, <1>7, <1>8 DEF Next, Step

THEOREM Inductive == Spec => []IndInv
<1>1. Init => IndInv
  BY InitInv
<1>2. IndInv /\ [Next]_vars => IndInv'
  BY InvStep
<1> QED
  BY <1>1, <1>2, PTL DEF Spec

\* Every variable keeps its type.
THEOREM TypeCorrect == Spec => []TypeOK
  BY Inductive, PTL DEF IndInv

\* No success is recorded without its effect at Google, whatever fails: also
\* with crashes, failed commits and an exhausted pool.  What an author's content
\* says of the state is the one thing that undoes a withdrawal.
THEOREM SuccessHasEffect == Spec => []SuccessMeansEffect
<1>1. IndInv => SuccessMeansEffect
  BY DEF IndInv, EffectAtGoogle, Delivered, Succeeded, SuccessMeansEffect
<1> QED
  BY <1>1, Inductive, PTL

\* A call that names a variant and a version gets that one, and so does its
\* audit entry.
THEOREM PinnedIsNamed == Spec => []PinnedAuditNamesRendered
<1>1. IndInv => PinnedAuditNamesRendered
  BY DEF IndInv, EntryAtEnd, ResolvedAsPinned, Pinned, Succeeded,
         PinnedAuditNamesRendered
<1> QED
  BY <1>1, Inductive, PTL

-----------------------------------------------------------------------------
(***************************************************************************)
(* Refinement: what a step does to the objects is a step of PassLifecycle. *)
(***************************************************************************)
StateOf(p) == IF object[p] = None THEN "none" ELSE object[p].state

OfferedTo(p) == {s \in State : \E r \in Held : pass[r] = p /\ Offers(r, s)}

\* A push that changes what is at Google is a creation, a withdrawal or a revival.
LEMMA PushStep ==
    ASSUME IndInv, NEW r \in Request, Push(r), UNCHANGED authored
    PROVE  /\ pass[r] \in Pass
           /\ \/ UNCHANGED object
              \/ \E s \in State :
                    /\ [p \in Pass |-> StateOf(p)]' =
                          [[p \in Pass |-> StateOf(p)] EXCEPT ![pass[r]] = s]
                    /\ \/ StateOf(pass[r]) = "none" /\ s \in {"ACTIVE"} \cup OfferedTo(pass[r])
                       \/ StateOf(pass[r]) = s
                       \/ StateOf(pass[r]) = "ACTIVE" /\ s = "EXPIRED"
                       \/ StateOf(pass[r]) = "EXPIRED" /\ s \in OfferedTo(pass[r])
<1> USE StageBeforeDelivery DEF IndInv, TypeOK
<1>1. pass[r] \in Pass /\ object \in [Pass -> Object \cup {None}]
  OBVIOUS
<1>2. ASSUME NEW w \in Object, object' = [object EXCEPT ![pass[r]] = w]
      PROVE  [p \in Pass |-> StateOf(p)]' =
                 [[p \in Pass |-> StateOf(p)] EXCEPT ![pass[r]] = w.state]
  BY <1>1, <1>2 DEF StateOf
<1>3. \A w \in Object : w.state \in State /\ w # None
  BY DEF Object
<1>4. ASSUME NEW s \in authored[spec[r]], s # None, pc[r] = "bound", op[r] \in Rendering
      PROVE  s \in OfferedTo(pass[r])
  BY <1>4, ContentsAreStates DEF OfferedTo, Offers, Held
<1>5. CASE CreateObject(r)
  <2>1. PICK s \in authored[spec[r]] :
            object' = IF object[pass[r]] = None
                        THEN [object EXCEPT ![pass[r]] = Built(r, s)]
                        ELSE object
    BY <1>5 DEF CreateObject
  <2> DEFINE w == Built(r, s)
  <2>2. /\ w \in Object
        /\ s # None => w.state = s
        /\ s = None => w.state = "ACTIVE"
    BY <1>5, BuiltIsObject DEF CreateObject
  <2>3. pc[r] = "bound" /\ op[r] \in Rendering
    BY <1>5 DEF CreateObject, Rendering
  <2>4. w.state \in {"ACTIVE"} \cup OfferedTo(pass[r])
    BY <1>4, <2>2, <2>3
  <2>5. object[pass[r]] = None => object' = [object EXCEPT ![pass[r]] = w]
    BY <2>1
  <2>6. object[pass[r]] # None => UNCHANGED object
    BY <2>1
  <2> HIDE DEF w
  <2>7. object[pass[r]] = None => StateOf(pass[r]) = "none"
    BY DEF StateOf
  <2> QED
    BY <1>1, <1>2, <1>3, <2>2, <2>4, <2>5, <2>6, <2>7
<1>6. CASE UpdateObject(r)
  <2>1. PICK s \in authored[spec[r]] :
            object' = [object EXCEPT ![pass[r]] = Patched(object[pass[r]], r, s)]
    BY <1>6 DEF UpdateObject
  <2> DEFINE o == object[pass[r]]  w == Patched(o, r, s)
  <2>2. pc[r] = "bound" /\ op[r] \in Rendering /\ o \in Object
    BY <1>1, <1>6 DEF UpdateObject, Rendering
  <2>3. /\ w \in Object
        /\ s # None => w.state = s
        /\ s = None => w.state = o.state
    BY <2>2, PatchedIsObject
  <2>4. StateOf(pass[r]) = o.state /\ o.state \in State
    BY <1>3, <2>2 DEF StateOf
  <2>5. object' = [object EXCEPT ![pass[r]] = w]
    BY <2>1
  <2>6. w.state = o.state \/ w.state \in OfferedTo(pass[r])
    BY <1>4, <2>2, <2>3
  <2> HIDE DEF w, o
  <2> QED
    BY <1>1, <1>2, <1>3, <2>3, <2>4, <2>5, <2>6 DEF State
<1>7. CASE Withdraw(r)
  <2> DEFINE o == object[pass[r]]
             w == [o EXCEPT !.class = named[r][1], !.state = "EXPIRED", !.by = r]
  <2>1. o \in Object /\ named[r][1] \in Variant
    BY <1>1, <1>7 DEF Withdraw, Design
  <2>2. w \in Object /\ w.state = "EXPIRED"
    BY <2>1 DEF Object, State
  <2>3. object' = [object EXCEPT ![pass[r]] = w]
    BY <1>7 DEF Withdraw
  <2>4. StateOf(pass[r]) \in State
    BY <1>3, <2>1 DEF StateOf
  <2> HIDE DEF w, o
  <2> QED
    BY <1>1, <1>2, <2>2, <2>3, <2>4 DEF State
<1> QED
  BY <1>1, <1>5, <1>6, <1>7 DEF Push

\* Every step is one of PassLifecycle: a push while what is offered stays, or another
\* offer while the passes stay.
LEMMA LifecycleStep ==
    IndInv /\ [Next]_vars =>
        [Lifecycle!Next]_<<[p \in Pass |-> StateOf(p)], [p \in Pass |-> OfferedTo(p)]>>
<1> DEFINE state == [p \in Pass |-> StateOf(p)]
           offered == [p \in Pass |-> OfferedTo(p)]
<1> SUFFICES ASSUME IndInv, [Next]_vars
             PROVE  Lifecycle!Next \/ UNCHANGED <<state, offered>>
  OBVIOUS
<1>0. ASSUME NEW p \in Pass, Lifecycle!Withdraw(p) \/ Lifecycle!Revive(p)
      PROVE  Lifecycle!Next
  BY <1>0, Zenon DEF Lifecycle!Next
<1>1. ASSUME UNCHANGED object
      PROVE  Lifecycle!Next
  <2>1. state' = state
    BY <1>1 DEF StateOf
  <2>2. offered' \in [Pass -> SUBSET {"ACTIVE", "EXPIRED"}]
    BY DEF OfferedTo, State
  <2>3. Lifecycle!Offer
    BY <2>1, <2>2 DEF Lifecycle!Offer, StateOf, OfferedTo
  <2> QED
    BY <2>3 DEF Lifecycle!Next
<1>2. ASSUME NEW r \in Request, Push(r), Deliver(r) \/ LoseAnswer(r)
      PROVE  Lifecycle!Next \/ UNCHANGED <<state, offered>>
  <2>1. pc[r] \in {"resolved", "bound"} /\ pc \in [Request -> Stage]
    BY <1>2, StageBeforeDelivery DEF IndInv, TypeOK
  <2>2. Held' = Held /\ UNCHANGED <<op, pass, spec, authored>>
    BY <1>2, <2>1 DEF Deliver, LoseAnswer, Goto, Held, templates, call
  <2>3. offered' = offered
    BY <2>2 DEF OfferedTo, Offers
  <2>4. CASE UNCHANGED object
    BY <1>1, <2>4
  <2>5. ASSUME NEW s \in State,
               state' = [state EXCEPT ![pass[r]] = s],
               \/ StateOf(pass[r]) = "none" /\ s \in {"ACTIVE"} \cup OfferedTo(pass[r])
               \/ StateOf(pass[r]) = s
               \/ StateOf(pass[r]) = "ACTIVE" /\ s = "EXPIRED"
               \/ StateOf(pass[r]) = "EXPIRED" /\ s \in OfferedTo(pass[r])
        PROVE  Lifecycle!Next \/ UNCHANGED <<state, offered>>
    <3>1. PICK p \in Pass : p = pass[r]
      BY <1>2, StageBeforeDelivery
    <3>2. CASE StateOf(p) = "none" /\ s \in {"ACTIVE"} \cup OfferedTo(p)
      <4>1. Lifecycle!Create(p, s)
        BY <2>3, <2>5, <3>1, <3>2 DEF Lifecycle!Create, StateOf, OfferedTo
      <4> QED
        BY <4>1 DEF Lifecycle!Next, State
    <3>3. CASE StateOf(p) = s
      BY <2>3, <2>5, <3>1, <3>3
    <3>4. CASE StateOf(p) = "ACTIVE" /\ s = "EXPIRED"
      <4>1. Lifecycle!Withdraw(p)
        BY <2>3, <2>5, <3>1, <3>4 DEF Lifecycle!Withdraw, StateOf, OfferedTo
      <4> QED
        BY <1>0, <4>1
    <3>5. CASE StateOf(p) = "EXPIRED" /\ s = "ACTIVE" /\ s \in OfferedTo(p)
      <4>1. Lifecycle!Revive(p)
        BY <2>3, <2>5, <3>1, <3>5 DEF Lifecycle!Revive, StateOf, OfferedTo
      <4> QED
        BY <1>0, <4>1
    <3> QED
      BY <2>5, <3>1, <3>2, <3>3, <3>4, <3>5 DEF State
  <2> QED
    BY <1>2, <2>2, <2>4, <2>5, PushStep
<1> QED
  BY <1>1, <1>2
     DEF Next, Start, Begin, Step, Specify, FetchFields, Deliver, LoseAnswer, Raise,
         Commit, AuditError, PoolTimeout, Abort, Manage, Sign, vars

\* Racing and repeated creates, updates and withdrawals make one object of a
\* pass, and none of them brings a withdrawn one back but an update whose own
\* content has a state.
THEOREM RefinesLifecycle == Spec => ImplementsLifecycle
<1>1. Init => Lifecycle!Init
  BY DEF Init, Lifecycle!Init, Held
<1>2. IndInv /\ [Next]_vars =>
        [Lifecycle!Next]_
            <<[p \in Pass |-> IF object[p] = None THEN "none" ELSE object[p].state],
              [p \in Pass |->
                 {s \in State : \E r \in Held : pass[r] = p /\ Offers(r, s)}]>>
  BY LifecycleStep DEF StateOf, OfferedTo
<1> QED
  BY <1>1, <1>2, Inductive, PTL DEF Spec, ImplementsLifecycle, Lifecycle!Spec

-----------------------------------------------------------------------------
(***************************************************************************)
(* What holds while the pool has room for every call and one entry more,   *)
(* and nothing fails but the answers of Google.                            *)
(***************************************************************************)
OnlyAnswersFail == Pool > Cardinality(Request) /\ Faults \subseteq {"lost"}

LEMMA AlwaysRoom ==
    ASSUME OnlyAnswersFail
    PROVE  HasRoom
<1>1. Held \subseteq Request
  BY DEF Held
<1>2. IsFiniteSet(Held) /\ Cardinality(Held) <= Cardinality(Request)
  BY <1>1, RequestsFinite, FS_Subset
<1>3. Cardinality(Held) \in Nat /\ Cardinality(Request) \in Nat
  BY <1>2, RequestsFinite, FS_CardinalityType
<1> QED
  BY <1>2, <1>3, PoolNat DEF HasRoom, OnlyAnswersFail

LEMMA AuditStep ==
    ASSUME OnlyAnswersFail
    PROVE  IndInv /\ AuditComplete /\ [Next]_vars => AuditComplete'
<1> SUFFICES ASSUME IndInv, AuditComplete, [Next]_vars,
                    NEW q \in Request, pc'[q] = "ended"
             PROVE  \E e \in Entry : audit'[q] = {e}
  BY DEF AuditComplete
<1> USE DEF IndInv, TypeOK, AuditComplete, EntryAtEnd, Goto
<1>1. CASE pc[q] = "ended" /\ audit'[q] = audit[q]
  BY <1>1
<1>2. ASSUME NEW r \in Request, Commit(r) \/ AuditError(r)
      PROVE  \E e \in Entry : audit'[q] = {e}
  <2>1. CASE q = r
    <3>1. audit[r] = {} /\ named[r] \in Design \cup {None}
      BY <1>2 DEF Commit, AuditError
    <3>2. PICK o \in {"success", "error"} : Log(r, o)
      BY <1>2 DEF Commit, AuditError
    <3> DEFINE e == [outcome |-> o, version |-> named[r]]
    <3>3. e \in Entry
      BY <3>1 DEF Entry
    <3>4. audit'[r] = {e}
      BY <3>1, <3>2 DEF Log
    <3> QED
      BY <2>1, <3>3, <3>4
  <2>2. CASE q # r
    BY <1>2, <2>2 DEF Commit, AuditError, Log
  <2> QED
    BY <2>1, <2>2
<1>3. ASSUME NEW r \in Request, PoolTimeout(r) \/ Abort(r)
      PROVE  FALSE
  BY <1>3, AlwaysRoom DEF PoolTimeout, Abort, OnlyAnswersFail
<1>4. CASE \A r \in Request : ~Commit(r) /\ ~AuditError(r)
  BY <1>1, <1>3, <1>4
     DEF Next, Start, Begin, Step, Specify, FetchFields, Deliver, LoseAnswer,
         Raise, Manage, vars
<1> QED
  BY <1>2, <1>4

\* Every call leaves exactly one entry, when the pool has room and no commit
\* fails: the conditions the runs on the pool and on commits show to be needed.
THEOREM EveryCallAudited ==
    ASSUME OnlyAnswersFail
    PROVE  Spec => []AuditComplete
<1>1. Init => AuditComplete
  BY DEF Init, AuditComplete
<1>2. IndInv /\ AuditComplete /\ [Next]_vars => AuditComplete'
  BY AuditStep
<1> QED
  BY <1>1, <1>2, Inductive, PTL DEF Spec

LEMMA AccountStep ==
    ASSUME OnlyAnswersFail
    PROVE  IndInv /\ EffectAccounted /\ [Next]_vars => EffectAccounted'
<1> DEFINE Accounts(r, p) ==
        /\ pass[r] = p /\ op[r] \in Rendering
        /\ spec[r] = object[p].design
        /\ r \in Held \/ audit[r] # {}
<1> SUFFICES ASSUME IndInv, EffectAccounted, [Next]_vars,
                    NEW p \in Pass, object'[p] # None
             PROVE  \E r \in Request : Accounts(r, p)'
  BY DEF EffectAccounted
<1> USE DEF IndInv, TypeOK, EntryAtEnd, Held, Goto
<1>1. ASSUME NEW r \in Request, Accounts(r, p), object[p].design \in Design,
             object'[p].design = object[p].design
      PROVE  Accounts(r, p)'
  <2>1. pc[r] # "new" /\ spec[r] # None
    BY <1>1 DEF CallOfStage
  <2>2. UNCHANGED <<pass[r], op[r], spec[r]>>
    BY <2>1
       DEF CallOfStage, Next, Start, Begin, Step, Specify, FetchFields,
           Deliver, LoseAnswer, Raise, Commit, AuditError, PoolTimeout,
           Abort, Manage, vars, call
  <2>3. pc'[r] # "ended" \/ audit'[r] # {}
    <3>1. ASSUME NEW q \in Request, Commit(q) \/ AuditError(q)
          PROVE  pc'[r] # "ended" \/ audit'[r] # {}
      <4>1. PICK o \in {"success", "error"} : Log(q, o)
        BY <3>1 DEF Commit, AuditError
      <4>2. CASE q = r
        BY <4>1, <4>2 DEF Log
      <4>3. CASE q # r
        BY <1>1, <3>1, <4>3 DEF Commit, AuditError, Log
      <4> QED
        BY <4>2, <4>3
    <3>2. ASSUME NEW q \in Request, PoolTimeout(q) \/ Abort(q)
          PROVE  FALSE
      BY <3>2, AlwaysRoom DEF PoolTimeout, Abort, OnlyAnswersFail
    <3>3. CASE \A q \in Request : ~Commit(q) /\ ~AuditError(q)
      BY <1>1, <3>2, <3>3
         DEF Next, Start, Begin, Step, Specify, FetchFields, Deliver,
             LoseAnswer, Raise, Manage, vars
    <3> QED
      BY <3>1, <3>3
  <2>4. pc'[r] # "new"
    BY <2>1
       DEF Next, Start, Begin, Step, Specify, FetchFields, Deliver,
           LoseAnswer, Raise, Commit, AuditError, PoolTimeout, Abort,
           Manage, vars
  <2> QED
    BY <1>1, <2>2, <2>3, <2>4
<1>2. CASE object[p] # None /\ object'[p].design = object[p].design
  <2>1. object[p].design \in Design
    BY <1>2 DEF Object
  <2> QED
    BY <1>1, <1>2, <2>1 DEF EffectAccounted
<1>3. CASE object[p] = None \/ object'[p].design # object[p].design
  <2>1. PICK r \in Request : Push(r) /\ (Deliver(r) \/ LoseAnswer(r))
    BY <1>3
       DEF Next, Start, Begin, Step, Specify, FetchFields, Deliver, LoseAnswer,
           Raise, Commit, AuditError, PoolTimeout, Abort, Manage, Sign, vars
  <2>2. pass[r] \in Pass /\ spec'[r] = spec[r] /\ op'[r] = op[r] /\ pass'[r] = pass[r]
    BY <2>1, StageBeforeDelivery DEF Deliver, LoseAnswer, call
  <2>3. pc'[r] \in {"delivered", "failing"}
    BY <2>1 DEF Deliver, LoseAnswer
  <2>4. op[r] \in Rendering /\ pass[r] = p /\ object'[p].design = spec[r]
    <3>1. CASE CreateObject(r)
      <4>1. PICK s \in authored[spec[r]] :
                object' = IF object[pass[r]] = None
                            THEN [object EXCEPT ![pass[r]] = Built(r, s)]
                            ELSE object
        BY <3>1 DEF CreateObject
      <4>2. Built(r, s).design = spec[r] /\ op[r] \in Rendering
        BY <2>1, <3>1, BuiltIsObject DEF CreateObject, Rendering
      <4> QED
        BY <1>3, <2>2, <4>1, <4>2
    <3>2. CASE UpdateObject(r)
      <4>1. PICK s \in authored[spec[r]] :
                object' = [object EXCEPT ![pass[r]] = Patched(object[pass[r]], r, s)]
        BY <3>2 DEF UpdateObject
      <4>2. Patched(object[pass[r]], r, s).design = spec[r] /\ op[r] \in Rendering
        BY <2>1, <2>2, <3>2, PatchedIsObject DEF UpdateObject, Rendering
      <4> QED
        BY <1>3, <2>2, <4>1, <4>2
    <3>3. CASE Withdraw(r)
      BY <1>3, <2>2, <3>3 DEF Withdraw, Object
    <3> QED
      BY <2>1, <3>1, <3>2, <3>3 DEF Push
  <2> QED
    BY <2>2, <2>3, <2>4
<1> QED
  BY <1>2, <1>3

\* Nothing at Google without an open call or an entry behind it, under the same
\* conditions, however many answers of Google are lost.
THEOREM EffectsTraceable ==
    ASSUME OnlyAnswersFail
    PROVE  Spec => []EffectAccounted
<1>1. Init => EffectAccounted
  BY DEF Init, EffectAccounted
<1>2. IndInv /\ EffectAccounted /\ [Next]_vars => EffectAccounted'
  BY AccountStep
<1> QED
  BY <1>1, <1>2, Inductive, PTL DEF Spec
=============================================================================

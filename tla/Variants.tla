------------------------------ MODULE Variants ------------------------------
(***************************************************************************)
(* The default flag of the variants of one template and one wallet type    *)
(* (services/templates.py: create_variant, update_variant).                *)
(*                                                                         *)
(* Requests run as transactions, as in TemplateVersions: a statement reads *)
(* what is committed, a written row is held until the end of its request,  *)
(* and unique indexes guard the key of a variant and the default flag.     *)
(* The unit of work writes a column only if its value differs from the one *)
(* it has loaded, and rereading a row does not refresh what is loaded.     *)
(***************************************************************************)
EXTENDS FiniteSets

CONSTANTS
    Request,
    Variant,        \* the keys variants can have
    None

ASSUME NoneIsNew == None \notin Request \cup Variant
ASSUME NoneIsNoFlag == None \notin {"plain", "default"}

Flag == {"none", "plain", "default"}    \* "none": no such variant

Stage == {"idle", "loaded", "found", "cleared", "marking", "done"}

VARIABLES
    flag,               \* committed
    holder, image,      \* who holds a row, and what it will leave there
    pc, op, target, want,
    loaded,             \* the flag of the target the session knows of
    found               \* the default _unset_default has selected

table == <<flag, holder, image>>
call == <<op, target, want>>
vars == <<table, pc, call, loaded, found>>

-----------------------------------------------------------------------------
\* What a statement of r reads.
View(r, v) == IF holder[v] = r THEN image[v] ELSE flag[v]

NoIndex(r) == {}        \* mutant: the index is missing

\* Other rows with an entry in uq_variant_default that r does not take away.
DefaultRivals(r) ==
    {w \in Variant \ {target[r]} :
        /\ want[r] = "default" /\ pc[r] = "marking"
        /\ \/ flag[w] = "default" /\ holder[w] # r
           \/ image[w] = "default" /\ holder[w] # None}

\* The row r is about to write.
NextRow(r) ==
    {w \in Variant : \/ pc[r] = "found" /\ w = found[r]
                     \/ pc[r] = "cleared" /\ w = target[r]}

WaitsFor(r, q) ==
    q # r /\ \E w \in NextRow(r) \cup DefaultRivals(r) : holder[w] = q

Free(r) == \A q \in Request : ~WaitsFor(r, q)

\* A committed row violates a unique index: the statement raises IntegrityError.
Violates(r) ==
    \/ \E w \in DefaultRivals(r) : holder[w] = None
    \/ /\ op[r] = "create" /\ pc[r] = "cleared"
       /\ flag[target[r]] # "none" /\ holder[target[r]] \in {r, None}

\* r is on a cycle of transactions that wait for each other: whom it waits for
\* waits, directly or through others, for r.
Deadlocked(r) ==
    \E q \in Request :
        /\ WaitsFor(r, q)
        /\ \A C \in SUBSET Request :
              q \in C /\ (\A p \in C, s \in Request : WaitsFor(p, s) => s \in C)
              => r \in C

-----------------------------------------------------------------------------
Init ==
    /\ flag = [v \in Variant |-> "none"]
    /\ holder = [v \in Variant |-> None]
    /\ image = [v \in Variant |-> "none"]
    /\ pc = [r \in Request |-> "idle"]
    /\ op = [r \in Request |-> "create"]
    /\ target = [r \in Request |-> None]
    /\ want = [r \in Request |-> None]
    /\ loaded = [r \in Request |-> None]
    /\ found = [r \in Request |-> None]

Goto(r, stage) == pc' = [pc EXCEPT ![r] = stage]

Hold(r, v, f) ==
    /\ holder' = [holder EXCEPT ![v] = r]
    /\ image' = [image EXCEPT ![v] = f]
    /\ UNCHANGED flag

\* Mutant of Begin: the default is looked for and cleared whatever is asked.
BeginUnsetAlways(r, o, v, w) ==
    /\ pc[r] = "idle"
    /\ o = "update" => flag[v] # "none"
    /\ o = "create" => w # None
    /\ op' = [op EXCEPT ![r] = o]
    /\ target' = [target EXCEPT ![r] = v]
    /\ want' = [want EXCEPT ![r] = w]
    /\ loaded' = [loaded EXCEPT ![r] = IF o = "update" THEN flag[v] ELSE None]
    /\ Goto(r, "loaded")
    /\ UNCHANGED <<table, found>>

\* A call of create_variant or of update_variant; only the latter loads a row,
\* and may leave the flag out.
Begin(r, o, v, w) ==
    /\ pc[r] = "idle"
    /\ o = "update" => flag[v] # "none"
    /\ o = "create" => w # None
    /\ op' = [op EXCEPT ![r] = o]
    /\ target' = [target EXCEPT ![r] = v]
    /\ want' = [want EXCEPT ![r] = w]
    /\ loaded' = [loaded EXCEPT ![r] = IF o = "update" THEN flag[v] ELSE None]
    /\ Goto(r, IF w = "default" THEN "loaded" ELSE "cleared")
    /\ UNCHANGED <<table, found>>

\* A patched name is flushed by the query of _unset_default and takes the row.
Rename(r) ==
    /\ pc[r] = "loaded" /\ op[r] = "update"
    /\ holder[target[r]] = None
    /\ Hold(r, target[r], flag[target[r]])
    /\ UNCHANGED <<pc, call, loaded, found>>

\* _unset_default: the SELECT ...
FindDefault(r) ==
    /\ pc[r] = "loaded"
    /\ \/ \E v \in Variant : /\ View(r, v) = "default"
                             /\ found' = [found EXCEPT ![r] = v]
       \/ /\ \A v \in Variant : View(r, v) # "default"
          /\ found' = [found EXCEPT ![r] = None]
    /\ Goto(r, "found")
    /\ UNCHANGED <<table, call, loaded>>

\* Mutant of ClearDefault: the cleared flag is committed at once.
ClearAndCommit(r) ==
    /\ pc[r] = "found" /\ Free(r)
    /\ flag' = IF found[r] = None THEN flag
               ELSE [flag EXCEPT ![found[r]] = "plain"]
    /\ Goto(r, "cleared")
    /\ UNCHANGED <<holder, image, call, loaded, found>>

\* ... and the UPDATE, unless the session believes the flag is clear already.
ClearDefault(r) ==
    /\ pc[r] = "found" /\ Free(r)
    /\ IF found[r] = None \/ (found[r] = target[r] /\ loaded[r] = "plain")
         THEN UNCHANGED <<table, loaded>>
         ELSE /\ Hold(r, found[r], "plain")
              /\ loaded' = IF found[r] = target[r]
                             THEN [loaded EXCEPT ![r] = "plain"] ELSE loaded
    /\ Goto(r, "cleared")
    /\ UNCHANGED <<call, found>>

\* Mutant of Writes: a patch only ever unsets the flag.
WritesUnset(r) == op[r] = "create" \/ want[r] = "plain"

\* Whether the last flush writes the flag.
Writes(r) == op[r] = "create" \/ (want[r] # None /\ want[r] # loaded[r])

\* The INSERT or UPDATE takes its row, then enters the index.
TakeTarget(r) ==
    /\ pc[r] = "cleared" /\ Writes(r) /\ Free(r) /\ ~Violates(r)
    /\ Hold(r, target[r], View(r, target[r]))
    /\ Goto(r, "marking")
    /\ UNCHANGED <<call, loaded, found>>

MarkTarget(r) ==
    /\ pc[r] = "marking" /\ Free(r) /\ ~Violates(r)
    /\ Hold(r, target[r], want[r])
    /\ Goto(r, "done")
    /\ UNCHANGED <<call, loaded, found>>

\* The flag has the value the session has loaded: there is nothing to write.
SkipWrite(r) ==
    /\ pc[r] = "cleared" /\ ~Writes(r)
    /\ Goto(r, "done")
    /\ UNCHANGED <<table, call, loaded, found>>

\* Mutant of Close: the connection goes back to the pool with its locks.
LeakSession(r) == Goto(r, "idle") /\ UNCHANGED <<holder, image, call, loaded, found>>

Close(r) ==
    /\ holder' = [v \in Variant |-> IF holder[v] = r THEN None ELSE holder[v]]
    /\ image' = [v \in Variant |-> IF holder[v] = r THEN "none" ELSE image[v]]
    /\ Goto(r, "idle")
    /\ op' = [op EXCEPT ![r] = "create"]
    /\ target' = [target EXCEPT ![r] = None]
    /\ want' = [want EXCEPT ![r] = None]
    /\ loaded' = [loaded EXCEPT ![r] = None]
    /\ found' = [found EXCEPT ![r] = None]

Commit(r) ==
    /\ pc[r] = "done"
    /\ flag' = [v \in Variant |-> View(r, v)]
    /\ Close(r)

Rollback(r) == UNCHANGED flag /\ Close(r)

\* A credential set that is not the tenant's, or a crash.
Refuse(r) == pc[r] # "idle" /\ Rollback(r)

IntegrityFailure(r) == Violates(r) /\ Rollback(r)

DeadlockVictim(r) == Deadlocked(r) /\ Rollback(r)

-----------------------------------------------------------------------------
Start(r) ==
    \E o \in {"create", "update"}, v \in Variant,
       w \in {"plain", "default", None} : Begin(r, o, v, w)

Step(r) ==
    \/ FindDefault(r) \/ ClearDefault(r) \/ TakeTarget(r) \/ MarkTarget(r)
    \/ SkipWrite(r) \/ Commit(r) \/ IntegrityFailure(r) \/ DeadlockVictim(r)

Next == \E r \in Request : Start(r) \/ Rename(r) \/ Step(r) \/ Refuse(r)

Spec == Init /\ [][Next]_vars

(***************************************************************************)
(* Statements return once their locks are free, and PostgreSQL breaks a    *)
(* deadlock: a request that can take a step takes one.  A request that     *)
(* waits gets its lock before others start over for ever.                  *)
(***************************************************************************)
Fairness == \A r \in Request : SF_vars(Step(r))

FairSpec == Spec /\ Fairness

(***************************************************************************)
(* Properties.                                                             *)
(***************************************************************************)
TypeOK ==
    /\ flag \in [Variant -> Flag]
    /\ holder \in [Variant -> Request \cup {None}]
    /\ image \in [Variant -> Flag]
    /\ pc \in [Request -> Stage]
    /\ op \in [Request -> {"create", "update"}]
    /\ target \in [Request -> Variant \cup {None}]
    /\ want \in [Request -> {"plain", "default", None}]
    /\ loaded \in [Request -> {"plain", "default", None}]
    /\ found \in [Request -> Variant \cup {None}]

Defaults == {v \in Variant : flag[v] = "default"}

\* No request ever sees two defaults, committed or its own: the SELECTs for the
\* default, which take one row or none, do not raise.
OneDefault ==
    \A r \in Request : \A v, w \in Variant :
        View(r, v) = "default" /\ View(r, w) = "default" => v = w

\* Callers who omit the variant lose it only by an explicit unset, or by a call
\* that makes a variant the default which it has read as the default.
LossExplained ==
    [][Defaults # {} /\ Defaults' = {} =>
        \E r \in Request : /\ pc[r] = "done" /\ pc'[r] = "idle"
                           /\ op[r] = "update"
                           /\ want[r] = "plain" \/ loaded[r] = "default"]_vars

\* A call that asks for the flag, and succeeds, has set it, whoever else asks:
\* unless it had read the flag as set.
SetTakesEffect ==
    [][\A r \in Request :
        /\ pc[r] = "done" /\ want[r] = "default" /\ loaded[r] # "default"
        /\ Commit(r)
        => flag'[target[r]] = "default"]_vars

\* Only calls that set the flag can deadlock, over the old default and the new: who
\* creates or patches a variant without it is never the victim of a race for it.
OnlySettersDeadlock ==
    \A r \in Request : Deadlocked(r) => want[r] = "default"

(***************************************************************************)
(* The inductive invariant.                                                *)
(***************************************************************************)
\* r has an entry for v in the index, or will have it when it commits.
Marks(r, v) == holder[v] = r /\ image[v] = "default"

\* The index: beside a committed default, and beside one about to be committed,
\* there is no other, except one that the same request clears.
Exclusive ==
    \A v, w \in Variant : v # w =>
        /\ flag[v] = "default" => flag[w] # "default"
        /\ \A r \in Request : Marks(r, v) =>
               /\ flag[w] = "default" => holder[w] = r
               /\ \A q \in Request : ~Marks(q, w)

\* What a request holds.
Holdings ==
    \A r \in Request, v \in Variant : holder[v] = r =>
        /\ pc[r] # "idle" /\ want[r] # None
        /\ v # target[r] => want[r] = "default" /\ image[v] # "default"
        /\ want[r] = "plain" => pc[r] \in {"marking", "done"}

\* What a call has asked for, and what it has done when it is about to commit.
CallOfStage ==
    \A r \in Request :
        /\ pc[r] # "idle" => target[r] \in Variant
        /\ pc[r] # "idle" /\ op[r] = "create" => want[r] # None
        /\ pc[r] # "idle" /\ op[r] = "update" => loaded[r] # None
        /\ pc[r] \in {"loaded", "found"} => want[r] = "default"
        /\ pc[r] = "marking" => want[r] # None /\ holder[target[r]] = r
        /\ /\ pc[r] = "done" /\ want[r] = "default"
           /\ op[r] = "create" \/ loaded[r] = "plain"
           => Marks(r, target[r])
        /\ pc[r] \in {"marking", "done"} /\ op[r] = "create" =>
              flag[target[r]] = "none" /\ holder[target[r]] = r

IndInv == TypeOK /\ Exclusive /\ Holdings /\ CallOfStage

\* Every request ends, also one in a deadlock.
RequestsEnd == \A r \in Request : pc[r] # "idle" ~> pc[r] = "idle"
=============================================================================

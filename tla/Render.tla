------------------------------- MODULE Render -------------------------------
(***************************************************************************)
(* The render path (services/render.py): creating, updating and           *)
(* withdrawing passes while templates are published and the default        *)
(* variant moves.                                                          *)
(*                                                                         *)
(* A call resolves the variant and version it will name in its audit entry *)
(* and its answer, resolves them again inside build_render_spec, fetches   *)
(* the person's fields, signs an Apple bundle or pushes an object to       *)
(* Google, and writes the success entry in the request's transaction, which *)
(* get_session commits.  A failure writes an error entry on a connection of *)
(* its own before the request's transaction is rolled back.  All versions  *)
(* live in a VersionRegistry, the abstraction TemplateVersions implements; *)
(* Google Wallet, the data provider and the connection pool are external.  *)
(***************************************************************************)
EXTENDS Naturals, FiniteSets

CONSTANTS
    Request,    \* calls; each is made once, a retry is another call
    Pass,       \* pass ids, the serial number or, with one issuer, the object id
    Variant,    \* variants of one template and one wallet type
    Ops,        \* the operations the callers use
    Pool,       \* connections of the engine's pool
    Faults,     \* what may fail in the environment: see AllFaults
    Contents,   \* what authors write of a state into object_json: see AllContents
    MaxNumber,  \* bound on the versions of a variant
    None

AllFaults == {"lost", "commit", "crash"}

\* ACTIVE stands for every state of Google but EXPIRED, also for one never set.
State == {"ACTIVE", "EXPIRED"}

\* The states object_json may have once its placeholders are resolved: None if it
\* has no state, one if the author has written one, any if it is a placeholder.
AllContents == {{None}} \cup ((SUBSET State) \ {{}})

Rendering == {"create", "update"}

AllOps == Rendering \cup {"deactivate", "save_link"}

ASSUME RequestsFinite == IsFiniteSet(Request)
ASSUME PoolNat == Pool \in Nat
ASSUME FaultsKnown == Faults \subseteq AllFaults
ASSUME CallsKnown == Ops \subseteq AllOps
ASSUME ContentsKnown == Contents # {} /\ Contents \subseteq AllContents
ASSUME BoundNat == MaxNumber \in Nat

Number == 1..MaxNumber

Stage == {"new", "resolved", "specified", "bound", "delivered", "failing",
          "ended"}

\* A version of a variant: what _resolve returns.
Design == Variant \X Number

\* An object at Google: the class and the content it was last written with, its
\* state, and (history) the call that set the state last.
Object == [class : Variant, design : Design, state : State, by : Request]

Entry == [outcome : {"success", "error"}, version : Design \cup {None}]

ASSUME NoneIsNothing ==
    None \notin Variant \cup Pass \cup AllOps \cup Design \cup Object \cup State

VARIABLES
    count, current,     \* the version registry of every variant
    default,            \* the default variant, or None
    wallet_type,        \* the wallet type of the variants
    authored,           \* what the object_json of a version says of the state
    object,             \* the object of a pass at Google, or None
    audit,              \* committed audit entries of a call
    pc, op, pass,       \* where a call is, and what it asks for
    key, pin,           \* its variant_key (None: default) and version number (0: published)
    named,              \* what _resolve returned: the audit entry and the answer
    spec                \* what build_render_spec resolved

templates == <<count, current, default, wallet_type, authored>>
call == <<op, pass, key, pin>>
vars == <<templates, object, audit, pc, call, named, spec>>

Google == wallet_type = "google"

Registry == INSTANCE VersionRegistry

-----------------------------------------------------------------------------
IgnorePin(k, n) ==      \* mutant: a pinned version is not honoured
    {d \in Design : /\ d[1] = IF k = None THEN default ELSE k
                    /\ d[2] = current[d[1]]}

\* The row _resolve and build_render_spec find, if any.  Their SELECTs of the
\* variant and of its version are one step: a default that moves between them
\* gives a pair no property tells from another.
Resolve(k, n) ==
    {d \in Design : /\ d[1] = IF k = None THEN default ELSE k
                    /\ IF n = 0 THEN d[2] = current[d[1]]
                                ELSE d[2] = n /\ n <= count[d[1]]}

\* A request holds its connection from its first statement to its end.
Held == {r \in Request : pc[r] \notin {"new", "ended"}}

HasRoom == Cardinality(Held) < Pool

Init ==
    /\ Registry!Init
    /\ default \in Variant \cup {None}
    /\ wallet_type \in {"apple", "google"}
    /\ authored \in [Design -> IF Google THEN Contents ELSE {{None}}]
    /\ object = [p \in Pass |-> None]
    /\ audit = [r \in Request |-> {}]
    /\ pc = [r \in Request |-> "new"]
    /\ op = [r \in Request |-> None]
    /\ pass = [r \in Request |-> None]
    /\ key = [r \in Request |-> None]
    /\ pin = [r \in Request |-> 0]
    /\ named = [r \in Request |-> None]
    /\ spec = [r \in Request |-> None]

Goto(r, stage) == pc' = [pc EXCEPT ![r] = stage]

\* Mutant of Begin: a withdrawal refuses an Apple type before its try block.
RefuseOutside(r, o, p, k, n) ==
    /\ pc[r] = "new" /\ HasRoom
    /\ o = "deactivate" /\ ~Google
    /\ Goto(r, "ended")
    /\ UNCHANGED <<templates, object, audit, call, named, spec>>

\* The call and its first resolution.  save_link refuses an Apple type before
\* anything else; deactivate refuses it as a failure that is audited.
Begin(r, o, p, k, n) ==
    /\ pc[r] = "new" /\ HasRoom
    /\ o \in Ops /\ (o = "save_link" => Google)
    /\ op' = [op EXCEPT ![r] = o]
    /\ pass' = [pass EXCEPT ![r] = p]
    /\ key' = [key EXCEPT ![r] = k]
    /\ pin' = [pin EXCEPT ![r] = n]
    /\ \/ /\ o = "deactivate" => Google
          /\ \E d \in Resolve(k, n) : named' = [named EXCEPT ![r] = d]
          /\ Goto(r, "resolved")
       \/ /\ (o = "deactivate" /\ ~Google) \/ Resolve(k, n) = {}
          /\ UNCHANGED named
          /\ Goto(r, "failing")
    /\ UNCHANGED <<templates, object, audit, spec>>

\* build_render_spec, which resolves once more.
Specify(r) ==
    /\ pc[r] = "resolved" /\ op[r] \in Rendering
    /\ \E d \in Resolve(key[r], pin[r]) : spec' = [spec EXCEPT ![r] = d]
    /\ Goto(r, "specified")
    /\ UNCHANGED <<templates, object, audit, call, named>>

\* fetch_fields and bind: the data provider answers and no rule misses a field.
FetchFields(r) ==
    /\ pc[r] = "specified"
    /\ Goto(r, "bound")
    /\ UNCHANGED <<templates, object, audit, call, named, spec>>

\* What build_google_object makes: the class is the named variant's, the rest is
\* the specification's, a state s of the author's included.
Built(r, s) ==
    [class |-> named[r][1], design |-> spec[r], by |-> r,
     state |-> IF s = None THEN "ACTIVE" ELSE s]

\* acreate; an object that is there already is left alone and counts as success.
CreateObject(r) ==
    /\ op[r] = "create" /\ pc[r] = "bound"
    /\ \E s \in authored[spec[r]] :
          object' = IF object[pass[r]] = None
                      THEN [object EXCEPT ![pass[r]] = Built(r, s)]
                      ELSE object

IgnoreMissing(r) ==     \* mutant: no object to update counts as success, too
    /\ op[r] = "update" /\ pc[r] = "bound"
    /\ object' = IF object[pass[r]] = None
                   THEN object
                   ELSE [object EXCEPT ![pass[r]].design = spec[r]]

ReplaceObject(r) ==     \* mutant: a full replacement instead of a PATCH
    /\ op[r] = "update" /\ pc[r] = "bound" /\ object[pass[r]] # None
    /\ \E s \in authored[spec[r]] :
          object' = [object EXCEPT ![pass[r]] = Built(r, s)]

\* The content pushed onto an object: a PATCH sends what the content has, so that
\* the state stays if the content has none.
Patched(o, r, s) ==
    IF s = None THEN [Built(r, s) EXCEPT !.state = o.state, !.by = o.by]
                ELSE Built(r, s)

\* aupdate of what build_google_object has made.
UpdateObject(r) ==
    /\ op[r] = "update" /\ pc[r] = "bound" /\ object[pass[r]] # None
    /\ \E s \in authored[spec[r]] :
          object' = [object EXCEPT ![pass[r]] = Patched(@, r, s)]

\* aupdate of the id, the class and the state alone.
Withdraw(r) ==
    /\ op[r] = "deactivate" /\ pc[r] = "resolved" /\ object[pass[r]] # None
    /\ object' = [object EXCEPT ![pass[r]] =
                    [@ EXCEPT !.class = named[r][1], !.state = "EXPIRED", !.by = r]]

Push(r) == Google /\ (CreateObject(r) \/ UpdateObject(r) \/ Withdraw(r))

\* Nothing is written elsewhere: an Apple bundle is signed, or a link.
Sign(r) ==
    /\ \/ pc[r] = "bound" /\ ~Google
       \/ pc[r] = "resolved" /\ op[r] = "save_link"
    /\ UNCHANGED object

Deliver(r) ==
    /\ Push(r) \/ Sign(r)
    /\ Goto(r, "delivered")
    /\ UNCHANGED <<templates, audit, call, named, spec>>

\* Google has done it, but the answer does not arrive.
LoseAnswer(r) ==
    /\ "lost" \in Faults /\ Push(r)
    /\ Goto(r, "failing")
    /\ UNCHANGED <<templates, audit, call, named, spec>>

\* Any failure before: no such version any more, a missing field, missing
\* credentials, no object to update, a provider or Google that refuses.
Raise(r) ==
    /\ pc[r] \in {"resolved", "specified", "bound"}
    /\ Goto(r, "failing")
    /\ UNCHANGED <<templates, object, audit, call, named, spec>>

Log(r, o) ==
    audit' = [audit EXCEPT ![r] = @ \cup {[outcome |-> o, version |-> named[r]]}]

\* Mutant of AuditError: the entry is written in the request's transaction and
\* rolled back with it.
LoseError(r) ==
    /\ pc[r] = "failing" /\ HasRoom
    /\ Goto(r, "ended")
    /\ UNCHANGED <<templates, object, audit, call, named, spec>>

\* _write_error_audit, then the rollback.
AuditError(r) ==
    /\ pc[r] = "failing" /\ HasRoom
    /\ Log(r, "error")
    /\ Goto(r, "ended")
    /\ UNCHANGED <<templates, object, call, named, spec>>

NoTimeout(r) == FALSE   \* mutant: the wait for a connection has no limit

\* No second connection within pool_timeout: the write of the entry raises.
PoolTimeout(r) ==
    /\ pc[r] = "failing" /\ ~HasRoom
    /\ Goto(r, "ended")
    /\ UNCHANGED <<templates, object, audit, call, named, spec>>

\* write_audit in the request's transaction, and its commit.
Commit(r) ==
    /\ pc[r] = "delivered"
    /\ Log(r, "success")
    /\ Goto(r, "ended")
    /\ UNCHANGED <<templates, object, call, named, spec>>

\* The commit fails, or the process or its connection goes away.
Abort(r) ==
    /\ \/ "commit" \in Faults /\ pc[r] = "delivered"
       \/ "crash" \in Faults /\ r \in Held
    /\ Goto(r, "ended")
    /\ UNCHANGED <<templates, object, audit, call, named, spec>>

-----------------------------------------------------------------------------
\* Management requests, meanwhile.
Manage ==
    /\ \/ /\ \E x \in Variant :
               \/ count[x] < MaxNumber /\ Registry!AddVersion(x)
               \/ Registry!Publish(x)
          /\ UNCHANGED default
       \/ /\ \E x \in Variant \cup {None} : default' = x
          /\ UNCHANGED <<count, current>>
    /\ UNCHANGED <<wallet_type, authored, object, audit, pc, call, named, spec>>

Start(r) ==
    \E o \in Ops, p \in Pass, k \in Variant \cup {None}, n \in 0..MaxNumber :
        Begin(r, o, p, k, n)

Step(r) ==
    \/ Specify(r) \/ FetchFields(r) \/ Deliver(r) \/ Commit(r)
    \/ AuditError(r) \/ PoolTimeout(r)

Next ==
    \/ \E r \in Request :
        Start(r) \/ Step(r) \/ LoseAnswer(r) \/ Raise(r) \/ Abort(r)
    \/ Manage

Spec == Init /\ [][Next]_vars

(***************************************************************************)
(* Every await of a call ends: by an answer, or by the failure a timeout   *)
(* of the HTTP client or of the pool turns it into.  Management requests   *)
(* and callers owe nothing.                                                *)
(***************************************************************************)
Fairness == \A r \in Request : WF_vars(Step(r) \/ Raise(r))

FairSpec == Spec /\ Fairness

(***************************************************************************)
(* Properties.                                                             *)
(***************************************************************************)
\* The type of every variable.
TypeOK ==
    /\ count \in [Variant -> 0..MaxNumber]
    /\ current \in [Variant -> 0..MaxNumber]
    /\ default \in Variant \cup {None}
    /\ wallet_type \in {"apple", "google"}
    /\ authored \in [Design -> AllContents]
    /\ object \in [Pass -> Object \cup {None}]
    /\ audit \in [Request -> SUBSET Entry]
    /\ pc \in [Request -> Stage]
    /\ op \in [Request -> AllOps \cup {None}]
    /\ pass \in [Request -> Pass \cup {None}]
    /\ key \in [Request -> Variant \cup {None}]
    /\ pin \in [Request -> 0..MaxNumber]
    /\ named \in [Request -> Design \cup {None}]
    /\ spec \in [Request -> Design \cup {None}]

\* "One entry per call with an effect, including failures": a call that has
\* ended has left exactly one entry, its success or its error, not both.
AuditComplete ==
    \A r \in Request : pc[r] = "ended" => \E e \in Entry : audit[r] = {e}

\* A call that may give its object the state s because its content has it.
Offers(r, s) == op[r] \in Rendering /\ spec[r] # None /\ s \in authored[spec[r]]

\* A pass is expired, or its state was set by an update whose content has another.
StaysWithdrawn(p) ==
    \/ object[p].state = "EXPIRED"
    \/ op[object[p].by] = "update" /\ Offers(object[p].by, "ACTIVE")

\* A success is recorded only once Google has it: after a create or an update
\* there is an object, and after a withdrawal it is expired, whatever calls
\* for the same pass came between; unless the last of them to set the state was an
\* update whose object_json says so.
SuccessMeansEffect ==
    \A r \in Request : \A e \in audit[r] :
        /\ e.outcome = "success" /\ Google /\ op[r] # "save_link"
        => /\ object[pass[r]] # None
           /\ op[r] = "deactivate" => StaysWithdrawn(pass[r])

\* What an object shows was put there by a call that is still open or has left
\* an audit entry: also when the answer of Google was lost.
EffectAccounted ==
    \A p \in Pass :
        object[p] # None =>
            \E r \in Request : /\ pass[r] = p /\ op[r] \in Rendering
                              /\ spec[r] = object[p].design
                              /\ (r \in Held \/ audit[r] # {})

\* The success entry and the answer of a rendering call name the version that
\* was rendered.
AuditNamesRendered ==
    \A r \in Request : \A e \in audit[r] :
        e.outcome = "success" /\ op[r] \in Rendering => e.version = spec[r]

\* They do for a call that says which variant and version it wants, whatever is
\* published or made default while it runs.
PinnedAuditNamesRendered ==
    \A r \in Request : \A e \in audit[r] :
        /\ e.outcome = "success" /\ op[r] \in Rendering
        /\ key[r] # None /\ pin[r] # 0
        => e.version = spec[r] /\ spec[r] = <<key[r], pin[r]>>

(***************************************************************************)
(* The inductive invariant: what each stage of a call has established.     *)
(***************************************************************************)
Resolved == {"resolved", "specified", "bound", "delivered"}
Specified == {"specified", "bound", "delivered"}

\* Before the end there is no entry; after it, at most one, and a success names
\* what was resolved first.
EntryAtEnd ==
    \A r \in Request :
        /\ pc[r] # "ended" => audit[r] = {}
        /\ \A e \in audit[r] : e.version = named[r] /\ audit[r] = {e}

Pinned(r) == key[r] # None /\ pin[r] # 0

Succeeded(r) == \E e \in audit[r] : e.outcome = "success"

\* A call that says what it wants has resolved that, both times.
ResolvedAsPinned ==
    \A r \in Request : Pinned(r) =>
        /\ pc[r] \in Resolved \/ Succeeded(r) => named[r] = <<key[r], pin[r]>>
        /\ op[r] \in Rendering /\ (pc[r] \in Specified \/ Succeeded(r)) =>
               spec[r] = <<key[r], pin[r]>>

Delivered(r) == pc[r] = "delivered" \/ Succeeded(r)

\* What SuccessMeansEffect says, from the delivery on.
EffectAtGoogle ==
    \A r \in Request :
        Delivered(r) /\ Google /\ op[r] # "save_link" =>
            /\ object[pass[r]] # None
            /\ op[r] = "deactivate" => StaysWithdrawn(pass[r])

\* The call that set the state of an object was for this pass and has made its push.
SetByCall ==
    \A p \in Pass : object[p] # None =>
        /\ pc[object[p].by] \in {"delivered", "failing", "ended"}
        /\ pass[object[p].by] = p

\* A call that has begun has an operation and a pass, one that has resolved
\* names a version, and only one that renders has a specification.
CallOfStage ==
    \A r \in Request :
        /\ pc[r] # "new" => op[r] # None /\ pass[r] # None
        /\ pc[r] \in Resolved => named[r] # None
        /\ pc[r] \in {"new", "resolved"} => spec[r] = None
        /\ pc[r] \in {"specified", "bound"} => op[r] \in Rendering /\ spec[r] # None

IndInv ==
    /\ TypeOK /\ EntryAtEnd /\ ResolvedAsPinned /\ EffectAtGoogle /\ SetByCall
    /\ CallOfStage

\* Every call ends, also when all of them fail at once and wait for a second
\* connection while each holds its first.
CallsEnd == \A r \in Request : r \in Held ~> pc[r] = "ended"

(***************************************************************************)
(* The objects at Google as passes with a lifecycle.                       *)
(***************************************************************************)
Lifecycle ==
    INSTANCE PassLifecycle WITH
        state <- [p \in Pass |->
                    IF object[p] = None THEN "none" ELSE object[p].state],
        offered <- [p \in Pass |->
                      {s \in State : \E r \in Held : pass[r] = p /\ Offers(r, s)}]

\* Racing and repeated creates make one object, and no create, update or repeated
\* withdrawal brings a withdrawn pass back, unless an update that is still open has
\* a content with a state of its own.
ImplementsLifecycle == Lifecycle!Spec
=============================================================================

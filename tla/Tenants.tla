------------------------------ MODULE Tenants ------------------------------
(***************************************************************************)
(* Tenants and their API clients (services/tenants.py, startup.py,         *)
(* auth.py, ui/routers/tenants.py): replicas that start, crash and start   *)
(* again with another declaration bring the tenant table in line with it   *)
(* under an advisory lock; persons create and revoke clients; calls are    *)
(* let in by two queries, on the client and then on its tenant.            *)
(*                                                                         *)
(* The lock belongs to the transaction: a commit and the end of the        *)
(* connection release it.  What a reconciliation writes is not seen before *)
(* its commit, and no other statement writes to the table, so its flush    *)
(* and its commit are one step.                                            *)
(***************************************************************************)
CONSTANTS
    Replica, Call,
    Tenant, Client,         \* keys of tenants, and identifiers of clients
    Name,                   \* names a tenant can be declared with
    Declarations,           \* settings of a replica: a name for each tenant
                            \* declared, None for the others
    Person, Allowed,        \* persons, and those the UI's allow-lists name
    None

Declaration == [Tenant -> Name \cup {None}]
TenantRow == [name : Name, active : BOOLEAN]
ClientRow == [tenant : Tenant, active : BOOLEAN]
CallState == [client : Client, stage : {"arrived", "known", "authorised"}]

ASSUME DeclarationsFit == Declarations \subseteq Declaration
ASSUME NoneIsNone ==
    None \notin Replica \cup Name \cup TenantRow \cup ClientRow \cup CallState

VARIABLES
    tenant, client,         \* the committed rows, None for one that is missing
    lock,                   \* the replica that holds the advisory lock
    pc, declared, existing, \* of a replica: where it is, its settings, and the
                            \* rows it has read
    call,                   \* the calls being let in
    found                   \* what of a call's client and tenant was active at
                            \* some moment since it arrived

startup == <<lock, pc, declared, existing>>
rows == <<tenant, client>>
vars == <<rows, startup, call, found>>

Init ==
    /\ tenant = [k \in Tenant |-> None]
    /\ client = [c \in Client |-> None]
    /\ lock = None
    /\ pc = [r \in Replica |-> "down"]
    /\ declared = [r \in Replica |-> [k \in Tenant |-> None]]
    /\ existing = [r \in Replica |-> [k \in Tenant |-> None]]
    /\ call = [q \in Call |-> None]
    /\ found = [q \in Call |-> {}]

-----------------------------------------------------------------------------
(* reconcile_declared_tenants, in the lifespan of each replica.            *)

Start(r) ==
    /\ pc[r] = "down"
    /\ \E d \in Declarations : declared' = [declared EXCEPT ![r] = d]
    /\ pc' = [pc EXCEPT ![r] = "starting"]
    /\ UNCHANGED <<rows, lock, existing, call>>

NoLock(r) == TRUE               \* mutant

LockFree(r) == lock = None

TakeLock(r) ==
    /\ pc[r] = "starting" /\ LockFree(r)
    /\ lock' = r
    /\ pc' = [pc EXCEPT ![r] = "locked"]
    /\ UNCHANGED <<rows, declared, existing, call>>

ReadExisting(r) ==
    /\ pc[r] = "locked"
    /\ existing' = [existing EXCEPT ![r] = tenant]
    /\ pc' = [pc EXCEPT ![r] = "read"]
    /\ UNCHANGED <<rows, lock, declared, call>>

\* The row w of the table once the columns that differ from the row e read
\* before are written, for a tenant declared with name n.
RenamedOnly(w, e, n) ==         \* mutant: a tenant that is back stays inactive
    IF e.name # n THEN [name |-> n, active |-> TRUE] ELSE w

Reconciled(w, e, n) ==
    [name |-> IF e.name # n THEN n ELSE w.name,
     active |-> IF e.active THEN w.active ELSE TRUE]

Deactivated(w, e) == [w EXCEPT !.active = IF e.active THEN FALSE ELSE w.active]

Row(k, e, n) ==
    IF e = None
      THEN IF n = None THEN tenant[k] ELSE [name |-> n, active |-> TRUE]
      ELSE IF n = None THEN Deactivated(tenant[k], e)
                       ELSE Reconciled(tenant[k], e, n)

LockKept(r) == lock             \* mutant: the lock outlives the transaction

LockAfter(r) == None

Reconcile(r) ==
    /\ pc[r] = "read"
    /\ tenant' = [k \in Tenant |-> Row(k, existing[r][k], declared[r][k])]
    /\ pc' = [pc EXCEPT ![r] = "serving"]
    /\ existing' = [existing EXCEPT ![r] = [k \in Tenant |-> None]]
    /\ lock' = LockAfter(r)
    /\ UNCHANGED <<client, declared, call>>

\* A replica stops or dies, at any moment.
Stop(r) ==
    /\ pc[r] # "down"
    /\ pc' = [pc EXCEPT ![r] = "down"]
    /\ existing' = [existing EXCEPT ![r] = [k \in Tenant |-> None]]
    /\ lock' = IF lock = r THEN None ELSE lock
    /\ UNCHANGED <<rows, declared, call>>

-----------------------------------------------------------------------------
(* The management UI.                                                      *)

Served == \E r \in Replica : pc[r] = "serving"

IsAuthorised(p) == p \in Allowed

CreateClient(p, k, c) ==
    /\ Served /\ IsAuthorised(p)
    /\ tenant[k] # None /\ client[c] = None
    /\ client' = [client EXCEPT ![c] = [tenant |-> k, active |-> TRUE]]
    /\ UNCHANGED <<tenant, startup, call>>

RevokeClient(p, c) ==
    /\ Served /\ IsAuthorised(p)
    /\ client[c] # None
    /\ client' = [client EXCEPT ![c].active = FALSE]
    /\ UNCHANGED <<tenant, startup, call>>

-----------------------------------------------------------------------------
(* resolve_token.                                                          *)

Arrive(q, c) ==
    /\ Served /\ call[q] = None
    /\ call' = [call EXCEPT ![q] = [client |-> c, stage |-> "arrived"]]
    /\ UNCHANGED <<rows, startup>>

AnyClient(c) == client[c] # None        \* mutant: revoked ones, too

TokenKnown(c) == client[c] # None /\ client[c].active

Proceed(q, allowed, stage) ==
    /\ call' = [call EXCEPT ![q] = IF allowed
                                     THEN [client |-> call[q].client, stage |-> stage]
                                     ELSE None]
    /\ UNCHANGED <<rows, startup>>

LookUpToken(q) ==
    /\ call[q] # None /\ call[q].stage = "arrived"
    /\ Proceed(q, TokenKnown(call[q].client), "known")

TenantActive(c) == tenant[client[c].tenant].active

CheckTenant(q) ==
    /\ call[q] # None /\ call[q].stage = "known"
    /\ Proceed(q, TenantActive(call[q].client), "authorised")

\* The handler of an authorised call is over, or a call is given up.
Leave(q) ==
    /\ call[q] # None
    /\ call' = [call EXCEPT ![q] = None]
    /\ UNCHANGED <<rows, startup>>

-----------------------------------------------------------------------------
(* What of the client and the tenant of a call is active now.              *)
Active(q) ==
    {part \in {"client", "tenant"} :
        /\ call[q] # None /\ client[call[q].client] # None
        /\ IF part = "client" THEN client[call[q].client].active
                              ELSE TenantActive(call[q].client)}

Observe ==
    found' = [q \in Call |-> IF call'[q] = None THEN {} ELSE found[q] \cup Active(q)']

Step(r) == Start(r) \/ TakeLock(r) \/ ReadExisting(r) \/ Reconcile(r) \/ Stop(r)

Change ==
    \/ \E r \in Replica : Step(r)
    \/ \E p \in Person, c \in Client :
        \/ \E k \in Tenant : CreateClient(p, k, c)
        \/ RevokeClient(p, c)
    \/ \E q \in Call :
        \/ \E c \in Client : Arrive(q, c)
        \/ LookUpToken(q) \/ CheckTenant(q) \/ Leave(q)

Next == Change /\ Observe

Spec == Init /\ [][Next]_vars

\* PostgreSQL serves those that wait for the lock in turn.
FairSpec ==
    /\ Spec
    /\ \A r \in Replica :
        /\ SF_vars(TakeLock(r) /\ Observe)
        /\ WF_vars((ReadExisting(r) \/ Reconcile(r)) /\ Observe)

(***************************************************************************)
(* Properties.                                                             *)
(***************************************************************************)
TypeOK ==
    /\ tenant \in [Tenant -> TenantRow \cup {None}]
    /\ client \in [Client -> ClientRow \cup {None}]
    /\ lock \in Replica \cup {None}
    /\ pc \in [Replica -> {"down", "starting", "locked", "read", "serving"}]
    /\ declared \in [Replica -> Declaration]
    /\ existing \in [Replica -> [Tenant -> TenantRow \cup {None}]]
    /\ call \in [Call -> CallState \cup {None}]
    /\ found \in [Call -> SUBSET {"client", "tenant"}]

\* "Two of them starting at once would both find `lmu` missing and both insert
\* it": no replica is about to insert a tenant that is there.
NoDoubleInsert ==
    \A r \in Replica, k \in Tenant :
        pc[r] = "read" /\ existing[r][k] = None /\ declared[r][k] # None =>
            tenant[k] = None

\* The settings are the truth: the table is a TenantTable.  A replica that comes
\* to serve has in that step made exactly the tenants it declares active, under
\* the names it declares, whatever other replicas with other settings have done
\* while it started; and no other step writes to the table.
Table ==
    INSTANCE TenantTable WITH
        settings <- declared, serving <- {r \in Replica : pc[r] = "serving"}

ImplementsTable == Table!Spec

\* A call that arrives after its client was revoked is refused, and so is one
\* whose tenant is inactive from its arrival on: both were active at some moment,
\* if not at the same, of every call that is let in.
AccessExplained ==
    \A q \in Call : call[q] # None /\ call[q].stage = "authorised" =>
        found[q] = {"client", "tenant"}

\* A replica that starts comes to serve, unless it is stopped.
StartsEnd ==
    \A r \in Replica : pc[r] = "starting" ~> pc[r] \in {"serving", "down"}

(***************************************************************************)
(* The inductive invariant: the replica between its read and its commit,   *)
(* and no other, holds the lock, so what it has read is what is there.     *)
(***************************************************************************)
Locked ==
    \A r \in Replica : pc[r] \in {"locked", "read"} <=> lock = r

Configured ==
    \A r \in Replica : pc[r] # "down" => declared[r] \in Declarations

ReadIsCurrent ==
    \A r \in Replica : pc[r] = "read" => existing[r] = tenant

ClientsHaveTenants ==
    \A c \in Client : client[c] # None => tenant[client[c].tenant] # None

CallsExplained ==
    \A q \in Call : call[q] # None =>
        /\ call[q].stage \in {"known", "authorised"} =>
              client[call[q].client] # None /\ "client" \in found[q]
        /\ call[q].stage = "authorised" => "tenant" \in found[q]
        /\ Active(q) \subseteq found[q]

IndInv ==
    /\ TypeOK /\ Locked /\ Configured /\ ReadIsCurrent
    /\ ClientsHaveTenants /\ CallsExplained
=============================================================================

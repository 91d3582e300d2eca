----------------------------- MODULE TenantTable -----------------------------
(***************************************************************************)
(* What the tenant table and its clients promise, however many replicas    *)
(* start, race and die inside: a replica that comes to serve has brought   *)
(* the whole table in line with its own settings in that very step, and    *)
(* nothing else writes to the table.  Rows are never deleted, a client     *)
(* keeps its tenant, and one that is revoked stays so.                     *)
(***************************************************************************)
CONSTANTS Replica, Tenant, Client, Declarations, None

VARIABLES
    settings,       \* of a replica: a name for each tenant declared, or None
    serving,        \* the replicas that serve
    tenant, client  \* the rows, None for one that is missing

Init ==
    /\ settings = [r \in Replica |-> [k \in Tenant |-> None]]
    /\ serving = {}
    /\ tenant = [k \in Tenant |-> None]
    /\ client = [c \in Client |-> None]

Configure(r) ==
    /\ r \notin serving
    /\ \E d \in Declarations : settings' = [settings EXCEPT ![r] = d]
    /\ UNCHANGED <<serving, tenant, client>>

\* The row of a tenant under settings d.
Follow(k, d) ==
    IF d[k] # None      THEN [name |-> d[k], active |-> TRUE]
    ELSE IF tenant[k] = None THEN None
    ELSE [tenant[k] EXCEPT !.active = FALSE]

Serve(r) ==
    /\ r \notin serving /\ settings[r] \in Declarations
    /\ serving' = serving \cup {r}
    /\ tenant' = [k \in Tenant |-> Follow(k, settings[r])]
    /\ UNCHANGED <<settings, client>>

Stop(r) ==
    /\ r \in serving
    /\ serving' = serving \ {r}
    /\ UNCHANGED <<settings, tenant, client>>

Create(c, k) ==
    /\ serving # {} /\ tenant[k] # None /\ client[c] = None
    /\ client' = [client EXCEPT ![c] = [tenant |-> k, active |-> TRUE]]
    /\ UNCHANGED <<settings, serving, tenant>>

Revoke(c) ==
    /\ serving # {} /\ client[c] # None
    /\ client' = [client EXCEPT ![c].active = FALSE]
    /\ UNCHANGED <<settings, serving, tenant>>

Next ==
    \/ \E r \in Replica : Configure(r) \/ Serve(r) \/ Stop(r)
    \/ \E c \in Client : Revoke(c) \/ \E k \in Tenant : Create(c, k)

Spec == Init /\ [][Next]_<<settings, serving, tenant, client>>
=============================================================================

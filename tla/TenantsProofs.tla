--------------------------- MODULE TenantsProofs ---------------------------
(***************************************************************************)
(* Theorems about Tenants, for every set of replicas, tenants, clients,    *)
(* calls and settings.                                                     *)
(***************************************************************************)
EXTENDS Tenants, TLAPS

USE NoneIsNone, DeclarationsFit

LEMMA InitInv == Init => IndInv
  BY DEF Init, IndInv, TypeOK, Locked, Configured, ReadIsCurrent,
         ClientsHaveTenants, CallsExplained, Declaration

\* Steps that leave the two tables and the calls alone leave what was found.
LEMMA CallsUntouched ==
    ASSUME IndInv, UNCHANGED <<tenant, client, call>>, Observe
    PROVE  CallsExplained' /\ found' \in [Call -> SUBSET {"client", "tenant"}]
  BY DEF IndInv, TypeOK, CallsExplained, Observe, Active, TenantActive

LEMMA StartupInv ==
    ASSUME IndInv, NEW r \in Replica, Observe,
           Start(r) \/ TakeLock(r) \/ ReadExisting(r) \/ Stop(r)
    PROVE  IndInv'
<1> USE DEF IndInv
<1>1. UNCHANGED <<tenant, client, call>>
  BY DEF Start, TakeLock, ReadExisting, Stop, rows
<1>2. CallsExplained' /\ found' \in [Call -> SUBSET {"client", "tenant"}]
  BY <1>1, CallsUntouched
<1>3. ClientsHaveTenants'
  BY <1>1 DEF ClientsHaveTenants
<1>4. CASE Start(r)
  BY <1>1, <1>2, <1>3, <1>4
  DEF Start, TypeOK, Locked, Configured, ReadIsCurrent
<1>5. CASE TakeLock(r)
  BY <1>1, <1>2, <1>3, <1>5
  DEF TakeLock, LockFree, TypeOK, Locked, Configured, ReadIsCurrent
<1>6. CASE ReadExisting(r)
  BY <1>1, <1>2, <1>3, <1>6
  DEF ReadExisting, TypeOK, Locked, Configured, ReadIsCurrent
<1>7. CASE Stop(r)
  BY <1>1, <1>2, <1>3, <1>7
  DEF Stop, TypeOK, Locked, Configured, ReadIsCurrent
<1> QED
  BY <1>4, <1>5, <1>6, <1>7

\* With what was read still there, the row written is the one the settings
\* declare, whichever of its columns had to be written for that.
LEMMA RowAsDeclared ==
    ASSUME IndInv, NEW k \in Tenant, NEW d \in Declaration
    PROVE  /\ Row(k, tenant[k], d[k]) = Table!Follow(k, d)
           /\ Table!Follow(k, d) \in TenantRow \cup {None}
           /\ tenant[k] # None => Table!Follow(k, d) # None
<1> DEFINE w == tenant[k]
           n == d[k]
<1>1. w \in TenantRow \cup {None} /\ n \in Name \cup {None} /\ None \notin TenantRow
  BY DEF IndInv, TypeOK, Declaration
<1>2. CASE w = None /\ n = None
  BY <1>1, <1>2 DEF Row, Table!Follow
<1>3. CASE w = None /\ n # None
  BY <1>1, <1>3 DEF Row, Table!Follow, TenantRow
<1>4. CASE w # None /\ n = None
  BY <1>1, <1>4 DEF Row, Deactivated, Table!Follow, TenantRow
<1>5. CASE w # None /\ n # None
  <2>1. w.active \in BOOLEAN /\ n \in Name
    BY <1>1, <1>5 DEF TenantRow
  <2>2. Reconciled(w, w, n) = [name |-> n, active |-> TRUE]
    BY <2>1 DEF Reconciled
  <2>3. [name |-> n, active |-> TRUE] \in TenantRow
    BY <2>1 DEF TenantRow
  <2> QED
    BY <1>1, <1>5, <2>2, <2>3 DEF Row, Table!Follow
<1> QED
  BY <1>1, <1>2, <1>3, <1>4, <1>5

\* What is read under the lock is still there when the reconciliation commits:
\* it writes the table as the abstract replica that comes to serve does.
LEMMA TableWritten ==
    ASSUME IndInv, NEW r \in Replica, Reconcile(r)
    PROVE  /\ declared[r] \in Declaration
           /\ tenant' = [k \in Tenant |-> Table!Follow(k, declared[r])]
<1>1. declared[r] \in Declaration /\ existing[r] = tenant
  BY DEF IndInv, TypeOK, Reconcile, ReadIsCurrent
<1>2. tenant' = [k \in Tenant |-> Row(k, tenant[k], declared[r][k])]
  BY <1>1 DEF Reconcile
<1> QED
  BY <1>1, <1>2, RowAsDeclared

LEMMA ReconcileInv ==
    ASSUME IndInv, NEW r \in Replica, Reconcile(r), Observe
    PROVE  IndInv'
<1> USE DEF IndInv
<1>1. /\ declared[r] \in Declaration
      /\ tenant' = [k \in Tenant |-> Table!Follow(k, declared[r])]
  BY TableWritten
<1>2. /\ tenant' \in [Tenant -> TenantRow \cup {None}]
      /\ \A k \in Tenant : tenant[k] # None => tenant'[k] # None
  BY <1>1, RowAsDeclared
<1>3. TypeOK'
  BY <1>2 DEF Reconcile, LockAfter, TypeOK, Observe, Active
<1>4. Locked' /\ Configured' /\ ReadIsCurrent'
  BY DEF Reconcile, LockAfter, Locked, Configured, ReadIsCurrent, TypeOK
<1>5. ClientsHaveTenants'
  BY <1>2 DEF Reconcile, ClientsHaveTenants, TypeOK, ClientRow
<1>6. CallsExplained'
  BY DEF Reconcile, CallsExplained, Observe, TypeOK
<1> QED
  BY <1>3, <1>4, <1>5, <1>6

LEMMA ClientInv ==
    ASSUME IndInv, NEW p \in Person, NEW c \in Client, Observe,
           (\E k \in Tenant : CreateClient(p, k, c)) \/ RevokeClient(p, c)
    PROVE  IndInv'
<1> USE DEF IndInv
<1>1. PICK row \in ClientRow :
        /\ tenant[row.tenant] # None
        /\ client[c] # None => client[c].tenant = row.tenant
        /\ client' = [client EXCEPT ![c] = row]
        /\ UNCHANGED <<tenant, startup, call>>
  <2>1. CASE \E k \in Tenant : CreateClient(p, k, c)
    <3>1. PICK k \in Tenant : CreateClient(p, k, c)
      BY <2>1
    <3>2. [tenant |-> k, active |-> TRUE] \in ClientRow
      BY DEF ClientRow
    <3> QED
      BY <3>1, <3>2 DEF CreateClient
  <2>2. CASE RevokeClient(p, c)
    <3> DEFINE row == [client[c] EXCEPT !.active = FALSE]
    <3>1. client[c] \in ClientRow /\ tenant[client[c].tenant] # None
      BY <2>2 DEF RevokeClient, TypeOK, ClientsHaveTenants
    <3>2. row \in ClientRow /\ row.tenant = client[c].tenant
      BY <3>1 DEF ClientRow
    <3>3. client' = [client EXCEPT ![c] = row] /\ UNCHANGED <<tenant, startup, call>>
      BY <2>2 DEF RevokeClient
    <3> HIDE DEF row
    <3> QED
      BY <3>1, <3>2, <3>3
  <2> QED
    BY <2>1, <2>2
<1>2. TypeOK'
  <2>1. client' \in [Client -> ClientRow \cup {None}]
    BY <1>1 DEF TypeOK
  <2>2. found' \in [Call -> SUBSET {"client", "tenant"}]
    BY DEF Observe, TypeOK, Active
  <2> QED
    BY <1>1, <2>1, <2>2 DEF TypeOK, startup
<1>3. Locked' /\ Configured' /\ ReadIsCurrent'
  BY <1>1 DEF Locked, Configured, ReadIsCurrent, startup
<1>4. ClientsHaveTenants'
  BY <1>1 DEF ClientsHaveTenants, TypeOK
<1>5. CallsExplained'
  <2>1. ASSUME NEW q \in Call, call'[q] # None
        PROVE  /\ call[q] # None /\ call'[q] = call[q]
               /\ found[q] \subseteq found'[q] /\ Active(q)' \subseteq found'[q]
    BY <1>1, <2>1 DEF Observe
  <2>2. ASSUME NEW d \in Client, client[d] # None
        PROVE  client'[d] # None
    BY <1>1, <2>2 DEF TypeOK
  <2>3. ASSUME NEW q \in Call, call[q] # None
        PROVE  call[q].client \in Client
    BY <2>3 DEF TypeOK, CallState
  <2> QED
    BY <2>1, <2>2, <2>3 DEF CallsExplained
<1> QED
  BY <1>2, <1>3, <1>4, <1>5

LEMMA CallInv ==
    ASSUME IndInv, NEW q \in Call, Observe,
           \/ \E c \in Client : Arrive(q, c)
           \/ LookUpToken(q) \/ CheckTenant(q) \/ Leave(q)
    PROVE  IndInv'
<1> USE DEF IndInv
<1>1. /\ UNCHANGED <<rows, startup>>
      /\ call' \in [Call -> CallState \cup {None}]
      /\ \A o \in Call \ {q} : call'[o] = call[o]
  <2>1. CASE \E c \in Client : Arrive(q, c)
    BY <2>1 DEF Arrive, TypeOK, CallState
  <2>2. ASSUME NEW allowed, NEW stage \in {"known", "authorised"},
               call[q] # None, Proceed(q, allowed, stage)
        PROVE  /\ UNCHANGED <<rows, startup>>
               /\ call' \in [Call -> CallState \cup {None}]
               /\ \A o \in Call \ {q} : call'[o] = call[o]
    <3>1. [client |-> call[q].client, stage |-> stage] \in CallState
      BY <2>2 DEF TypeOK, CallState
    <3> QED
      BY <2>2, <3>1 DEF Proceed, TypeOK
  <2>3. CASE Leave(q)
    BY <2>3 DEF Leave, TypeOK
  <2> QED
    BY <2>1, <2>2, <2>3 DEF LookUpToken, CheckTenant
<1>2. TypeOK'
  BY <1>1 DEF TypeOK, rows, startup, Observe, Active
<1>3. Locked' /\ Configured' /\ ReadIsCurrent' /\ ClientsHaveTenants'
  BY <1>1 DEF Locked, Configured, ReadIsCurrent, ClientsHaveTenants, rows, startup
<1>4. CallsExplained'
  <2>1. ASSUME NEW o \in Call \ {q}, call'[o] # None
        PROVE  found[o] \subseteq found'[o] /\ Active(o)' \subseteq found'[o]
    BY <2>1 DEF Observe
  <2>2. ASSUME call'[q] # None
        PROVE  found[q] \subseteq found'[q] /\ Active(q)' \subseteq found'[q]
    BY <2>2 DEF Observe
  <2>3. call'[q] # None =>
          \/ call'[q].stage = "arrived"
          \/ /\ call[q] # None /\ call'[q].client = call[q].client
             /\ call'[q].stage = "known" /\ TokenKnown(call'[q].client)
          \/ /\ call[q] # None /\ call'[q].client = call[q].client
             /\ call[q].stage = "known" /\ call'[q].stage = "authorised"
             /\ TenantActive(call'[q].client)
    BY DEF Arrive, LookUpToken, CheckTenant, Leave, Proceed, TypeOK, CallState
  <2>4. ASSUME call'[q] # None
        PROVE  /\ call'[q].stage \in {"known", "authorised"} =>
                    client[call'[q].client] # None /\ "client" \in found'[q]
               /\ call'[q].stage = "authorised" => "tenant" \in found'[q]
    <3>1. call'[q].stage = "known" /\ TokenKnown(call'[q].client) =>
            client[call'[q].client] # None /\ "client" \in Active(q)'
      BY <1>1, <2>4 DEF TokenKnown, Active, rows
    <3>2. client[call'[q].client] # None /\ TenantActive(call'[q].client) =>
            "tenant" \in Active(q)'
      BY <1>1, <2>4 DEF TenantActive, Active, rows
    <3> QED
      BY <2>2, <2>3, <2>4, <3>1, <3>2 DEF CallsExplained
  <2> QED
    BY <1>1, <2>1, <2>2, <2>4 DEF CallsExplained, rows
<1> QED
  BY <1>2, <1>3, <1>4

LEMMA InvStep == IndInv /\ [Next]_vars => IndInv'
<1> SUFFICES ASSUME IndInv, [Next]_vars
             PROVE  IndInv'
  OBVIOUS
<1>1. CASE UNCHANGED vars
  BY <1>1 DEF vars, rows, startup, IndInv, TypeOK, Locked, Configured,
              ReadIsCurrent, ClientsHaveTenants, CallsExplained, Active, TenantActive
<1>2. CASE Next
  BY <1>2, StartupInv, ReconcileInv, ClientInv, CallInv DEF Next, Change, Step
<1> QED
  BY <1>1, <1>2

\* A replica between its read and its commit holds the lock, and what it has read
\* is what is there.
THEOREM Invariance == Spec => []IndInv
  BY InitInv, InvStep, PTL DEF Spec

\* The lock does what it is for: no replica inserts a tenant that is there.
THEOREM NeverDoubleInserts == Spec => []NoDoubleInsert
<1>1. IndInv => NoDoubleInsert
  BY DEF IndInv, ReadIsCurrent, NoDoubleInsert
<1> QED
  BY <1>1, Invariance, PTL

\* A call that is let in has a client and a tenant that were active after it came.
THEOREM AccessIsExplained == Spec => []AccessExplained
<1>1. IndInv => AccessExplained
  BY DEF IndInv, TypeOK, CallsExplained, AccessExplained
<1> QED
  BY <1>1, Invariance, PTL
-----------------------------------------------------------------------------
(* Refinement: what a step does to the table is a step of TenantTable.     *)

serving == {r \in Replica : pc[r] = "serving"}

\* A step of a replica shows its settings, its coming and its going; the lock and
\* the read between them do not show.
LEMMA ReplicaSteps ==
    ASSUME IndInv, NEW r \in Replica, Step(r)
    PROVE  [Table!Next]_<<declared, serving, tenant, client>>
<1> USE DEF IndInv, TypeOK
<1>1. CASE Start(r)
  <2>1. r \notin serving /\ serving' = serving
    BY <1>1 DEF Start, serving
  <2>2. Table!Configure(r)
    BY <1>1, <2>1 DEF Start, rows, Table!Configure, serving
  <2> QED
    BY <2>2 DEF Table!Next
<1>2. CASE TakeLock(r) \/ ReadExisting(r)
  <2>1. serving' = serving
    BY <1>2 DEF TakeLock, ReadExisting, serving
  <2> QED
    BY <1>2, <2>1 DEF TakeLock, ReadExisting, rows
<1>3. CASE Reconcile(r)
  <2>1. r \notin serving /\ serving' = serving \cup {r}
    BY <1>3 DEF Reconcile, serving
  <2>2. declared[r] \in Declarations
    BY <1>3 DEF Reconcile, Configured
  <2>3. Table!Serve(r)
    BY <1>3, <2>1, <2>2, TableWritten DEF Reconcile, Table!Serve, serving
  <2> QED
    BY <2>3 DEF Table!Next
<1>4. CASE Stop(r)
  <2>1. UNCHANGED <<declared, tenant, client>> /\ serving' = serving \ {r}
    BY <1>4 DEF Stop, rows, serving
  <2>2. CASE r \in serving
    BY <2>1, <2>2 DEF Table!Next, Table!Stop, serving
  <2>3. CASE r \notin serving
    BY <2>1, <2>3
  <2> QED
    BY <2>2, <2>3
<1> QED
  BY <1>1, <1>2, <1>3, <1>4 DEF Step

\* A step of a person or of a call shows at most in the clients.
LEMMA OtherSteps ==
    ASSUME IndInv, Change, ~ \E r \in Replica : Step(r)
    PROVE  [Table!Next]_<<declared, serving, tenant, client>>
<1>1. serving' = serving /\ UNCHANGED <<declared, tenant>>
  BY DEF Change, CreateClient, RevokeClient, Arrive, LookUpToken, CheckTenant,
         Leave, Proceed, rows, startup, serving
<1>2. ASSUME NEW p \in Person, NEW c \in Client, NEW k \in Tenant,
             CreateClient(p, k, c)
      PROVE  Table!Create(c, k)
  BY <1>1, <1>2 DEF CreateClient, Served, Table!Create, serving
<1>3. ASSUME NEW p \in Person, NEW c \in Client, RevokeClient(p, c)
      PROVE  Table!Revoke(c)
  BY <1>1, <1>3 DEF RevokeClient, Served, Table!Revoke, serving
<1>4. ASSUME NEW q \in Call,
             \/ \E c \in Client : Arrive(q, c)
             \/ LookUpToken(q) \/ CheckTenant(q) \/ Leave(q)
      PROVE  client' = client
  BY <1>4 DEF Arrive, LookUpToken, CheckTenant, Leave, Proceed, rows
<1> QED
  BY <1>1, <1>2, <1>3, <1>4 DEF Change, Table!Next

\* The tenant table implements TenantTable: the settings of a replica that comes to
\* serve take effect at once and as a whole, although it reads, decides and writes
\* row by row while others start, stop and die.
THEOREM RefinesTable == Spec => ImplementsTable
<1>1. Init => Table!Init
  BY DEF Init, Table!Init
<1>2. IndInv /\ [Next]_vars => [Table!Next]_<<declared, serving, tenant, client>>
  <2>1. CASE UNCHANGED vars
    BY <2>1 DEF vars, rows, startup, serving
  <2> QED
    BY <2>1, ReplicaSteps, OtherSteps DEF Next
<1> QED
  BY <1>1, <1>2, Invariance, PTL DEF Spec, ImplementsTable, Table!Spec, serving
=============================================================================

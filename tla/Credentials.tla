----------------------------- MODULE Credentials -----------------------------
(***************************************************************************)
(* Credential sets (services/credentials.py): created with a fresh key,    *)
(* imported, given a certificate, renewed and revoked by racing requests.  *)
(*                                                                         *)
(* install_certificate and revoke load a row, assign its columns and write *)
(* back, in one UPDATE, the columns whose value differs from the one       *)
(* loaded.  The row is locked from that UPDATE to the commit, so both are  *)
(* one step here; other operations insert rows of their own and are one    *)
(* step altogether.                                                        *)
(***************************************************************************)
CONSTANTS
    Request,
    Set,            \* credential sets
    Key, Cert,      \* private keys, and certificates Apple has issued
    KeyOf,          \* the key a certificate is for
    InfoOf,         \* what parse_apple_certificate finds in it for one column
    None

Info == {InfoOf[c] : c \in Cert}

Row == [provider : {"apple", "google"},
        status : {"key_pending", "active", "revoked"},
        key : Key \cup {None},      \* the secret blob of an Apple set
        cert : Cert \cup {None},    \* certificate_pem
        info : Info \cup {None}]    \* a column derived from it

ASSUME CertificateHasKey == KeyOf \in [Cert -> Key]
ASSUME CertificateHasInfo == InfoOf \in [Cert -> Info]
ASSUME NoneIsNew == None \notin Set \cup Key \cup Cert \cup Info \cup Row

VARIABLES
    row,                \* the committed sets, None for one that is not there
    pc, op, set, cert,  \* where a request is, and what it asks for
    loaded              \* the row it has loaded

call == <<op, set, cert>>
vars == <<row, pc, call, loaded>>

Sets == {s \in Set : row[s] # None}

Init ==
    /\ row = [s \in Set |-> None]
    /\ pc = [r \in Request |-> "idle"]
    /\ op = [r \in Request |-> None]
    /\ set = [r \in Request |-> None]
    /\ cert = [r \in Request |-> None]
    /\ loaded = [r \in Request |-> None]

-----------------------------------------------------------------------------
Insert(s, new) ==
    /\ row[s] = None
    /\ row' = [row EXCEPT ![s] = new]
    /\ UNCHANGED <<pc, call, loaded>>

\* generate_private_key: a key no set has, and no certificate is for yet but
\* those its CSR will bring.
Pending(k) ==
    [provider |-> "apple", status |-> "key_pending", key |-> k,
     cert |-> None, info |-> None]

FreshKey == {k \in Key : \A s \in Sets : row[s].key # k}

CreateApple(s) == \E k \in FreshKey : Insert(s, Pending(k))

ImportApple(s, k, c) ==
    /\ KeyOf[c] = k
    /\ Insert(s, [provider |-> "apple", status |-> "active", key |-> k,
                  cert |-> c, info |-> InfoOf[c]])

ImportGoogle(s) ==
    Insert(s, [provider |-> "google", status |-> "active", key |-> None,
               cert |-> None, info |-> None])

\* Mutant of Renew: the predecessor is retired at once.
RenewAndRetire(s, p) ==
    /\ p \in Sets /\ row[p].provider = "apple" /\ row[s] = None
    /\ \E k \in FreshKey :
        row' = [row EXCEPT ![s] = Pending(k), ![p].status = "revoked"]
    /\ UNCHANGED <<pc, call, loaded>>

\* The successor of p, which stays as it is.
Renew(s, p) ==
    /\ p \in Sets /\ row[p].provider = "apple"
    /\ \E k \in FreshKey : Insert(s, Pending(k))

-----------------------------------------------------------------------------
NoKeyCheck(r, s, c) == row[s].provider = "apple"    \* mutant

\* certificate_matches_key, with the key of an Apple set's secret blob.
Matches(r, s, c) == row[s].provider = "apple" /\ KeyOf[c] = row[s].key

Load(r, o, s, c) ==
    /\ pc[r] = "idle" /\ s \in Sets
    /\ IF o = "install" THEN c # None /\ Matches(r, s, c) ELSE c = None
    /\ pc' = [pc EXCEPT ![r] = "loaded"]
    /\ op' = [op EXCEPT ![r] = o]
    /\ set' = [set EXCEPT ![r] = s]
    /\ cert' = [cert EXCEPT ![r] = c]
    /\ loaded' = [loaded EXCEPT ![r] = row[s]]
    /\ UNCHANGED row

Close(r) ==
    /\ pc' = [pc EXCEPT ![r] = "idle"]
    /\ op' = [op EXCEPT ![r] = None]
    /\ set' = [set EXCEPT ![r] = None]
    /\ cert' = [cert EXCEPT ![r] = None]
    /\ loaded' = [loaded EXCEPT ![r] = None]

\* A column after the flush of a request that has loaded old and assigned new.
Patched(current, old, new) == IF new = old THEN current ELSE new

Installed(r, w) ==
    [w EXCEPT !.status = Patched(w.status, loaded[r].status, "active"),
              !.cert = Patched(w.cert, loaded[r].cert, cert[r]),
              !.info = Patched(w.info, loaded[r].info, InfoOf[cert[r]])]

RevokedOnce(r, w) ==    \* mutant of Revoked: only an active set is revoked
    IF loaded[r].status = "active" THEN [w EXCEPT !.status = "revoked"] ELSE w

Revoked(r, w) ==
    [w EXCEPT !.status = Patched(w.status, loaded[r].status, "revoked")]

Commit(r) ==
    /\ pc[r] = "loaded"
    /\ row' = [row EXCEPT ![set[r]] =
                IF op[r] = "install" THEN Installed(r, @) ELSE Revoked(r, @)]
    /\ Close(r)

\* The request fails before it has committed.
Rollback(r) == pc[r] = "loaded" /\ Close(r) /\ UNCHANGED row

-----------------------------------------------------------------------------
Next ==
    \/ \E s \in Set :
        \/ CreateApple(s) \/ ImportGoogle(s)
        \/ \E k \in Key, c \in Cert : ImportApple(s, k, c)
        \/ \E p \in Set : Renew(s, p)
    \/ \E r \in Request :
        \/ \E o \in {"install", "revoke"}, s \in Set, c \in Cert \cup {None} :
            Load(r, o, s, c)
        \/ Commit(r) \/ Rollback(r)

Spec == Init /\ [][Next]_vars

(***************************************************************************)
(* Properties.                                                             *)
(***************************************************************************)
TypeOK ==
    /\ row \in [Set -> Row \cup {None}]
    /\ pc \in [Request -> {"idle", "loaded"}]
    /\ op \in [Request -> {"install", "revoke", None}]
    /\ set \in [Request -> Set \cup {None}]
    /\ cert \in [Request -> Cert \cup {None}]
    /\ loaded \in [Request -> Row \cup {None}]

\* What render signs with: an active Apple set has a certificate, and the
\* certificate of any set is one for the key in its secret blob.
ActiveCanSign ==
    \A s \in Sets :
        /\ row[s].provider = "apple" /\ row[s].status = "active" =>
              row[s].cert # None /\ row[s].info # None
        /\ row[s].cert # None => KeyOf[row[s].cert] = row[s].key

\* A call o for set s is over, committed or not.
Settles(r, o, s) ==
    pc[r] = "loaded" /\ pc'[r] = "idle" /\ op[r] = o /\ set[r] = s

\* "The predecessor stays active until it actually expires": no operation on
\* another set, and no certificate, takes a set out of "active"; a revoke does.  And
\* nothing makes a set active but an install that had loaded it as something else,
\* with a certificate for the key of that very set: so a revoke that commits after
\* an install has found the set active is not undone by it.
StatusExplained ==
    [][\A s \in Sets : row'[s].status # row[s].status =>
        \E r \in Request :
            \/ Settles(r, "revoke", s) /\ row'[s].status = "revoked"
            \/ /\ Settles(r, "install", s) /\ row'[s].status = "active"
               /\ loaded[r].status # "active" /\ KeyOf[cert[r]] = row'[s].key]_vars

\* A call that commits while the row is still what it has loaded takes effect in
\* every column: a renewed certificate brings its own metadata, and a pending or
\* revoked set can be revoked, too.
EffectUnlessRaced ==
    [][\A r \in Request :
        LET new == row'[set[r]]
        IN  Commit(r) /\ loaded[r] = row[set[r]] =>
                IF op[r] = "install"
                  THEN /\ new.status = "active" /\ new.cert = cert[r]
                       /\ new.info = InfoOf[cert[r]]
                  ELSE new.status = "revoked"]_vars

(***************************************************************************)
(* The inductive invariant: a request that installs has checked its        *)
(* certificate against a key that does not change, and the set is there.   *)
(***************************************************************************)
Checked ==
    \A r \in Request : pc[r] = "loaded" =>
        /\ op[r] \in {"install", "revoke"} /\ set[r] \in Sets
        /\ loaded[r] \in Row
        /\ loaded[r].cert # None => row[set[r]].cert # None
        /\ loaded[r].info # None => row[set[r]].info # None
        /\ op[r] = "install" => cert[r] # None /\ Matches(r, set[r], cert[r])

IndInv ==
    /\ TypeOK /\ ActiveCanSign /\ Checked
=============================================================================

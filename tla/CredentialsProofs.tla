-------------------------- MODULE CredentialsProofs --------------------------
(***************************************************************************)
(* Theorems about Credentials, for every set of requests, credential sets, *)
(* keys and certificates.                                                  *)
(***************************************************************************)
EXTENDS Credentials, TLAPS

USE NoneIsNew, CertificateHasKey, CertificateHasInfo

-----------------------------------------------------------------------------
\* A certificate has metadata.
LEMMA InfoOfCert ==
    ASSUME NEW c \in Cert
    PROVE  KeyOf[c] \in Key /\ InfoOf[c] \in Info
  BY DEF Info

LEMMA InitInv == Init => IndInv
  BY DEF Init, IndInv, TypeOK, ActiveCanSign, Checked, Sets

\* An insert takes an identifier no request has loaded.
LEMMA InsertInv ==
    ASSUME IndInv, NEW s \in Set, NEW new \in Row, Insert(s, new),
           new.provider = "apple" /\ new.status = "active" =>
               new.cert # None /\ new.info # None,
           new.cert # None => KeyOf[new.cert] = new.key
    PROVE  IndInv'
<1> USE DEF IndInv, TypeOK, Insert, call, Sets
<1>1. TypeOK'
  OBVIOUS
<1>2. ActiveCanSign'
  BY DEF ActiveCanSign
<1>3. Checked'
  BY DEF Checked, Matches
<1> QED
  BY <1>1, <1>2, <1>3

\* A commit leaves the keys alone, and every set has a certificate and metadata
\* that had them before.
LEMMA CommitInv ==
    ASSUME IndInv, NEW r \in Request, Commit(r)
    PROVE  IndInv'
<1> USE DEF IndInv, TypeOK
<1> DEFINE s == set[r]
           w == row[s]
<1>1. /\ pc[r] = "loaded" /\ s \in Set /\ w \in Row /\ loaded[r] \in Row
      /\ op[r] \in {"install", "revoke"}
      /\ row' = [row EXCEPT ![s] = row'[s]]
  BY DEF Commit, Checked, Sets
<1>2. CASE op[r] = "install"
  <2>1. /\ cert[r] \in Cert /\ w.provider = "apple" /\ KeyOf[cert[r]] = w.key
        /\ loaded[r].cert # None => w.cert # None
        /\ loaded[r].info # None => w.info # None
    BY <1>1, <1>2 DEF Checked, Matches
  <2>2. row'[s] = Installed(r, w)
    BY <1>1, <1>2 DEF Commit
  <2>3. InfoOf[cert[r]] \in Info
    BY <2>1, InfoOfCert
  <2> DEFINE status == Patched(w.status, loaded[r].status, "active")
             pem == Patched(w.cert, loaded[r].cert, cert[r])
             info == Patched(w.info, loaded[r].info, InfoOf[cert[r]])
  <2>4. /\ status \in {w.status, "active"}
        /\ pem \in {w.cert, cert[r]} /\ pem # None
        /\ info \in {w.info, InfoOf[cert[r]]} /\ info # None
    BY <2>1, <2>3 DEF Patched
  <2>5. row'[s] = [w EXCEPT !.status = status, !.cert = pem, !.info = info]
    BY <2>2 DEF Installed
  <2> HIDE DEF status, pem, info
  <2>6. /\ row'[s] \in Row
        /\ row'[s].provider = w.provider /\ row'[s].key = w.key
        /\ row'[s].cert \in {w.cert, cert[r]} /\ row'[s].cert # None
        /\ row'[s].info # None
    BY <1>1, <2>1, <2>3, <2>4, <2>5 DEF Row
  <2>7. TypeOK'
    BY <1>1, <2>6 DEF Commit, Close
  <2>8. ActiveCanSign'
    BY <1>1, <2>1, <2>6 DEF ActiveCanSign, Sets
  <2>9. Checked'
    BY <1>1, <2>1, <2>6 DEF Checked, Commit, Close, Matches, Sets
  <2> QED
    BY <2>7, <2>8, <2>9
<1>3. CASE op[r] = "revoke"
  <2>1. row'[s] = Revoked(r, w)
    BY <1>1, <1>3 DEF Commit
  <2>2. /\ row'[s] \in Row
        /\ row'[s].provider = w.provider /\ row'[s].key = w.key
        /\ row'[s].cert = w.cert /\ row'[s].info = w.info
        /\ row'[s].status \in {w.status, "revoked"}
    BY <1>1, <2>1 DEF Revoked, Patched, Row
  <2>3. TypeOK'
    BY <1>1, <2>2 DEF Commit, Close
  <2>4. ActiveCanSign'
    BY <1>1, <2>2 DEF ActiveCanSign, Sets
  <2>5. Checked'
    BY <1>1, <2>2 DEF Checked, Commit, Close, Matches, Sets
  <2> QED
    BY <2>3, <2>4, <2>5
<1> QED
  BY <1>1, <1>2, <1>3

LEMMA InvStep == IndInv /\ [Next]_vars => IndInv'
<1> SUFFICES ASSUME IndInv, [Next]_vars
             PROVE  IndInv'
  OBVIOUS
<1> USE DEF IndInv, TypeOK
<1>1. ASSUME NEW s \in Set, NEW k \in FreshKey, Insert(s, Pending(k))
      PROVE  IndInv'
  <2>1. Pending(k) \in Row
    BY <1>1 DEF FreshKey, Pending, Row
  <2> QED
    BY <1>1, <2>1, InsertInv DEF Pending
<1>2. ASSUME NEW s \in Set, CreateApple(s)
      PROVE  IndInv'
  BY <1>1, <1>2 DEF CreateApple
<1>3. ASSUME NEW s \in Set, ImportGoogle(s)
      PROVE  IndInv'
  BY <1>3, InsertInv DEF ImportGoogle, Row
<1>4. ASSUME NEW s \in Set, NEW k \in Key, NEW c \in Cert, ImportApple(s, k, c)
      PROVE  IndInv'
  <2> DEFINE new == [provider |-> "apple", status |-> "active", key |-> k,
                     cert |-> c, info |-> InfoOf[c]]
  <2>1. new \in Row /\ new.cert # None /\ new.info # None
    BY InfoOfCert DEF Row
  <2> QED
    BY <1>4, <2>1, InsertInv DEF ImportApple
<1>5. ASSUME NEW s \in Set, NEW p \in Set, Renew(s, p)
      PROVE  IndInv'
  BY <1>1, <1>5 DEF Renew
<1>6. ASSUME NEW r \in Request, NEW o \in {"install", "revoke"}, NEW s \in Set,
             NEW c \in Cert \cup {None}, Load(r, o, s, c)
      PROVE  IndInv'
  <2>1. TypeOK'
    BY <1>6 DEF Load
  <2>2. ActiveCanSign'
    BY <1>6 DEF Load, ActiveCanSign, Sets
  <2>3. Checked'
    BY <1>6 DEF Load, Checked, Matches, Sets
  <2> QED
    BY <2>1, <2>2, <2>3
<1>7. ASSUME NEW r \in Request, Commit(r)
      PROVE  IndInv'
  BY <1>7, CommitInv
<1>8. ASSUME NEW r \in Request, Rollback(r)
      PROVE  IndInv'
  BY <1>8 DEF Rollback, Close, ActiveCanSign, Checked, Matches, Sets
<1>9. CASE UNCHANGED vars
  BY <1>9 DEF vars, call, ActiveCanSign, Checked, Matches, Sets
<1> QED
  BY <1>2, <1>3, <1>4, <1>5, <1>6, <1>7, <1>8, <1>9 DEF Next

\* The inductive invariant holds throughout.
THEOREM Inductive == Spec => []IndInv
  BY InitInv, InvStep, PTL DEF Spec

-----------------------------------------------------------------------------
\* Type correctness of the credential module.
THEOREM TypeCorrect == Spec => []TypeOK
  BY Inductive, PTL DEF IndInv

\* An active Apple set can sign: install_certificate checks the certificate
\* against a key that no later request replaces.
THEOREM ActiveSetsSign == Spec => []ActiveCanSign
  BY Inductive, PTL DEF IndInv

\* An insert leaves the sets that are there as they are.
LEMMA InsertKeeps ==
    ASSUME NEW s \in Set, NEW new, Insert(s, new), NEW t \in Sets, TypeOK
    PROVE  row'[t] = row[t]
  BY DEF Insert, Sets, TypeOK

\* create, import and renew leave other sets alone; install writes no status but
\* "active", and only over one it has loaded as another, with a certificate it has
\* checked against a key that is still the key of the set.
THEOREM StatusIsExplained == Spec => StatusExplained
<1> DEFINE Explained(s) ==
        \E r \in Request :
            \/ Settles(r, "revoke", s) /\ row'[s].status = "revoked"
            \/ /\ Settles(r, "install", s) /\ row'[s].status = "active"
               /\ loaded[r].status # "active" /\ KeyOf[cert[r]] = row'[s].key
<1>1. ASSUME IndInv, Next, NEW s \in Sets, row'[s].status # row[s].status
      PROVE  Explained(s)
  <2> USE DEF IndInv, TypeOK
  <2>1. PICK r \in Request : Commit(r)
    BY <1>1, InsertKeeps
       DEF Next, CreateApple, ImportGoogle, ImportApple, Renew, Load, Rollback
  <2>2. /\ pc[r] = "loaded" /\ pc'[r] = "idle" /\ op[r] \in {"install", "revoke"}
        /\ set[r] = s /\ row[s] \in Row
    BY <1>1, <2>1 DEF Commit, Close, Checked, Sets
  <2>3. CASE op[r] = "revoke"
    <3>1. row'[s] = Revoked(r, row[s])
      BY <1>1, <2>1, <2>2, <2>3 DEF Commit
    <3>2. row'[s].status = "revoked"
      BY <1>1, <2>2, <3>1 DEF Revoked, Patched, Row
    <3> QED
      BY <2>2, <2>3, <3>2 DEF Settles
  <2>4. CASE op[r] = "install"
    <3>1. row'[s] = Installed(r, row[s])
      BY <1>1, <2>1, <2>2, <2>4 DEF Commit
    <3>2. /\ row'[s].key = row[s].key
          /\ row'[s].status = Patched(row[s].status, loaded[r].status, "active")
      BY <2>2, <3>1 DEF Installed, Row
    <3>3. row'[s].status = "active" /\ loaded[r].status # "active"
      BY <1>1, <3>2 DEF Patched
    <3>4. KeyOf[cert[r]] = row[s].key
      BY <1>1, <2>2, <2>4 DEF Checked, Matches
    <3> QED
      BY <2>2, <2>4, <3>2, <3>3, <3>4 DEF Settles
  <2> QED
    BY <2>2, <2>3, <2>4
<1>2. IndInv /\ [Next]_vars =>
        [\A s \in Sets : row'[s].status # row[s].status => Explained(s)]_vars
  BY <1>1
<1> QED
  BY <1>2, Inductive, PTL DEF Spec, StatusExplained

\* A commit assigns every column of the call; the ones it does not write have
\* the value already when the row is as loaded.
THEOREM CallsTakeEffect == Spec => EffectUnlessRaced
<1>1. IndInv /\ [Next]_vars =>
        [\A r \in Request :
            LET new == row'[set[r]]
            IN  Commit(r) /\ loaded[r] = row[set[r]] =>
                    IF op[r] = "install"
                      THEN /\ new.status = "active" /\ new.cert = cert[r]
                           /\ new.info = InfoOf[cert[r]]
                      ELSE new.status = "revoked"]_vars
  <2> SUFFICES ASSUME IndInv, NEW r \in Request, Commit(r),
                      loaded[r] = row[set[r]]
               PROVE  IF op[r] = "install"
                        THEN /\ row'[set[r]].status = "active"
                             /\ row'[set[r]].cert = cert[r]
                             /\ row'[set[r]].info = InfoOf[cert[r]]
                        ELSE row'[set[r]].status = "revoked"
    OBVIOUS
  <2>1. set[r] \in Set /\ row[set[r]] \in Row
    BY DEF Commit, IndInv, TypeOK, Checked, Sets
  <2>2. row'[set[r]] = IF op[r] = "install" THEN Installed(r, row[set[r]])
                                            ELSE Revoked(r, row[set[r]])
    BY <2>1 DEF Commit, IndInv, TypeOK
  <2> QED
    BY <2>1, <2>2 DEF Installed, Revoked, Patched, Row
<1> QED
  BY <1>1, Inductive, PTL DEF Spec, EffectUnlessRaced
=============================================================================

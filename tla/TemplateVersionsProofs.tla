----------------------- MODULE TemplateVersionsProofs -----------------------
(***************************************************************************)
(* Theorems about TemplateVersions, for every set of requests, versions,   *)
(* variants, files and row ids.                                            *)
(***************************************************************************)
EXTENDS TemplateVersions, TLAPS

USE VariantOfType, NoneIsNew

-----------------------------------------------------------------------------
(***************************************************************************)
(* Type correctness.                                                       *)
(***************************************************************************)
LEMMA InitTypeOK == Init => TypeOK
  BY DEF Init, TypeOK, Status, Stage

\* A rollback leaves well-typed state: every failing step is one.
LEMMA RollbackTypeOK ==
    ASSUME TypeOK, NEW r \in Request, Rollback(r)
    PROVE  TypeOK'
  BY DEF TypeOK, Rollback, Close, Status, Stage

\* What a request reads or writes of the rows of its version are rows.
LEMMA RowsInType ==
    ASSUME TypeOK, NEW v \in Version, NEW s
    PROVE  RowsIn(v, s) \subseteq Row
  BY DEF TypeOK, RowsIn

\* Between its draft check and its end a request has a version.
HasVersion == \A r \in Request : pc[r] # "idle" => ver[r] \in Version

\* The slot of an open request that replaces rows is one of a row.
HasSlot ==
    \A r \in Request :
        pc[r] # "idle" /\ op[r] # "create" => slot[r] \in Slot

\* Only a handler of its own kind is at these stages.
StageOfOp ==
    \A r \in Request :
        /\ pc[r] # "idle" => op[r] \in AllOps
        /\ pc[r] \in {"numbered", "inserted"} => op[r] = "create"
        /\ pc[r] \in {"derived", "found", "archived", "marking"}
              => op[r] = "publish"
        /\ pc[r] \in {"removed", "uploaded"} => op[r] = "put_asset"

LocalInv == TypeOK /\ HasVersion /\ HasSlot /\ StageOfOp

LEMMA LocalStep == LocalInv /\ [Next]_vars => LocalInv'
<1> SUFFICES ASSUME LocalInv, [Next]_vars
             PROVE  LocalInv'
  OBVIOUS
<1> USE DEF LocalInv, TypeOK, HasVersion, HasSlot, StageOfOp, Goto, Stage, AllOps
<1>1. ASSUME NEW r \in Request, Begin(r)
      PROVE  LocalInv'
  <2>1. ASSUME NEW v \in Version, NEW n \in 1..Cardinality(Version),
               BeginCreate(r, v, n)
        PROVE  LocalInv'
    BY <2>1 DEF BeginCreate, table, store
  <2>2. ASSUME NEW o \in AllOps, NEW v \in Version, NEW s \in Slot,
               RequireDraft(r, o, v, s)
        PROVE  LocalInv'
    BY <2>2 DEF RequireDraft, table, store
  <2> QED
    BY <1>1, <2>1, <2>2
       DEF Begin, BeginSetMappings, BeginPutAsset, BeginDeleteAsset,
           BeginPublish, Slot, Origin
<1>2. ASSUME NEW r \in Request, Step(r)
      PROVE  LocalInv'
  <2>1. CASE InsertVersion(r)
    BY <2>1 DEF InsertVersion, store, Status
  <2>2. ASSUME NEW i \in RowId, NEW F \in SUBSET File, StoreBundle(r, i, F)
        PROVE  LocalInv'
    BY <2>2 DEF StoreBundle, table, Row, Slot
  <2>3. CASE ReadRules(r)
    BY <2>3, RowsInType DEF ReadRules, SelectRows, table, store
  <2>4. ASSUME NEW new \in SUBSET RowId, ReplaceRules(r, new)
        PROVE  LocalInv'
    BY <2>4 DEF ReplaceRules, DeleteSelected, table, store, Row
  <2>5. CASE LoadAsset(r)
    BY <2>5, RowsInType DEF LoadAsset, SelectRows, table, store
  <2>6. CASE RemoveAsset(r)
    BY <2>6 DEF RemoveAsset, DeleteSelected, table, store
  <2>7. ASSUME NEW i \in RowId, UploadAsset(r, i)
        PROVE  LocalInv'
    BY <2>7 DEF UploadAsset, table, Row
  <2>8. CASE InsertAsset(r)
    BY <2>8 DEF InsertAsset, table, store
  <2>9. CASE Validate(r)
    BY <2>9 DEF Validate, table, store
  <2>10. ASSUME NEW p \in Version \cup {None}, FindPublished(r, p)
         PROVE  LocalInv'
    BY <2>10 DEF FindPublished, table, store
  <2>11. CASE ArchivePrevious(r)
    BY <2>11 DEF ArchivePrevious, store, Status
  <2>12. CASE LockTarget(r)
    BY <2>12 DEF LockTarget, store
  <2>13. CASE MarkPublished(r)
    BY <2>13 DEF MarkPublished, store, Status
  <2>14. CASE Commit(r)
    BY <2>14 DEF Commit, Close
  <2> QED
    BY <1>2, <2>1, <2>2, <2>3, <2>4, <2>5, <2>6, <2>7, <2>8, <2>9, <2>10,
       <2>11, <2>12, <2>13, <2>14
       DEF Step, FreshId
<1>3. ASSUME NEW r \in Request, Rollback(r)
      PROVE  LocalInv'
  BY <1>3, RollbackTypeOK DEF Rollback, Close
<1>4. CASE UNCHANGED vars
  BY <1>4 DEF vars, table, store, local
<1> QED
  BY <1>1, <1>2, <1>3, <1>4
     DEF Next, Fail, Refuse, IntegrityFailure, DeadlockVictim, Crash

\* Every reachable state is well typed.
THEOREM TypeCorrect == Spec => []TypeOK
<1>1. Init => LocalInv
  BY InitTypeOK DEF Init, LocalInv, HasVersion, HasSlot, StageOfOp
<1>2. LocalInv => TypeOK
  BY DEF LocalInv
<1> QED
  BY <1>1, <1>2, LocalStep, PTL DEF Spec

-----------------------------------------------------------------------------
(***************************************************************************)
(* One published version.  The inductive invariant says what the rows an   *)
(* open transaction has written look like and, in RivalHeld, what the      *)
(* check of uq_version_published leaves true until both transactions end:  *)
(* an uncommitted published version and a committed one of one variant are *)
(* in the hands of one request.                                            *)
(***************************************************************************)
\* A row no transaction has written shows its committed status.
ImageCommitted ==
    \A v \in Version : holder[v] = None => image[v] = status[v]

\* What a transaction may have written: its own version, and the version its
\* publish has archived.
HeldRows ==
    \A r \in Request, v \in Version : holder[v] = r =>
        /\ pc[r] # "idle" /\ op[r] \in {"create", "publish"}
        /\ VariantOf[v] = VariantOf[ver[r]]
        /\ image[v] # "none"
        /\ v # ver[r] => /\ op[r] = "publish"
                         /\ image[v] = "archived"
                         /\ status[v] # "none"

\* The version of a create is nobody else's; the others work on committed rows.
Targets ==
    \A r \in Request : pc[r] # "idle" =>
        /\ op[r] = "create" =>
              /\ status[ver[r]] = "none"
              /\ pc[r] = "numbered" => holder[ver[r]] = None
              /\ \A q \in Request \ {r} : pc[q] # "idle" => ver[q] # ver[r]
        /\ op[r] # "create" => status[ver[r]] # "none"
        /\ pc[r] = "found" /\ prev[r] # None =>
              /\ status[prev[r]] # "none"
              /\ VariantOf[prev[r]] = VariantOf[ver[r]]

\* A publish that is about to commit has its version published.
Publishing ==
    \A r \in Request :
        /\ pc[r] = "marking" => holder[ver[r]] = r
        /\ op[r] = "publish" /\ pc[r] = "done" =>
              holder[ver[r]] = r /\ image[ver[r]] = "published"

OneImage ==
    \A v, w \in Version :
        /\ image[v] = "published" /\ image[w] = "published"
        /\ VariantOf[v] = VariantOf[w]
        => v = w

RivalHeld ==
    \A v, w \in Version :
        /\ v # w /\ VariantOf[v] = VariantOf[w]
        /\ status[v] = "published" /\ image[w] = "published"
        => holder[v] = holder[w] /\ holder[v] # None

IndInv ==
    /\ LocalInv
    /\ ImageCommitted
    /\ HeldRows
    /\ Targets
    /\ Publishing
    /\ OnePublished
    /\ OneImage
    /\ RivalHeld

LEMMA IndInit == Init => IndInv
  BY InitTypeOK
     DEF Init, IndInv, LocalInv, HasVersion, HasSlot, StageOfOp, ImageCommitted,
         HeldRows, Targets, Publishing, OnePublished, OneImage, RivalHeld

\* A request that opens writes no version row.
LEMMA IndBegin ==
    ASSUME IndInv, LocalInv', NEW r \in Request, Begin(r)
    PROVE  IndInv'
<1> USE DEF IndInv, LocalInv, TypeOK, HasVersion, StageOfOp, Goto, AllOps,
            ImageCommitted, HeldRows, Targets, Publishing, OnePublished,
            OneImage, RivalHeld
<1>1. ASSUME NEW v \in Version, NEW n \in 1..Cardinality(Version),
             BeginCreate(r, v, n)
      PROVE  IndInv'
  BY <1>1 DEF BeginCreate, FreshVersion, table, store
<1>2. ASSUME NEW o \in AllOps \ {"create"}, NEW v \in Version, NEW s \in Slot,
             RequireDraft(r, o, v, s)
      PROVE  IndInv'
  BY <1>2 DEF RequireDraft, table, store
<1> QED
  BY <1>1, <1>2
     DEF Begin, BeginSetMappings, BeginPutAsset, BeginDeleteAsset,
         BeginPublish, Slot, Origin

\* Steps that only read, or write rules, assets and blobs.
LEMMA IndContent ==
    ASSUME IndInv, LocalInv', NEW r \in Request,
           \/ \E i \in RowId, F \in SUBSET File : StoreBundle(r, i, F)
           \/ ReadRules(r)
           \/ \E new \in SUBSET RowId : ReplaceRules(r, new)
           \/ LoadAsset(r)
           \/ RemoveAsset(r)
           \/ \E i \in RowId : UploadAsset(r, i)
           \/ InsertAsset(r)
           \/ Validate(r)
    PROVE  IndInv'
<1> USE DEF IndInv, LocalInv, TypeOK, HasVersion, StageOfOp, Goto, AllOps
<1>1. /\ UNCHANGED <<table, op, ver, prev>>
      /\ \A q \in Request \ {r} : pc'[q] = pc[q]
      /\ pc[r] # "idle" /\ pc'[r] \notin {"idle", "numbered", "found", "marking"}
      /\ op[r] = "publish" => pc'[r] # "done"
  BY DEF StoreBundle, ReadRules, ReplaceRules, LoadAsset, RemoveAsset,
         UploadAsset, InsertAsset, Validate
<1> QED
  BY <1>1 DEF table, ImageCommitted, HeldRows, Targets, Publishing,
              OnePublished, OneImage, RivalHeld

\* Steps that write a version row, or choose the one to archive.
LEMMA IndTable ==
    ASSUME IndInv, LocalInv', NEW r \in Request,
           \/ InsertVersion(r)
           \/ \E p \in Version \cup {None} : FindPublished(r, p)
           \/ ArchivePrevious(r)
           \/ LockTarget(r)
           \/ MarkPublished(r)
    PROVE  IndInv'
<1> USE DEF IndInv, LocalInv, TypeOK, HasVersion, StageOfOp, Goto, AllOps,
            ImageCommitted, HeldRows, Targets, Publishing, OnePublished,
            OneImage, RivalHeld
<1>1. CASE InsertVersion(r)
  BY <1>1 DEF InsertVersion
<1>2. ASSUME NEW p \in Version \cup {None}, FindPublished(r, p)
      PROVE  IndInv'
  BY <1>2 DEF FindPublished, PublishedOf, table
<1>3. CASE ArchivePrevious(r)
  BY <1>3 DEF ArchivePrevious, Free, WaitsFor
<1>4. CASE LockTarget(r)
  BY <1>4 DEF LockTarget, Free, WaitsFor
<1>5. CASE MarkPublished(r)
  BY <1>5 DEF MarkPublished, Free, Violates, WaitsFor, PublishedRivals
<1> QED
  BY <1>1, <1>2, <1>3, <1>4, <1>5

LEMMA IndCommit ==
    ASSUME IndInv, LocalInv', NEW r \in Request, Commit(r)
    PROVE  IndInv'
  BY DEF IndInv, LocalInv, TypeOK, HasVersion, StageOfOp, AllOps,
         ImageCommitted, HeldRows, Targets, Publishing, OnePublished,
         OneImage, RivalHeld, Commit, Close

LEMMA IndRollback ==
    ASSUME IndInv, LocalInv', NEW r \in Request, Rollback(r)
    PROVE  IndInv'
  BY DEF IndInv, LocalInv, TypeOK, HasVersion, StageOfOp, AllOps,
         ImageCommitted, HeldRows, Targets, Publishing, OnePublished,
         OneImage, RivalHeld, Rollback, Close

LEMMA IndStep == IndInv /\ [Next]_vars => IndInv'
<1> SUFFICES ASSUME IndInv, [Next]_vars
             PROVE  IndInv'
  OBVIOUS
<1>1. LocalInv'
  BY LocalStep DEF IndInv
<1>2. ASSUME NEW r \in Request, Step(r)
      PROVE  IndInv'
  BY <1>1, <1>2, IndContent, IndTable, IndCommit DEF Step, FreshId
<1>3. ASSUME NEW r \in Request, Fail(r)
      PROVE  IndInv'
  BY <1>1, <1>3, IndRollback
     DEF Fail, Refuse, IntegrityFailure, DeadlockVictim, Crash
<1>4. CASE UNCHANGED vars
  BY <1>1, <1>4
     DEF vars, table, local, IndInv, ImageCommitted, HeldRows, Targets,
         Publishing, OnePublished, OneImage, RivalHeld
<1> QED
  BY <1>1, <1>2, <1>3, <1>4, IndBegin DEF Next

LEMMA IndCorrect == Spec => []IndInv
  BY IndInit, IndStep, PTL DEF Spec

\* However many requests race, a variant never has two published versions.
THEOREM OnePublishedCorrect == Spec => []OnePublished
<1>1. IndInv => OnePublished
  BY DEF IndInv
<1> QED
  BY <1>1, IndCorrect, PTL

-----------------------------------------------------------------------------
(***************************************************************************)
(* Action properties.  Only a commit changes what readers see.             *)
(***************************************************************************)
LEMMA OnlyCommitsShow ==
    ASSUME Next
    PROVE  \/ UNCHANGED <<status, rows>>
           \/ \E r \in Request : Commit(r)
  BY DEF Next, Begin, Step, Fail, Refuse, IntegrityFailure, DeadlockVictim,
         Crash, Rollback, BeginCreate, BeginSetMappings, BeginPutAsset,
         BeginDeleteAsset, BeginPublish, RequireDraft, InsertVersion,
         StoreBundle, ReadRules, ReplaceRules, LoadAsset, RemoveAsset,
         UploadAsset, InsertAsset, Validate, FindPublished, ArchivePrevious,
         LockTarget, MarkPublished, table, store

\* A variant that has a published version keeps having one.
THEOREM PublishedNeverLostCorrect == Spec => PublishedNeverLost
<1>1. ASSUME IndInv, [Next]_vars, NEW x \in Variant, PublishedOf(x) # {}
      PROVE  (PublishedOf(x))' # {}
  <2>1. CASE UNCHANGED status
    BY <1>1, <2>1 DEF PublishedOf
  <2>2. ASSUME NEW r \in Request, Commit(r)
        PROVE  (PublishedOf(x))' # {}
    <3>1. PICK v \in Version : VariantOf[v] = x /\ status[v] = "published"
      BY <1>1 DEF PublishedOf
    <3>2. /\ pc[r] = "done" /\ ver[r] \in Version
          /\ \A w \in Version :
                status'[w] = IF holder[w] = r THEN image[w] ELSE status[w]
      BY <1>1, <2>2 DEF Commit, IndInv, LocalInv, HasVersion
    <3>3. CASE holder[v] # r
      BY <3>1, <3>2, <3>3 DEF PublishedOf
    <3>4. CASE holder[v] = r
      <4>1. op[r] = "publish" /\ VariantOf[ver[r]] = x
        BY <1>1, <3>1, <3>2, <3>4 DEF IndInv, HeldRows, Targets
      <4>2. holder[ver[r]] = r /\ image[ver[r]] = "published"
        BY <1>1, <3>2, <4>1 DEF IndInv, Publishing
      <4> QED
        BY <3>2, <4>1, <4>2 DEF PublishedOf
    <3> QED
      BY <3>3, <3>4
  <2> QED
    BY <1>1, <2>1, <2>2, OnlyCommitsShow DEF vars, table
<1>2. IndInv /\ [Next]_vars =>
        [\A x \in Variant : PublishedOf(x) # {} => (PublishedOf(x))' # {}]_vars
  BY <1>1
<1> QED
  BY <1>2, IndCorrect, PTL DEF Spec, PublishedNeverLost

\* Once no open request works on a version that has left draft, nothing ever
\* changes it again, except the archiving of the published one.
THEOREM SettledFrozenCorrect == Spec => SettledFrozen
<1>1. ASSUME IndInv, [Next]_vars, NEW v \in Version, Settled(v)
      PROVE  /\ rows'[v] = rows[v]
             /\ Settled(v)'
             /\ status[v] = "archived" => status'[v] = "archived"
  <2>1. ASSUME NEW r \in Request, Commit(r)
        PROVE  /\ rows'[v] = rows[v]
               /\ Settled(v)'
               /\ status[v] = "archived" => status'[v] = "archived"
    BY <1>1, <2>1
       DEF Commit, Close, IndInv, LocalInv, TypeOK, HasVersion, HeldRows,
           Settled, Quiet
  <2>2. ASSUME UNCHANGED <<status, rows>>
        PROVE  Quiet(v)'
    <3>1. ASSUME NEW r \in Request, Begin(r)
          PROVE  Quiet(v)'
      BY <1>1, <3>1
         DEF Begin, BeginCreate, FreshVersion, BeginSetMappings, BeginPutAsset,
             BeginDeleteAsset, BeginPublish, RequireDraft, Goto, Settled, Quiet,
             IndInv, LocalInv, TypeOK
    <3>2. ASSUME NEW r \in Request, Step(r) \/ Fail(r)
          PROVE  \A q \in Request : pc'[q] # "idle" => /\ pc[q] # "idle"
                                                      /\ ver'[q] = ver[q]
      BY <1>1, <3>2
         DEF Step, Fail, Refuse, IntegrityFailure, DeadlockVictim, Crash,
             Rollback, Commit, Close, InsertVersion, StoreBundle, ReadRules,
             ReplaceRules, LoadAsset, RemoveAsset, UploadAsset, InsertAsset,
             Validate, FindPublished, ArchivePrevious, LockTarget,
             MarkPublished, Goto, IndInv, LocalInv, TypeOK
    <3> QED
      BY <1>1, <3>1, <3>2 DEF Next, Settled, Quiet, vars, local
  <2> QED
    BY <1>1, <2>1, <2>2, OnlyCommitsShow DEF Settled, vars, table, store
<1>2. IndInv /\ [Next]_vars =>
        [\A v \in Version :
           Settled(v) => /\ rows'[v] = rows[v]
                         /\ Settled(v)'
                         /\ status[v] = "archived" => status'[v] = "archived"]_vars
  BY <1>1
<1> QED
  BY <1>2, IndCorrect, PTL DEF Spec, SettledFrozen
=============================================================================

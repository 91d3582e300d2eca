-------------------------- MODULE TemplateVersions --------------------------
(***************************************************************************)
(* The versions of template variants, under concurrent management         *)
(* requests (services/templates.py over database.get_session).             *)
(*                                                                         *)
(* Every request owns one database transaction, opened lazily by its first *)
(* statement and closed by get_session: commit on a clean return, rollback *)
(* on an exception.  The transactions run at READ COMMITTED and no query   *)
(* takes a row lock, so a handler is a sequence of steps, one per          *)
(* statement whose position in the interleaving matters: what a SELECT     *)
(* returned may be stale when the next statement runs.  What orders the    *)
(* writers is PostgreSQL: a row that an open transaction has updated or    *)
(* deleted makes the next writer of that row wait, and the unique indexes  *)
(* uq_version_published, (variant_id, number) and (version_id, filename)   *)
(* make a conflicting writer wait for an open transaction and fail once    *)
(* that one has committed.                                                 *)
(*                                                                         *)
(* A mapping rule or an asset is a row [id, slot]: the slot says what it   *)
(* replaces (the rules of one origin, or the asset of one file name) and   *)
(* the id stands for everything else, so two writes never produce equal    *)
(* rows.  The rules one call inserts are one row.                          *)
(***************************************************************************)
EXTENDS Naturals, FiniteSets

CONSTANTS
    Request,    \* requests that may be open at the same time
    Version,    \* ids of versions, a pool that uuid4 draws from
    Variant,    \* template variants
    VariantOf,  \* the variant an id is drawn for
    Apple,      \* the variants of an Apple wallet type; the others are Google
    File,       \* file names of assets
    Icon,       \* _APPLE_ICON, which every Apple version needs
    RowId,      \* identities of rule and asset rows, a pool
    Ops,        \* the operations the clients call
    None

AllOps == {"create", "set_mappings", "put_asset", "delete_asset", "publish"}

Origin == {"authored", "derived"}

ASSUME VariantOfType == VariantOf \in [Version -> Variant]
ASSUME NoneIsNew == None \notin Request \cup Version
ASSUME OpsKnown == Ops \subseteq AllOps
ASSUME IconIsFile == Icon \in File
ASSUME FilesAreNotOrigins == File \cap Origin = {}

VARIABLES
    status,     \* committed status of a version, "none" while it has no row
    number,     \* its number, 0 while no row carries the id
    holder,     \* the request whose open transaction has written the row
    image,      \* the status that transaction has given it
    rows,       \* committed mapping_rule and template_asset rows
    blobs,      \* contents in the object store, as <<version, content>>
    pc, op,     \* where a request is, and in which handler
    ver,        \* the version it works on
    slot,       \* the rows it replaces
    num,        \* the number it has read for a new version
    prev,       \* the published version it has read
    sel,        \* rows an earlier SELECT of it returned
    del, ins    \* rows its open transaction has deleted and inserted

table == <<status, number, holder, image>>
store == <<rows, blobs>>
local == <<pc, op, ver, slot, num, prev, sel, del, ins>>
vars  == <<table, store, local>>

Status == {"none", "draft", "published", "archived"}

Slot == Origin \cup File

Row == [id : RowId, slot : Slot]

Stage == {"idle", "numbered", "inserted", "checked", "validated", "read",
          "removed", "uploaded", "derived", "found", "archived", "marking",
          "done"}

(***************************************************************************)
(* What a statement sees: the committed state.                             *)
(***************************************************************************)
Committed(x) == {v \in Version : VariantOf[v] = x /\ status[v] # "none"}

PublishedOf(x) == {v \in Version : VariantOf[v] = x /\ status[v] = "published"}

RowsIn(v, s) == {w \in rows[v] : w.slot = s}

\* _next_version_number: the largest committed number of the variant, plus one.
IsNextNumber(x, n) ==
    LET taken == {number[v] : v \in Committed(x)}
    IN  /\ \A m \in taken : m < n
        /\ n = 1 \/ n - 1 \in taken

\* Row ids no row and no open transaction uses.
FreshId ==
    LET used == UNION ({rows[v] : v \in Version} \cup
                       {sel[r] \cup del[r] \cup ins[r] : r \in Request})
    IN  RowId \ {w.id : w \in used}

\* Version ids no row and no open transaction uses: what uuid4 may draw.
FreshVersion ==
    {v \in Version : /\ status[v] = "none"
                     /\ \A r \in Request : pc[r] # "idle" => ver[r] # v}

(***************************************************************************)
(* What PostgreSQL makes a writer wait for, or fail on.                    *)
(***************************************************************************)
\* Mutant of the two index checks below: the constraint is not declared.
NoIndex(r) == {}

\* Other rows that carry the number r inserts: UNIQUE (variant_id, number).
NumberRivals(r) ==
    {w \in Version \ {ver[r]} : /\ VariantOf[w] = VariantOf[ver[r]]
                                /\ number[w] = num[r]}

\* Other rows with an entry in uq_version_published for the variant of r,
\* unless the transaction of r itself has taken the entry away.
PublishedRivals(r) ==
    {w \in Version \ {ver[r]} : /\ VariantOf[w] = VariantOf[ver[r]]
                                /\ holder[w] # r
                                /\ "published" \in {status[w], image[w]}}

\* Committed rows that hold the file name r inserts: UNIQUE (version_id,
\* filename).
FileRivals(r) == RowsIn(ver[r], slot[r]) \ del[r]

\* The next step of r needs the open transaction of q to end first.
WaitsFor(r, q) ==
    /\ q # r
    /\ \/ pc[r] = "numbered" /\ \E w \in NumberRivals(r) : holder[w] = q
       \/ pc[r] = "read" /\ sel[r] \cap del[q] # {}
       \/ pc[r] = "uploaded" /\ FileRivals(r) \cap del[q] # {}
       \/ /\ pc[r] = "uploaded" /\ pc[q] = "done" /\ ver[q] = ver[r]
          /\ \E w \in ins[q] : w.slot = slot[r]
       \/ pc[r] = "found" /\ prev[r] # None /\ holder[prev[r]] = q
       \/ pc[r] = "archived" /\ holder[ver[r]] = q
       \/ pc[r] = "marking" /\ \E w \in PublishedRivals(r) : holder[w] = q

Free(r) == \A q \in Request : ~WaitsFor(r, q)

\* A committed row violates a unique index: the statement raises IntegrityError.
Violates(r) ==
    \/ pc[r] = "numbered" /\ \E w \in NumberRivals(r) : holder[w] = None
    \/ pc[r] = "uploaded" /\ \E w \in FileRivals(r) :
                                \A q \in Request : w \notin del[q]
    \/ pc[r] = "marking" /\ \E w \in PublishedRivals(r) : holder[w] = None

\* r is on a cycle of transactions that wait for each other: whom it waits for
\* waits, directly or through others, for r.
Deadlocked(r) ==
    \E q \in Request :
        /\ WaitsFor(r, q)
        /\ \A C \in SUBSET Request :
              q \in C /\ (\A p \in C, s \in Request : WaitsFor(p, s) => s \in C)
              => r \in C

-----------------------------------------------------------------------------
Init ==
    /\ status = [v \in Version |-> "none"]
    /\ number = [v \in Version |-> 0]
    /\ holder = [v \in Version |-> None]
    /\ image = [v \in Version |-> "none"]
    /\ rows = [v \in Version |-> {}]
    /\ blobs = {}
    /\ pc = [r \in Request |-> "idle"]
    /\ op = [r \in Request |-> None]
    /\ ver = [r \in Request |-> None]
    /\ slot = [r \in Request |-> None]
    /\ num = [r \in Request |-> 0]
    /\ prev = [r \in Request |-> None]
    /\ sel = [r \in Request |-> {}]
    /\ del = [r \in Request |-> {}]
    /\ ins = [r \in Request |-> {}]

Goto(r, stage) == pc' = [pc EXCEPT ![r] = stage]

(***************************************************************************)
(* create_google_version and import_apple_version.                         *)
(***************************************************************************)
\* Mutant of BeginCreate: the number is in the index before it is compared with
\* the others, as under a deferred constraint.
BeginCreateDeferred(r, v, n) ==
    /\ pc[r] = "idle" /\ "create" \in Ops
    /\ v \in FreshVersion
    /\ IsNextNumber(VariantOf[v], n)
    /\ op' = [op EXCEPT ![r] = "create"]
    /\ ver' = [ver EXCEPT ![r] = v]
    /\ num' = [num EXCEPT ![r] = n]
    /\ number' = [number EXCEPT ![v] = n]
    /\ holder' = [holder EXCEPT ![v] = r]
    /\ Goto(r, "numbered")
    /\ UNCHANGED <<status, image, store, slot, prev, sel, del, ins>>

BeginCreate(r, v, n) ==
    /\ pc[r] = "idle" /\ "create" \in Ops
    /\ v \in FreshVersion
    /\ IsNextNumber(VariantOf[v], n)
    /\ op' = [op EXCEPT ![r] = "create"]
    /\ ver' = [ver EXCEPT ![r] = v]
    /\ num' = [num EXCEPT ![r] = n]
    /\ Goto(r, "numbered")
    /\ UNCHANGED <<table, store, slot, prev, sel, del, ins>>

InsertVersion(r) ==
    /\ pc[r] = "numbered" /\ Free(r) /\ ~Violates(r)
    /\ holder' = [holder EXCEPT ![ver[r]] = r]
    /\ image' = [image EXCEPT ![ver[r]] = "draft"]
    /\ number' = [number EXCEPT ![ver[r]] = num[r]]
    /\ Goto(r, IF VariantOf[ver[r]] \in Apple THEN "inserted" ELSE "done")
    /\ UNCHANGED <<status, store, op, ver, slot, num, prev, sel, del, ins>>

\* The files F of the bundle and the bundle itself go to the object store,
\* then the asset rows are flushed.
StoreBundle(r, i, F) ==
    /\ pc[r] = "inserted"
    /\ i \in FreshId
    /\ blobs' = blobs \cup {<<ver[r], i>>}
    /\ ins' = [ins EXCEPT ![r] = {[id |-> i, slot |-> f] : f \in F}]
    /\ Goto(r, "done")
    /\ UNCHANGED <<table, rows, op, ver, slot, num, prev, sel, del>>

(***************************************************************************)
(* The draft check every change of a version starts with: _load_version,   *)
(* then 409 version_not_draft unless the row read is a draft.  A refused   *)
(* request leaves no trace.                                                *)
(***************************************************************************)
RequireVersion(r, o, v, s) ==   \* mutant: the status is not checked
    /\ pc[r] = "idle" /\ o \in Ops
    /\ status[v] # "none"
    /\ op' = [op EXCEPT ![r] = o]
    /\ ver' = [ver EXCEPT ![r] = v]
    /\ slot' = [slot EXCEPT ![r] = s]
    /\ Goto(r, "checked")
    /\ UNCHANGED <<table, store, num, prev, sel, del, ins>>

RequireDraft(r, o, v, s) ==
    /\ pc[r] = "idle" /\ o \in Ops
    /\ status[v] = "draft"
    /\ op' = [op EXCEPT ![r] = o]
    /\ ver' = [ver EXCEPT ![r] = v]
    /\ slot' = [slot EXCEPT ![r] = s]
    /\ Goto(r, "checked")
    /\ UNCHANGED <<table, store, num, prev, sel, del, ins>>

BeginSetMappings(r, v) == RequireDraft(r, "set_mappings", v, "authored")
BeginPutAsset(r, v, f) == RequireDraft(r, "put_asset", v, f)
BeginDeleteAsset(r, v, f) == RequireDraft(r, "delete_asset", v, f)
BeginPublish(r, v) == RequireDraft(r, "publish", v, "derived")

(***************************************************************************)
(* _replace_rules: SELECT the rows of one origin, DELETE them, INSERT the  *)
(* new ones.  A row that has gone meanwhile is deleted by nobody.          *)
(***************************************************************************)
SelectRows(r) == sel' = [sel EXCEPT ![r] = RowsIn(ver[r], slot[r])]

DeleteSelected(r) ==
    /\ del' = [del EXCEPT ![r] = sel[r] \cap rows[ver[r]]]
    /\ sel' = [sel EXCEPT ![r] = {}]

ReadRules(r) ==
    /\ \/ op[r] = "set_mappings" /\ pc[r] = "checked"
       \/ op[r] = "publish" /\ pc[r] = "validated"
    /\ SelectRows(r)
    /\ Goto(r, "read")
    /\ UNCHANGED <<table, store, op, ver, slot, num, prev, del, ins>>

\* new is empty for a call without rules, or for an object without placeholders.
ReplaceRules(r, new) ==
    /\ op[r] \in {"set_mappings", "publish"} /\ pc[r] = "read" /\ Free(r)
    /\ DeleteSelected(r)
    /\ ins' = [ins EXCEPT ![r] = {[id |-> i, slot |-> slot[r]] : i \in new}]
    /\ Goto(r, IF op[r] = "publish" THEN "derived" ELSE "done")
    /\ UNCHANGED <<table, store, op, ver, slot, num, prev>>

(***************************************************************************)
(* put_asset and delete_asset.                                             *)
(***************************************************************************)
LoadAsset(r) ==
    /\ op[r] \in {"put_asset", "delete_asset"} /\ pc[r] = "checked"
    /\ op[r] = "delete_asset" => RowsIn(ver[r], slot[r]) # {}
    /\ SelectRows(r)
    /\ Goto(r, "read")
    /\ UNCHANGED <<table, store, op, ver, slot, num, prev, del, ins>>

\* Mutant of RemoveAsset: the content goes with its row.
RemoveAssetAndBlob(r) ==
    /\ op[r] \in {"put_asset", "delete_asset"} /\ pc[r] = "read" /\ Free(r)
    /\ DeleteSelected(r)
    /\ blobs' = blobs \ {<<ver[r], w.id>> : w \in sel[r]}
    /\ Goto(r, IF op[r] = "put_asset" THEN "removed" ELSE "done")
    /\ UNCHANGED <<table, rows, op, ver, slot, num, prev, ins>>

RemoveAsset(r) ==
    /\ op[r] \in {"put_asset", "delete_asset"} /\ pc[r] = "read" /\ Free(r)
    /\ DeleteSelected(r)
    /\ Goto(r, IF op[r] = "put_asset" THEN "removed" ELSE "done")
    /\ UNCHANGED <<table, store, op, ver, slot, num, prev, ins>>

UploadAsset(r, i) ==
    /\ op[r] = "put_asset" /\ pc[r] = "removed"
    /\ i \in FreshId
    /\ blobs' = blobs \cup {<<ver[r], i>>}
    /\ ins' = [ins EXCEPT ![r] = {[id |-> i, slot |-> slot[r]]}]
    /\ Goto(r, "uploaded")
    /\ UNCHANGED <<table, rows, op, ver, slot, num, prev, sel, del>>

InsertAsset(r) ==
    /\ pc[r] = "uploaded" /\ Free(r) /\ ~Violates(r)
    /\ Goto(r, "done")
    /\ UNCHANGED <<table, store, op, ver, slot, num, prev, sel, del, ins>>

(***************************************************************************)
(* publish, after its draft check.                                         *)
(***************************************************************************)
\* _validate_for_publish.  What it reads of the content is that an Apple
\* version has its icon; its other findings are a Refuse.
Validate(r) ==
    /\ op[r] = "publish" /\ pc[r] = "checked"
    /\ VariantOf[ver[r]] \in Apple => RowsIn(ver[r], Icon) # {}
    /\ Goto(r, IF VariantOf[ver[r]] \in Apple THEN "derived" ELSE "validated")
    /\ UNCHANGED <<table, store, op, ver, slot, num, prev, sel, del, ins>>

\* _archive_published: the SELECT.
FindPublished(r, p) ==
    /\ op[r] = "publish" /\ pc[r] = "derived"
    /\ \/ p \in PublishedOf(VariantOf[ver[r]])
       \/ p = None /\ PublishedOf(VariantOf[ver[r]]) = {}
    /\ prev' = [prev EXCEPT ![r] = p]
    /\ Goto(r, "found")
    /\ UNCHANGED <<table, store, op, ver, slot, num, sel, del, ins>>

\* Mutant of ArchivePrevious: the service commits instead of flushing.
ArchiveAndCommit(r) ==
    /\ pc[r] = "found" /\ Free(r)
    /\ IF prev[r] = None
         THEN UNCHANGED <<status, image>>
         ELSE /\ status' = [status EXCEPT ![prev[r]] = "archived"]
              /\ image' = [image EXCEPT ![prev[r]] = "archived"]
    /\ Goto(r, "archived")
    /\ UNCHANGED <<number, holder, store, op, ver, slot, num, prev,
                   sel, del, ins>>

\* The flush that lets the old row leave the index first.  UPDATE ... WHERE id
\* archives the row whatever has become of it since.
ArchivePrevious(r) ==
    /\ pc[r] = "found" /\ Free(r)
    /\ IF prev[r] = None
         THEN UNCHANGED <<holder, image>>
         ELSE /\ holder' = [holder EXCEPT ![prev[r]] = r]
              /\ image' = [image EXCEPT ![prev[r]] = "archived"]
    /\ Goto(r, "archived")
    /\ UNCHANGED <<status, number, store, op, ver, slot, num, prev,
                   sel, del, ins>>

\* The UPDATE of the version takes its row first and enters the index next.
LockTarget(r) ==
    /\ pc[r] = "archived" /\ Free(r)
    /\ holder' = [holder EXCEPT ![ver[r]] = r]
    /\ Goto(r, "marking")
    /\ UNCHANGED <<status, number, image, store, op, ver, slot, num, prev,
                   sel, del, ins>>

MarkPublished(r) ==
    /\ pc[r] = "marking" /\ Free(r) /\ ~Violates(r)
    /\ image' = [image EXCEPT ![ver[r]] = "published"]
    /\ Goto(r, "done")
    /\ UNCHANGED <<status, number, holder, store, op, ver, slot, num, prev,
                   sel, del, ins>>

(***************************************************************************)
(* The end of a request in get_session.                                    *)
(***************************************************************************)
Close(r) ==
    /\ holder' = [v \in Version |-> IF holder[v] = r THEN None ELSE holder[v]]
    /\ pc' = [pc EXCEPT ![r] = "idle"]
    /\ op' = [op EXCEPT ![r] = None]
    /\ ver' = [ver EXCEPT ![r] = None]
    /\ slot' = [slot EXCEPT ![r] = None]
    /\ num' = [num EXCEPT ![r] = 0]
    /\ prev' = [prev EXCEPT ![r] = None]
    /\ sel' = [sel EXCEPT ![r] = {}]
    /\ del' = [del EXCEPT ![r] = {}]
    /\ ins' = [ins EXCEPT ![r] = {}]

Commit(r) ==
    /\ pc[r] = "done"
    /\ status' = [v \in Version |-> IF holder[v] = r THEN image[v]
                                                     ELSE status[v]]
    /\ rows' = [rows EXCEPT ![ver[r]] = (@ \ del[r]) \cup ins[r]]
    /\ Close(r)
    /\ UNCHANGED <<number, image, blobs>>

LeakSession(r) ==       \* mutant: the session is dropped, not rolled back
    /\ pc' = [pc EXCEPT ![r] = "idle"]
    /\ UNCHANGED <<table, store, op, ver, slot, num, prev, sel, del, ins>>

Rollback(r) ==
    /\ image' = [v \in Version |-> IF holder[v] = r THEN status[v]
                                                    ELSE image[v]]
    /\ number' = [v \in Version |->
                    IF holder[v] = r /\ status[v] = "none" THEN 0
                                                           ELSE number[v]]
    /\ Close(r)
    /\ UNCHANGED <<status, rows, blobs>>

\* A ProblemError of the handler: invalid rules, no such asset, findings, or a
\* bundle without pass.json.
Refuse(r) ==
    /\ pc[r] \in {"checked", "inserted"}
    /\ Rollback(r)

IntegrityFailure(r) == Violates(r) /\ Free(r) /\ Rollback(r)

\* PostgreSQL aborts one transaction of a cycle.
DeadlockVictim(r) == Deadlocked(r) /\ Rollback(r)

\* The process, the connection or the object store fails.
Crash(r) == pc[r] # "idle" /\ Rollback(r)

-----------------------------------------------------------------------------
Begin(r) ==
    \E v \in Version :
        \/ \E n \in 1..Cardinality(Version) : BeginCreate(r, v, n)
        \/ BeginSetMappings(r, v)
        \/ \E f \in File : BeginPutAsset(r, v, f)
        \/ \E f \in File : BeginDeleteAsset(r, v, f)
        \/ BeginPublish(r, v)

Step(r) ==
    \/ InsertVersion(r)
    \/ \E i \in RowId, F \in SUBSET File : StoreBundle(r, i, F)
    \/ ReadRules(r)
    \/ ReplaceRules(r, {})
    \/ \E i \in FreshId : ReplaceRules(r, {i})
    \/ LoadAsset(r)
    \/ RemoveAsset(r)
    \/ \E i \in RowId : UploadAsset(r, i)
    \/ InsertAsset(r)
    \/ Validate(r)
    \/ \E p \in Version \cup {None} : FindPublished(r, p)
    \/ ArchivePrevious(r)
    \/ LockTarget(r)
    \/ MarkPublished(r)
    \/ Commit(r)

Fail(r) == Refuse(r) \/ IntegrityFailure(r) \/ DeadlockVictim(r) \/ Crash(r)

Next == \E r \in Request : Begin(r) \/ Step(r) \/ Fail(r)

Spec == Init /\ [][Next]_vars
-----------------------------------------------------------------------------
(***************************************************************************)
(* Fairness.  A handler has no loop and no timer: it goes on unless the    *)
(* database makes it wait.  A blocked statement sits in PostgreSQL's lock  *)
(* queue, which is served in order, so a step, or the failure of one, that *)
(* is enabled again and again happens (strong fairness); a deadlock is     *)
(* detected.  Nothing obliges a client to call, or a process to crash.     *)
(***************************************************************************)
Fairness ==
    \A r \in Request : /\ SF_vars(Step(r))
                       /\ WF_vars(Refuse(r))
                       /\ SF_vars(IntegrityFailure(r))
                       /\ WF_vars(DeadlockVictim(r))

FairSpec == Spec /\ Fairness

(***************************************************************************)
(* Properties.                                                             *)
(***************************************************************************)
\* The type of every variable.
TypeOK ==
    /\ status \in [Version -> Status]
    /\ number \in [Version -> Nat]
    /\ holder \in [Version -> Request \cup {None}]
    /\ image \in [Version -> Status]
    /\ rows \in [Version -> SUBSET Row]
    /\ blobs \subseteq Version \X RowId
    /\ pc \in [Request -> Stage]
    /\ op \in [Request -> AllOps \cup {None}]
    /\ ver \in [Request -> Version \cup {None}]
    /\ slot \in [Request -> Slot \cup {None}]
    /\ num \in [Request -> Nat]
    /\ prev \in [Request -> Version \cup {None}]
    /\ sel \in [Request -> SUBSET Row]
    /\ del \in [Request -> SUBSET Row]
    /\ ins \in [Request -> SUBSET Row]

\* However publish calls interleave, a variant never has two published
\* versions: rendering resolves it with scalar_one_or_none, which would raise.
OnePublished ==
    \A v, w \in Version :
        /\ status[v] = "published" /\ status[w] = "published"
        /\ VariantOf[v] = VariantOf[w]
        => v = w

\* Racing imports leave the numbers of a variant without a gap or a double:
\* its k versions carry 1 to k.
NumbersSequential ==
    \A x \in Variant :
        {number[v] : v \in Committed(x)} = 1..Cardinality(Committed(x))

\* Every asset row a reader can find has its content in the object store,
\* which takes part in no transaction: a render never meets a missing blob.
AssetsStored ==
    \A v \in Version : \A w \in rows[v] :
        w.slot \in File => <<v, w.id>> \in blobs

\* Racing uploads of one file name leave one asset row of that name, as
\* _load_asset expects.
OneRowPerFile ==
    \A v \in Version : \A u, w \in rows[v] :
        u.slot = w.slot /\ u.slot \in File => u = w

\* Once a variant has a published version, every later committed state has one:
\* archiving the old one and publishing the new one are never seen apart.
PublishedNeverLost ==
    [][\A x \in Variant : PublishedOf(x) # {} => (PublishedOf(x))' # {}]_vars

\* No open request works on v.
Quiet(v) == \A r \in Request : pc[r] # "idle" => ver[r] # v

\* A version that has left draft and that no open request works on.
Settled(v) == status[v] \in {"published", "archived"} /\ Quiet(v)

\* A settled version is frozen for good: no later call changes its rules or
\* its assets, publishes it again after it was archived, or even starts to.
SettledFrozen ==
    [][\A v \in Version :
        Settled(v) => /\ rows'[v] = rows[v]
                      /\ Settled(v)'
                      /\ status[v] = "archived" => status'[v] = "archived"]_vars

\* "A published version is immutable": its rules and assets never change.
PublishedFrozen ==
    [][\A v \in Version :
        status[v] \in {"published", "archived"} => rows'[v] = rows[v]]_vars

\* Only publish calls of one variant can deadlock, over the rows they archive and
\* publish: imports, edits and uploads take what they need in an order that lets
\* none of them keep waiting whom it waits for, whatever number or file they race
\* for.
OnlyPublishesDeadlock ==
    \A r, q \in Request : Deadlocked(r) /\ WaitsFor(r, q) =>
        op[r] = "publish" /\ VariantOf[ver[q]] = VariantOf[ver[r]]

\* Requests that wait only for one another, however many, are not stuck for good:
\* one of them is a publish on a cycle, which PostgreSQL aborts.
StuckIsBroken ==
    \A S \in (SUBSET Request) \ {{}} :
        /\ IsFiniteSet(S)
        /\ \A r \in S : \E q \in S : WaitsFor(r, q)
        => \E r \in S : Deadlocked(r) /\ op[r] = "publish"

\* Every request ends, whatever it waits for: lock waits and deadlocks of
\* racing publish calls do not leave one open.
RequestsEnd == \A r \in Request : pc[r] # "idle" ~> pc[r] = "idle"

(***************************************************************************)
(* The committed versions of a variant as a VersionRegistry.               *)
(***************************************************************************)
Registry ==
    INSTANCE VersionRegistry WITH
        count <- [x \in Variant |-> Cardinality(Committed(x))],
        current <- [x \in Variant |->
                      IF PublishedOf(x) = {} THEN 0
                      ELSE number[CHOOSE v \in PublishedOf(x) : TRUE]]

\* What readers see of racing imports and publish calls is one appended version
\* or one switch of the published pointer at a time: build_render_spec and
\* list_versions cannot observe an intermediate step.
ImplementsRegistry == Registry!Spec
=============================================================================

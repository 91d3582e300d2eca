----------------------------- MODULE Catalogue -----------------------------
(***************************************************************************)
(* The cached field catalogue (services/retention.py, routers/fields.py):  *)
(* refreshed view by view in one transaction, read by the validation of    *)
(* mapping rules, while templates come to name other views.                *)
(*                                                                         *)
(* A refresh reads the views in use, then for each view fetches its        *)
(* fields, deletes the rows it finds and inserts the new ones.  PostgreSQL *)
(* is as in TemplateVersions: a DELETE sees what was committed when it     *)
(* began, waits for transactions that have deleted one of its rows, and    *)
(* passes over rows that are gone by then; an INSERT into a named view     *)
(* waits for a conflicting entry of the unique index and then fails if it  *)
(* is there to stay.  The default view is NULL, which the index does not   *)
(* compare.  That a statement takes its rows one after the other is left   *)
(* out: all DELETEs find the rows of a view in one order, so that one      *)
(* which waits halfway has taken none that the one it waits for is still   *)
(* to take; and so do INSERTs, as long as the provider lists the fields of *)
(* a view in one order.                                                    *)
(***************************************************************************)
EXTENDS Naturals, FiniteSets

CONSTANTS
    Refresh,        \* POST /fields/refresh calls, each made at most once
    Check,          \* requests that validate mapping rules
    Template,
    Named,          \* views a template can name, by their alphabetical rank
    Key,            \* field keys
    Stable,         \* the fields the provider offers in every view all along
    None

Default == 0        \* the deployment's default view, NULL in the tables
View == Named \cup {Default}

ASSUME ViewsRanked == Named \subseteq Nat \ {0}
ASSUME StableAreKeys == Stable \subseteq Key
ASSUME NoneIsNone == None \notin View /\ None \notin Key

Row == [view : View, key : Key, by : Refresh]
TemplateRow == [view : View, archived : BOOLEAN]

VARIABLES
    rows,           \* data_field, committed: who has fetched which field
    template,       \* the templates, None for one not created
    pc,             \* where a refresh is
    views, todo,    \* the views it has to cover, and those it has yet to
    at, fetched,    \* the view it is working on, and what it has fetched for it
    seen,           \* the rows its DELETE has found
    deleted, inserted,      \* what its transaction has done so far
    raced,          \* another refresh has committed since it began
    refreshed,      \* the views some committed refresh has covered
    check           \* the view a validation has read of its template

progress == <<pc, views, todo, at, fetched, seen, deleted, inserted, raced>>
vars == <<rows, template, progress, refreshed, check>>

RowsOf(v) == {x \in rows : x.view = v}
Open(r) == pc[r] \notin {"idle", "ended"}

Init ==
    /\ rows = {}
    /\ template = [t \in Template |-> None]
    /\ pc = [r \in Refresh |-> "idle"]
    /\ views = [r \in Refresh |-> {}]
    /\ todo = [r \in Refresh |-> {}]
    /\ at = [r \in Refresh |-> None]
    /\ fetched = [r \in Refresh |-> {}]
    /\ seen = [r \in Refresh |-> {}]
    /\ deleted = [r \in Refresh |-> {}]
    /\ inserted = [r \in Refresh |-> {}]
    /\ raced = [r \in Refresh |-> FALSE]
    /\ refreshed = {}
    /\ check = [c \in Check |-> None]

-----------------------------------------------------------------------------
(* Templates.                                                              *)

CreateTemplate(t, v) ==
    /\ template[t] = None
    /\ template' = [template EXCEPT ![t] = [view |-> v, archived |-> FALSE]]
    /\ UNCHANGED <<rows, progress, refreshed, check>>

\* A patch without a view leaves the view alone: there is no way back to the
\* default.
UpdateTemplate(t, v) ==
    /\ template[t] # None /\ v # Default
    /\ template' = [template EXCEPT ![t].view = v]
    /\ UNCHANGED <<rows, progress, refreshed, check>>

ArchiveTemplate(t) ==
    /\ template[t] # None
    /\ template' = [template EXCEPT ![t].archived = TRUE]
    /\ UNCHANGED <<rows, progress, refreshed, check>>

-----------------------------------------------------------------------------
(* refresh_fields.                                                         *)

\* NULL first, then every view a template names, archived ones included.
ViewsInUse ==
    {Default} \cup {template[t].view : t \in {u \in Template : template[u] # None}}

ReadViews(r) ==
    /\ pc[r] = "idle"
    /\ pc' = [pc EXCEPT ![r] = "fetch"]
    /\ views' = [views EXCEPT ![r] = ViewsInUse]
    /\ todo' = [todo EXCEPT ![r] = ViewsInUse]
    /\ UNCHANGED <<rows, template, at, fetched, seen, deleted, inserted, raced,
                   refreshed, check>>

AnyOrder(r, v) == v \in todo[r]         \* mutant

\* The views are taken in one order by all: the default, then sorted.
NextView(r, v) == v \in todo[r] /\ \A w \in todo[r] : v <= w

EqualsView(v) == IF v = Default THEN {} ELSE RowsOf(v)      \* mutant: = NULL

AllRows(v) == rows                      \* mutant: the cache, not the view

ToDelete(v) == RowsOf(v)

\* fetch_catalogue, of the client built for the view, and the DELETE it is
\* followed by: what the provider answers is a choice of its own.
FetchAndDelete(r) ==
    /\ pc[r] = "fetch"
    /\ \E v \in View, S \in SUBSET Key :
        /\ NextView(r, v) /\ Stable \subseteq S
        /\ at' = [at EXCEPT ![r] = v]
        /\ fetched' = [fetched EXCEPT ![r] = S]
        /\ seen' = [seen EXCEPT ![r] = ToDelete(v)]
    /\ pc' = [pc EXCEPT ![r] = "deleting"]
    /\ UNCHANGED <<rows, template, views, todo, deleted, inserted, raced,
                   refreshed, check>>

NewRows(r) == [view : {at[r]}, key : fetched[r], by : {r}]

NoIndex(x, y) == FALSE                  \* mutant: the constraint is missing

Conflict(x, y) == x.view # Default /\ x.view = y.view /\ x.key = y.key

\* q has deleted a row that r is to delete, or holds an entry of the index that
\* a row r is to insert conflicts with.
WaitsFor(r, q) ==
    /\ q # r /\ Open(q)
    /\ \/ pc[r] = "deleting" /\ seen[r] \cap deleted[q] # {}
       \/ /\ pc[r] = "insert"
          /\ \E x \in NewRows(r), y \in inserted[q] \cup deleted[q] :
                Conflict(x, y)

FinishDelete(r) ==
    /\ pc[r] = "deleting" /\ \A q \in Refresh : ~WaitsFor(r, q)
    /\ pc' = [pc EXCEPT ![r] = "insert"]
    /\ deleted' = [deleted EXCEPT ![r] = @ \cup (seen[r] \cap rows)]
    /\ seen' = [seen EXCEPT ![r] = {}]
    /\ UNCHANGED <<rows, template, views, todo, at, fetched, inserted, raced,
                   refreshed, check>>

Violates(r) == \E x \in NewRows(r), y \in rows \ deleted[r] : Conflict(x, y)

Insert(r) ==
    /\ pc[r] = "insert" /\ \A q \in Refresh : ~WaitsFor(r, q)
    /\ ~Violates(r)
    /\ inserted' = [inserted EXCEPT ![r] = @ \cup NewRows(r)]
    /\ todo' = [todo EXCEPT ![r] = @ \ {at[r]}]
    /\ pc' = [pc EXCEPT ![r] = IF todo'[r] = {} THEN "commit" ELSE "fetch"]
    /\ fetched' = [fetched EXCEPT ![r] = {}]
    /\ at' = [at EXCEPT ![r] = None]
    /\ UNCHANGED <<rows, template, views, seen, deleted, raced, refreshed, check>>

CommitNothingDeleted(r) == rows \cup inserted[r]    \* mutant

Replaced(r) == (rows \ deleted[r]) \cup inserted[r]

Close(r) ==
    /\ pc' = [pc EXCEPT ![r] = "ended"]
    /\ views' = [views EXCEPT ![r] = {}]
    /\ todo' = [todo EXCEPT ![r] = {}]
    /\ at' = [at EXCEPT ![r] = None]
    /\ fetched' = [fetched EXCEPT ![r] = {}]
    /\ seen' = [seen EXCEPT ![r] = {}]
    /\ deleted' = [deleted EXCEPT ![r] = {}]
    /\ inserted' = [inserted EXCEPT ![r] = {}]

Commit(r) ==
    /\ pc[r] = "commit"
    /\ rows' = Replaced(r)
    /\ refreshed' = refreshed \cup views[r]
    /\ raced' = [q \in Refresh |-> IF q = r THEN FALSE ELSE raced[q] \/ Open(q)]
    /\ Close(r)
    /\ UNCHANGED <<template, check>>

KeepDone(r) == Replaced(r)      \* mutant: what a failed refresh has done stays

AfterFailure(r) == rows

RollBack(r) ==
    /\ rows' = AfterFailure(r)
    /\ raced' = [raced EXCEPT ![r] = FALSE]
    /\ Close(r)
    /\ UNCHANGED <<template, refreshed, check>>

\* The provider refuses a view or does not answer, or the process dies.
Fail(r) == Open(r) /\ RollBack(r)

IntegrityFailure(r) ==
    /\ pc[r] = "insert" /\ \A q \in Refresh : ~WaitsFor(r, q)
    /\ Violates(r) /\ RollBack(r)

-----------------------------------------------------------------------------
(* set_mappings and publish: the view of the template is one query, the    *)
(* catalogue of that view the next.                                        *)

ReadTemplateView(c, t) ==
    /\ check[c] = None /\ template[t] # None
    /\ check' = [check EXCEPT ![c] = template[t].view]
    /\ UNCHANGED <<rows, template, progress, refreshed>>

DataFieldCatalogue(v) == {x.key : x \in RowsOf(v)}

\* The keys of which validate_mapping_rules says "unknown field".
Unknown(c) == Key \ DataFieldCatalogue(check[c])

ValidateRules(c) ==
    /\ check[c] # None
    /\ check' = [check EXCEPT ![c] = None]
    /\ UNCHANGED <<rows, template, progress, refreshed>>

-----------------------------------------------------------------------------
Step(r) ==
    \/ ReadViews(r) \/ FetchAndDelete(r) \/ FinishDelete(r)
    \/ Insert(r) \/ IntegrityFailure(r) \/ Commit(r)

Next ==
    \/ \E t \in Template :
        \/ \E v \in View : CreateTemplate(t, v) \/ UpdateTemplate(t, v)
        \/ ArchiveTemplate(t)
    \/ \E r \in Refresh : Step(r) \/ Fail(r)
    \/ \E c \in Check :
        \/ \E t \in Template : ReadTemplateView(c, t)
        \/ ValidateRules(c)

Spec == Init /\ [][Next]_vars

(***************************************************************************)
(* Properties.                                                             *)
(***************************************************************************)
TypeOK ==
    /\ rows \subseteq Row
    /\ template \in [Template -> TemplateRow \cup {None}]
    /\ pc \in [Refresh -> {"idle", "fetch", "deleting", "insert", "commit",
                           "ended"}]
    /\ views \in [Refresh -> SUBSET View]
    /\ todo \in [Refresh -> SUBSET View]
    /\ at \in [Refresh -> View \cup {None}]
    /\ fetched \in [Refresh -> SUBSET Key]
    /\ seen \in [Refresh -> SUBSET Row]
    /\ deleted \in [Refresh -> SUBSET Row]
    /\ inserted \in [Refresh -> SUBSET Row]
    /\ raced \in [Refresh -> BOOLEAN]
    /\ refreshed \subseteq View
    /\ check \in [Check -> View \cup {None}]

\* A named view has one row for a field, whatever refreshes overlap: what
\* UniqueConstraint("view_type", "key") is for.
OneRowPerField ==
    \A x, y \in rows :
        x.view = y.view /\ x.key = y.key => x = y \/ x.view = Default

\* Once a refresh has covered a view, a field that the provider offers all along
\* is in its catalogue, and no refresh of any view, committed or failed, takes it
\* out for a moment or for good.
RefreshedComplete ==
    \A v \in refreshed : Stable \subseteq {x.key : x \in RowsOf(v)}

\* A refresh that fails at a later view leaves the earlier ones as they were: where
\* rows of a refresh come to be seen, they are seen in all of its views.
AllViewsAtOnce ==
    [][\A r \in Refresh : (\E x \in rows' \ rows : x.by = r) =>
        \A v \in views[r], k \in Stable :
            [view |-> v, key |-> k, by |-> r] \in rows']_vars

\* A refresh during which no other committed leaves, in the views it covers, the
\* rows it has fetched and no other: duplicates of an earlier race are gone.
RefreshReplaces ==
    [][\A r \in Refresh :
        Commit(r) /\ ~raced[r] =>
            \A x \in rows' : x.view \in views[r] => x.by = r]_vars

\* A rule on a field that is always offered is refused as unknown only if no
\* refresh has covered the view its template had when the request looked.
RejectionExplained ==
    \A c \in Check : check[c] \in refreshed => Unknown(c) \cap Stable = {}

\* Refreshes never wait for one another in a circle, however long: they take the
\* views in one order, and of two that delete in one view the second waits for the
\* first.  (No finite set of them has each wait for one of the set.)
NoCircularWait ==
    \A S \in (SUBSET Refresh) \ {{}} :
        IsFiniteSet(S) => \E r \in S : \A q \in S : ~WaitsFor(r, q)

\* And none goes on for ever: a refresh that takes a step ends, has a view less to
\* cover, or comes closer to the end of the one it is working on.
Left(stage) ==
    CASE stage = "fetch" -> 3 [] stage = "deleting" -> 2 [] stage = "insert" -> 1
      [] stage \in {"idle", "commit", "ended"} -> 0

RefreshAdvances ==
    [][\A r \in Refresh : Open(r) /\ (pc'[r] # pc[r] \/ todo'[r] # todo[r]) =>
        \/ pc'[r] = "ended"
        \/ todo'[r] \subseteq todo[r] /\ todo'[r] # todo[r]
        \/ todo'[r] = todo[r] /\ Left(pc'[r]) < Left(pc[r])]_vars

(***************************************************************************)
(* The inductive invariant.                                                *)
(***************************************************************************)
\* A refresh that is not open holds nothing.
ClosedEmpty ==
    \A r \in Refresh : ~Open(r) =>
        views[r] = {} /\ inserted[r] = {} /\ deleted[r] = {}

\* What a refresh works on is one of its views, and what it has done is in them.
OwnViews ==
    \A r \in Refresh :
        /\ todo[r] \subseteq views[r]
        /\ pc[r] = "fetch" => todo[r] # {}
        /\ pc[r] = "commit" => todo[r] = {}
        /\ pc[r] \in {"deleting", "insert"} =>
              at[r] \in todo[r] /\ Stable \subseteq fetched[r]
        /\ pc[r] = "deleting" => \A x \in seen[r] : x.view = at[r]
        /\ \A x \in deleted[r] : x.view \in views[r]
        /\ \A x \in inserted[r] : x.by = r

\* Nobody's rows are there before it has committed.
RowsOfEnded == \A x \in rows : pc[x.by] = "ended"

\* It has inserted every stable field of the views it is done with.
DoneInserted ==
    \A r \in Refresh : \A v \in views[r] \ todo[r], k \in Stable :
        [view |-> v, key |-> k, by |-> r] \in inserted[r]

\* No two open transactions have deleted one row or inserted conflicting ones,
\* and one that has inserted a row has deleted what conflicts with it.
Exclusive ==
    \A r \in Refresh :
        /\ \A x \in inserted[r], y \in rows : Conflict(x, y) => y \in deleted[r]
        /\ \A q \in Refresh \ {r} :
              /\ deleted[r] \cap deleted[q] = {}
              /\ \A x \in inserted[r], y \in inserted[q] : ~Conflict(x, y)

\* Where no other refresh has committed, nothing escapes a DELETE.
NothingEscapes ==
    \A r \in Refresh : Open(r) /\ ~raced[r] =>
        /\ \A x \in rows : x.view \in views[r] \ todo[r] => x \in deleted[r]
        /\ pc[r] = "deleting" => RowsOf(at[r]) \subseteq seen[r]
        /\ pc[r] = "insert" => RowsOf(at[r]) \subseteq deleted[r]

\* It works on the least view of those to do, and those done are below them.
InOrder ==
    \A r \in Refresh :
        /\ pc[r] \in {"deleting", "insert"} => NextView(r, at[r])
        /\ \A v \in views[r] \ todo[r], w \in todo[r] : v < w

\* What it has deleted or inserted is in views it is done with, or, deleted, in
\* the one it is to insert into.
TakenInTurn ==
    \A r \in Refresh :
        /\ \A x \in inserted[r] : x.view \in views[r] \ todo[r]
        /\ \A x \in deleted[r] :
              /\ x \in rows
              /\ \/ x.view \in views[r] \ todo[r]
                 \/ pc[r] = "insert" /\ x.view = at[r]

\* Of two refreshes that look for the rows of a view, one has found whatever the
\* other has and is still there; and so it is when the other has deleted them.
SeenNested ==
    \A r \in Refresh : pc[r] = "deleting" =>
        \A q \in Refresh \ {r} :
            /\ pc[q] = "deleting" /\ at[q] = at[r] =>
                  \/ seen[r] \cap rows \subseteq seen[q]
                  \/ seen[q] \cap rows \subseteq seen[r]
            /\ \/ seen[r] \cap rows \subseteq deleted[q]
               \/ \A y \in deleted[q] : y.view = at[r] => y \in seen[r]

\* What it has found was committed.
SeenOfEnded ==
    \A r \in Refresh : \A x \in seen[r] : pc[x.by] = "ended"

\* So at most one of those open has deleted rows of a view.
OneDeletesInView ==
    \A r \in Refresh : \A q \in Refresh \ {r} :
        \A x \in deleted[r], y \in deleted[q] : x.view # y.view

WaitInv == InOrder /\ TakenInTurn /\ SeenOfEnded /\ SeenNested /\ OneDeletesInView

IndInv ==
    /\ TypeOK /\ OneRowPerField /\ RefreshedComplete
    /\ ClosedEmpty /\ OwnViews /\ RowsOfEnded /\ DoneInserted /\ Exclusive /\ NothingEscapes
    /\ WaitInv
=============================================================================

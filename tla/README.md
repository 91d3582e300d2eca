# A TLA+ model of edutap.pass_builder

`edutap.pass_builder` turns templates, mapping rules and the data of a person
into wallet passes.  Management requests maintain templates, variants, versions,
credential sets and a cached field catalogue in PostgreSQL; render requests read
them, ask the data provider for a person's fields, and sign an Apple bundle or
push an object to Google Wallet.  This directory models the parts of the service
whose correctness depends on the order in which concurrent requests, crashes and
other services act, checks the models with TLC on small instances, and proves
the central invariants with TLAPS for every instance.

Paths below are relative to `src/edutap/pass_builder/` unless they start with
`docs/`.

Contents: [inventory](#inventory), [modules](#modules),
[runs](#runs-and-what-they-show), [disagreements](#where-code-and-documentation-disagree),
[fairness](#fairness), [proofs](#proofs), [not modelled](#what-is-not-modelled),
[plan](#plan).

## Inventory

### How the service runs

One asyncio process per replica, any number of replicas, one PostgreSQL
database, one object store.  Every HTTP request gets one `AsyncSession` from
`database.get_session`: its first statement opens a transaction, a clean return
commits it, an exception rolls it back.  Services only `flush`.  Three facts
decide most of what can go wrong:

- The isolation level is PostgreSQL's default, READ COMMITTED, and no query of
  the service takes a row lock.  What a `SELECT` returned may be stale when the
  next statement runs; nothing checks it again.
- What does order writers is PostgreSQL: a row an open transaction has written
  makes the next writer of that row wait, and a unique index makes a conflicting
  writer wait and then fail.  Writers can deadlock; PostgreSQL aborts one.
- SQLAlchemy's unit of work writes a column only if the value assigned differs
  from the value loaded.  A request that assigns to a row it loaded earlier may
  write some of its columns, or none.

Google Wallet, the data provider, the image service and the object store take
part in no transaction.

### Components

| Component | State | Operations | Interacts with | What makes it correct |
|---|---|---|---|---|
| Template versions (`services/templates.py`) | `template_version` (status, number), `mapping_rule`, `template_asset`, blobs in the object store | import and create, `set_mappings`, `put_asset`, `delete_asset`, `publish`, `build_render_spec` | read by the render path; object store | at most one published version per variant; numbers 1..k without a gap; a published variant stays published; a version that has left draft does not change; a row's content is in the store |
| Template variants (`services/templates.py`) | `template_variant` (default flag, credential set, Google class) | create, patch, `sync_variant` | resolved by the render path when the caller names no variant | one default per template and wallet type; setting the flag sets it; it is not lost by accident |
| Templates (`services/templates.py`) | `template` (name, view, `archived_at`) | create, patch, archive | the view decides which catalogue validates a rule, and which views a refresh covers | a rule is refused only for a reason the author can see |
| Render path (`services/render.py`) | none of its own: objects at Google, `audit_log`, `pass_state` read | create, update, save link, deactivate, preview, fetch | versions, variants, credentials, data provider, Google Wallet, audit | one audit entry per call; the entry names what was rendered; success means the effect is there; a withdrawn pass stays so, unless an author's content says otherwise |
| Credential sets (`services/credentials.py`) | `credential_set`, `secret_blob` | create, install a certificate, import, renew, revoke | opened by the render path to sign | an active set can sign; metadata derived from its certificate; renewal does not interrupt issuance; revoke revokes |
| Field catalogue (`services/retention.py`, `routers/fields.py`) | `data_field`, rows per view | refresh of every view in use | data provider; validates mapping rules | a refresh replaces the rows of its views, all or nothing; a field that is always offered is never missing for a moment; refreshes do not block each other |
| Audit log (`services/audit.py`, `routers/_lifecycle_audit.py`) | `audit_log` | `write_audit` in the request's transaction, `write_audit_durable` on a connection of its own | every other component | an entry of a success is committed with it, an entry of a failure survives its rollback |
| Retention (`services/retention.py`) | `audit_log` | delete by age | none | deletes only what is older than the cutoff |
| Tenants and API clients (`services/tenants.py`, `startup.py`, `auth.py`, `ui/routers/tenants.py`) | `tenant`, `api_client`, an advisory lock | reconcile the declared tenants at start, create and revoke clients, resolve a token | every request's `AuthContext` | replicas starting together agree with the settings of the last; a revoked client or an inactive tenant gets no access |
| Rendering engine (`engine/`, `services/mapping_validation.py`) | none | validate rules, placeholders, conversion and binding, building an Apple bundle or a Google object | called by `set_mappings`, publish, preview and render | what an author has published shows; what is missing is named; a preview shows what a pass will, or fails |
| Clients of other services (`clients/`) | none | fetch fields, catalogue and images; object store | render, catalogue, versions | retry only a connection that was refused, and only once |
| Secrets and cryptography (`secrets/`, `crypto/`) | none | seal, open, keys, CSRs, certificate metadata | credential sets | what is sealed opens again |
| Management UI, admin (`ui/`, `admin/`) | none of their own | mount the same routers for another caller | as the API | authorisation |
| Frontend, settings, health, migrations | none | | | |

### Where it is hard

- **Stale reads.**  A draft check, a default flag, a published version, a
  certificate or a status is read by one statement and acted on by a later one.
- **Atomicity.**  Archiving the old version and publishing the new one are two
  flushes of one transaction; pushing to Google and writing the audit entry are
  not one transaction at all.
- **Partial failure.**  A render call has a dozen ways to fail, before and after
  its effect, and each owes one audit entry.  A lost answer of Google is a
  failure after the effect.
- **Silence.**  Rules without a place, values without a rule and fields nobody
  asked for raise no error at render time; only the checks of publish, and the
  preview, stand between an author's slip and a pass without a value.
- **Limits.**  An error entry needs a second connection while the request holds
  its first.
- **Deadlock.**  Publish calls, and calls that move the default flag, take rows
  in an order that depends on what they have read.  Refreshes of the catalogue
  take the rows of several views, and replicas that start want one lock.

`PROJECT.json` lists each of these at its line, with the properties that would
catch it going wrong.

## Modules

| Module | Models |
|---|---|
| `VersionRegistry` | abstract: what readers are promised about the versions of a variant |
| `TemplateVersions` | versions, rules and assets as interleaved transactions; implements `VersionRegistry` |
| `PassLifecycle` | abstract: a Google pass is created once and, once withdrawn, stays so until a content with a state of its own is offered to it |
| `Render` | the render path over a `VersionRegistry`; implements `PassLifecycle` |
| `Variants` | the default flag |
| `Credentials` | credential sets |
| `Catalogue` | refreshes of the field catalogue, templates and their views, validation of rules |
| `TenantTable` | abstract: what the tenant table and its clients promise |
| `Tenants` | replicas that reconcile tenants, clients, and calls that are let in; implements `TenantTable` |
| `Issuance` | from mapping rules to a pass: validation, fetching, binding, building, preview |
| `TemplateVersionsProofs`, `TemplateVersionsRefinement`, `RenderProofs`, `VariantsProofs`, `CredentialsProofs`, `CatalogueProofs`, `TenantsProofs`, `IssuanceProofs` | theorems about the module each one extends |
| `MC...` | small instances for TLC |

How they fit together.  `Render` composes with the versions through the
abstraction: it extends no detail of `TemplateVersions`, it takes the steps of
`VersionRegistry`, which `TemplateVersions` is proved to implement
(`RefinesRegistry`).  `Issuance` is the inside of two steps of `Render`, from
`resolved` to the push, with one step for set_mappings and one for publish, which
`TemplateVersions` takes apart.  `Catalogue` shows what a validation can see of
the catalogue, and `Issuance` takes the catalogue as something that changes at
any moment.

### TemplateVersions

A request is a sequence of steps, one for each statement whose place in an
interleaving matters: `pc` is where it is, `ver`, `slot`, `num`, `prev` and `sel`
are the local variables of the handler (what it has read), `del` and `ins` the
rows its open transaction has deleted and inserted, `holder` and `image` the
version rows it has written and not committed.  `status`, `number` and `rows`
are the committed tables, `blobs` the object store.

| Code | Actions |
|---|---|
| `create_google_version`, `import_apple_version` | `BeginCreate` (`_next_version_number`), `InsertVersion` (the flush that meets the unique index), `StoreBundle` (uploads and asset rows) |
| `set_mappings` | `BeginSetMappings` (the draft check), `ReadRules`, `ReplaceRules` (`_replace_rules`) |
| `put_asset`, `delete_asset` | `BeginPutAsset`, `BeginDeleteAsset`, `LoadAsset`, `RemoveAsset`, `UploadAsset`, `InsertAsset` |
| `publish` | `BeginPublish`, `Validate`, `ReadRules`, `ReplaceRules` (derived rules), `FindPublished`, `ArchivePrevious`, `LockTarget`, `MarkPublished` |
| `get_session` | `Commit`, `Refuse`, `IntegrityFailure`, `DeadlockVictim`, `Crash` |

`WaitsFor`, `Violates` and `Deadlocked` are PostgreSQL: row locks, unique
indexes, deadlock detection.  A mapping rule or an asset is a row
`[id, slot]`; the slot says what a call replaces (an origin, or a file name) and
the id stands for the rest of the row.

### Render

A call goes `new`, `resolved` (`_resolve`: `named`), `specified`
(`build_render_spec`, which resolves again: `spec`), `bound` (`fetch_fields`,
`bind`), `delivered` or `failing`, `ended`.  `deactivate_pass` and `save_link`
take the part of this path that their code has.  `object` is what Google holds
for a pass id: the class and design it was last written with, its state, and, as
history, the call that set the state last.  `authored` is what the `object_json`
of each version says of the state, which the author writes and nothing checks:
nothing, one state, or a placeholder that a person's data resolves to any
(`Contents`).  `Built` is `build_google_object`, which keeps it; `Patched` is what
`aupdate` makes of an object with that: its state changes exactly if the content
has one.
`audit` is the set of committed entries of a call.  `Raise` stands for every
exception before the effect, `LoseAnswer` for a push whose answer does not
arrive, `AuditError` for `write_audit_durable`, `PoolTimeout` for the same when
the pool has no connection left, `Commit` for `write_audit` with the commit of
`get_session`, and `Abort` for a failing commit or a crash.  The constant
`Faults` says which of these failures of the environment may happen.  Management
requests are `Manage`: a version added or published, a default that moves or
goes.

### Variants

Transactions as in `TemplateVersions`, for one template and one wallet type.
`loaded` is the flag the session's identity map has for the target; `Writes` is
the unit of work's comparison with it.  `FindDefault` and `ClearDefault` are
`_unset_default`; `Rename` is the flush of a patched name, which takes the row
before that; `TakeTarget` and `MarkTarget` are the `INSERT` or `UPDATE`, first
the row, then the index; `SkipWrite` is a flush with nothing to write.

### Credentials

`install_certificate` and `revoke` are a `Load` and a `Commit`, which writes, of
the columns assigned, those that differ from what was loaded (`Patched`).  They
write one row in one `UPDATE` and commit at once, so the lock between the two is
not seen by any other step.  `CreateApple`, `ImportApple`, `ImportGoogle` and
`Renew` insert a row of their own and are one step.  A certificate is for a key
(`KeyOf`) and has metadata (`InfoOf`, what `parse_apple_certificate` returns).

### Catalogue

`POST /fields/refresh` is one transaction over all views.  `ReadViews` is
`views_in_use`: the default view, which is NULL in the tables, and every view a
template names.  For each, in that order (`NextView`), `FetchAndDelete` is the
answer of the provider and the moment the `DELETE` looks at the table,
`FinishDelete` its end, when transactions that have deleted one of the rows it
has found are over, and `Insert` the flush that meets the unique constraint.
`deleted` and `inserted` are what the open transaction has done, `rows` what is
committed; a row remembers the refresh it is from.  `Fail` is a view the provider
refuses, a timeout or a crash.  Templates are created, moved to another view and
archived by single-row writes; a `Check` is a `set_mappings` or publish that
reads the view of its template and then the catalogue of that view.  `raced` and
`refreshed` are history variables: whether another refresh has committed since
this one began, and which views have been covered.

### Tenants

| Code | Actions |
|---|---|
| `reconcile_declared_tenants` in the lifespan of a replica | `Start` (with any of the `Declarations`), `TakeLock`, `ReadExisting`, `Reconcile` (its flush and its commit, which releases the lock), `Stop` (at any moment) |
| `create_client`, `revoke_client` of the UI | `CreateClient`, `RevokeClient`, by a person of the allow-lists |
| `current_auth`, `resolve_token` | `Arrive`, `LookUpToken` (the client), `CheckTenant` (its tenant), `Leave` |

As a `TenantTable`, each replica has settings and serves or not: `Start` is the
abstract `Configure`, `Reconcile` is `Serve`, `Stop` of a serving replica is
`Stop`, the two client operations are `Create` and `Revoke`, and every other step
is a stutter.
`Row` is what the unit of work leaves of a row: it writes the columns that differ
from the row read before.  `found` is a history variable: what of a call's client
and tenant has been active at some moment since it arrived.

### Issuance

One version of one variant, its catalogue, and one call.

| Code | Definitions |
|---|---|
| `set_mappings`, `publish` | `SetMappings`, `Publish` with `Valid` (`validate_mapping_rules`), `PlacesPicture` (`_check_image_rules`), `TargetExists` (`_check_apple_mapping_targets`), `Derived` (the rules of placeholders) |
| `build_render_spec` | `Begin`: the rules are read once, of a published version or of any that is pinned |
| `DataProviderClient.fetch_fields`, `ImageServiceClient.fetch` | `FetchFields`, `FetchImage`, `Refuse`, with `Unreachable` for the one retry of a refused connection |
| `required_fields`, `bind`, `_convert` | `Requested`, `Bind`, `Missing`, `Bound`, `Convert` |
| `apply_apple`, `apply_google`, `build_apple` | `Lands`, `Place`, `ApplyApple`, `ApplyGoogle`, `Unbuildable`, `Build` |
| `preview` | `Sampled`, `PreviewBound`, `Preview` |

Values are told apart by what can happen to them: a text, a long one, an address
of the image service, a JSON null, the bytes of a picture, and the few bytes that
stand for one in a preview.  A pass is what it shows at each place (`shown`).  A
preview runs the same `apply_apple`, so that `Unbuildable` ends it, too; its
answer has `pass_json` or `object_json` and `bound_fields`, and no pictures
(`Visible`).

## Runs and what they show

Passing runs:

| Run | Instance | Shows |
|---|---|---|
| `versions_publish` | 3 requests, 2 Google versions of one variant, fairness | `OnePublished`, `NumbersSequential`, `RequestsEnd`, that readers see a `VersionRegistry` (`ImplementsRegistry`: no published version is ever lost or seen halfway), and that none but publish calls of one variant deadlock (`OnlyPublishesDeadlock`) |
| `versions_edit` | 2 requests, every operation, 2 Apple versions, 3 row ids | `AssetsStored`, `OneRowPerFile`, `SettledFrozen`: a version that no open request works on is frozen for good |
| `render_calls` | 3 calls that create, update or withdraw one pass, for Apple or Google, with every kind of content (`AnyState`), lost answers | one audit entry per call (`AuditComplete`, refusals included), `SuccessMeansEffect`, `EffectAccounted`, and the objects at Google implement `PassLifecycle` (`ImplementsLifecycle`): nothing but an update whose content has a state of its own brings a withdrawn pass back |
| `render_live` | 2 calls of any kind, links included, a variant with 2 versions, 2 connections, every fault, fairness | every call ends, also when all fail at once (`CallsEnd`); pinned calls name what they render; the invariant of the proofs |
| `variants_race` | 2 requests, 3 variants, fairness | `OneDefault`; a default is lost only in the ways `LossExplained` names; `SetTakesEffect`; none but calls that set the flag deadlock (`OnlySettersDeadlock`); every request ends, deadlocks included |
| `credentials_race` | 2 requests, 2 sets, 2 keys, 4 certificates | an active Apple set can sign (`ActiveCanSign`), only a revoke retires it, only an install with a certificate for its own key makes it active (`StatusExplained`), and a call that meets the row it has loaded takes effect (`EffectUnlessRaced`); the invariant of the proofs |
| `catalogue_refresh` | 3 refreshes, one template, one validation, the default view and 2 named ones, 2 fields of which one is always offered | one row per field of a named view, nothing half done is seen (`AllViewsAtOnce`), an unraced refresh leaves only what it fetched, a rule on an offered field is refused only before the view was ever covered (`RejectionExplained`), refreshes never wait in a circle; the invariant of the proofs |
| `tenants_start` | 3 replicas with 3 settings that add, rename and drop one of 2 tenants, one client, one call, fairness | no replica inserts a tenant that is there (`NoDoubleInsert`), the table is that of a `TenantTable` (`ImplementsTable`: the settings of a replica reach it at once, as a whole, and nothing else does), a call that is let in had an active client and an active tenant, every replica comes to serve; the invariant of the proofs |
| `issuance_calls` | 6 contents, 17 lists of rules right and wrong, 2 catalogues, 9 persons, fairness | the place of a required rule of a published Apple version, and every placeholder of its field in a Google object, shows a value (`RulesLand`), missing fields are all named, a preview shows what a pass does, or fails for one of two reasons (`PreviewCovers`), every call ends; the invariant of the proofs |

Deadlock is checked, except in the runs on versions, where a finite pool of ids
is used up and no client has to call.

**Bounds.**  Two requests are the least that race; the third is there where it
can do something two cannot: a publish between two others, a cycle of three
waiting transactions, an update between a withdrawal and a create, a refresh or a
replica that comes in while one waits for another.  Two versions of one variant
suffice for every conflict over the published pointer, since a publish touches
its target and one previous version; versions of different variants share no row
and no index entry.  `versions_publish` leaves out rule rows, which no publish
conflicts over; in `versions_edit` three row ids let two calls write a slot that
already has a row.  In `Render` the calls interact only through Google's object,
so one pass is enough; a stale resolution needs two versions of the variant,
which `render_live` has; in `render_calls` one version leaves room for the third
call.  `render_calls` has every content an author can write, `render_live` the one
that resolves to either state.  What a default that moves to a second variant adds is in the proofs, which
hold for any number of them.  Three variants let a call find a default that is
the target of no call.  Four certificates are two that agree in their metadata,
one for the same key that does not, and one for another key.  Two named views and
the default are what refreshes need to take rows in different orders and to fail
with a view done and a view to go.  Three settings are those in which a tenant
appears, goes, comes back and changes its name.  The rule lists of
`issuance_calls` have two or three rules, which is what it takes for two to share
a place, a field or a placeholder, with each kind of slip an author can make in
some of them; the two catalogues offer or lack a field.  `MaxNumber` bounds the
versions of a variant in `Render`; the pools `Version` and `RowId` bound what
`TemplateVersions` can ever insert.  Symmetry is used in runs without liveness:
requests, versions, variants, passes, row ids and refreshes are interchangeable,
and certificates where `KeyOf` and `InfoOf` agree.

## Where code and documentation disagree

Each of these runs checks one property, which states what a comment or a page of
the documentation says, and ends in a counterexample.

| Run | Promise | What the code does |
|---|---|---|
| `versions_edit_race` (`PublishedFrozen`) | "A published version is immutable." | a change that checked for draft before a publish committed is written after it |
| `render_republish` | an entry names "the `template_version` that produced it" | the version is resolved twice, and a publish may come between |
| `issuance_placeholders` (`PlaceholdersResolved`) | the service "resolves each one against the caller's mapping" | publish makes rules of the placeholders that are not required, and only the fields of required rules are asked for: the object is pushed with `${...}` in it |

Passing runs show the weaker promises that hold whatever overlaps:
`SettledFrozen`, `PinnedAuditNamesRendered`, `RulesLand`.

The conditions in some of the passing properties are where the code does less
than a reader might expect:

- `SettledFrozen` speaks of versions no open request works on.  A publish that
  read a version as draft sets it back to published after others have published
  and archived it (`services/templates.py:258`).
- `SetTakesEffect` excepts a call that had read its target as the default: the
  unit of work then writes nothing, and if another call has taken the flag
  meanwhile the variant is left without it, or no variant has it
  (`services/templates.py:500`).
- `EffectUnlessRaced` excepts calls whose row has changed since they loaded it: a
  revoke of a set that was revoked and is being made active again leaves it
  active (`services/credentials.py:244`).
- `StatusExplained` lets an install make a set of any status active, a revoked one
  too (`services/credentials.py:95`).
- `PassLifecycle` has one way back from a withdrawal, and `SuccessMeansEffect`
  excepts it: an update whose `object_json` has a state pushes that as it is
  (`engine/google_build.py:19`, `services/render.py:925`), so that one with
  `"state": "ACTIVE"` makes a withdrawn pass active again, whether it races the
  withdrawal or follows it.  Import, validation and publish do not look at that
  key.  A create of a withdrawn pass succeeds and leaves it expired
  (`services/render.py:929`).  A withdrawal also sets the class, to that of the
  variant it names.
- `EffectAccounted` is checked with lost answers and not with failing commits: the
  push precedes the commit, and a commit that fails leaves an object without an
  entry (`services/render.py:925`).
- `AuditComplete` is checked with a connection more than there are calls.  With
  fewer, calls that fail together hold every connection while they wait for one
  more, and lose their entries (`services/audit.py:101`); `docs/reference/data-model.md`
  promises one entry per call, failures included.
- Two calls that set the default flag of two variants at once can meet in the
  unique index, where one of them fails (`services/templates.py:449`).
- `OneRowPerField` excepts the default view: two refreshes that overlap leave its
  rows twice, until the next refresh (`RefreshReplaces`).  `models/db.py:359`
  says "In practice there are none".
- `AccessExplained` does not say that client and tenant were active at one moment:
  they are read by two statements (`auth.py:44`, `auth.py:62`).  A call that is
  let in runs to its end, whatever is revoked meanwhile.
- `TenantTable` takes the settings in the order in which replicas come to serve: a
  replica with older settings that restarts later makes a removed tenant active
  again.
- `RulesLand` speaks, for Apple, of published versions.  A pinned call gets a
  draft, whose rules no publish has checked, and rules without a place are dropped
  in silence (`engine/apple_apply.py:70`).  It speaks of required rules: what
  becomes of the others is `PlaceholdersResolved`.
- `PreviewCovers` lets a preview fail where a pass of the same rules was answered.
  A preview binds every rule, also one that is not required and whose field is
  never asked for: if that one is a `json_pointer` to a place that is not there,
  the preview ends in an error and shows nothing, and the pass is built
  (`services/render.py:590`, `engine/apple_apply.py:45`).  Nor does it speak of
  pictures, which the answer of a preview does not have: `bound_fields` names
  their fields, and what the bytes are like no preview shows.  Fields mapped both as
  a picture and as a text share the placeholder of the first rule, so that a
  preview may show bytes as a text (`services/render.py:577`).

Other states the models reach, or the reading of the code showed, that no run is
about:

- Two `set_mappings` calls of one draft delete the rules they have read and insert
  side by side: the rules of both stay (`services/templates.py:885`).
- Two installs that overlap can mix the metadata of one certificate with the
  other (`services/credentials.py:85`).
- One template with a view that the provider refuses makes every refresh fail, of
  all tenants, and `update_template` cannot clear a view.  Views of archived
  templates are refreshed as well; rows of a view that nothing names any more
  stay.
- A template can move to another view under its published versions, which nothing
  validates again.  Derived rules are never validated against the catalogue.
- A JSON null of the provider is not missing: it is bound, and shown as a text.
- A `json_pointer` rule may write to `/serialNumber`, which
  `docs/reference/data-model.md:153` rules out and nothing enforces; one to
  `/nfc/message` is not measured against the limit of `nfc_payload`; one to a
  place that is not there is published without an error, fails in every preview,
  and in a call if its rule has a value.
- A picture mapped to `nfc_payload`, which publish refuses, is too long for it in a
  call of a draft and fits in its preview, whose picture has four bytes.
- Image rules that are not required are never fetched for, since their field is
  not asked for (`engine/binding.py:25`).

## Fairness

Safety runs assume none.  The liveness runs assume what the runtime gives:

- `TemplateVersions`, `Variants`: a handler has no loop and no timer, and a
  statement that waits for a lock sits in PostgreSQL's lock queue, which is served
  in order.  A step enabled again and again is therefore taken (strong fairness
  of `Step`), and PostgreSQL ends deadlocks.  Clients owe nothing, and neither
  `Crash` nor `Refuse` is what makes a waiting request end.
- `Render`: every await ends, by an answer or by the failure that a timeout of the
  HTTP client or of the pool turns it into (weak fairness of a call's next step
  or failure).  Management requests owe nothing.
- `Tenants`: the advisory lock is served in order (strong fairness of `TakeLock`),
  and a replica that has it goes on (weak fairness).  Nothing obliges a replica to
  start, or to stop.
- `Issuance`: an HTTP request ends by its answer or its timeout (weak fairness of
  `Step \/ Refuse`).  That a call ends in spite of refused connections is the
  work of the retry count, not of fairness: a retry is such a step.

## Proofs

Each proof module shows `Init => IndInv` and `IndInv /\ [Next]_vars => IndInv'`
for an inductive invariant, action by action, and derives the theorems from it.
Every one has been checked with TLC on the instances before it was proved, most
of them as an invariant of a run.  They hold for every set of requests, versions,
variants, passes, sets, certificates, refreshes, views, fields, replicas,
tenants, clients, rules and persons; the assumptions are the named `ASSUME`s of
the modules (the constants have their types, `None` is new).

| Theorem | Says | Argument |
|---|---|---|
| `TemplateVersionsProofs!TypeCorrect` | types | `LocalInv`: the locals of a request fit its stage |
| `TemplateVersionsProofs!OnePublishedCorrect` | at most one published version | an entry in the index, committed or pending, excludes every other of the variant, except one that the same transaction archives |
| `TemplateVersionsProofs!PublishedNeverLostCorrect` | a published variant stays so | only a commit shows; a transaction that holds an archived row at its commit holds a published one |
| `TemplateVersionsProofs!SettledFrozenCorrect` | a settled version is frozen | every call that could change it would have to pass the draft check first |
| `TemplateVersionsRefinement!NumbersSequentialCorrect` | numbers 1 to k | `NumberInv`: what a create has read is at most the next number, and the unique index lets it in only with exactly that, one create of a variant at a time |
| `TemplateVersionsRefinement!RefinesRegistry` | readers see a `VersionRegistry` | a commit appends a version (`CommitOfCreate`), moves the pointer (`CommitOfPublish`) or shows nothing; other steps change numbers only of versions nobody sees |
| `TemplateVersionsRefinement!AssetsStoredCorrect`, `OneRowPerFileCorrect` | rows point to content; one asset of a name | `ContentInv`: uploads precede their rows; of two uploads of a name one is past the index, and has deleted what had the name |
| `TemplateVersionsRefinement!OnlyPublishesDeadlockCorrect` | only publish calls of one variant deadlock | `HoldInv` says what a request has written at each stage; so who waits and keeps others waiting is a publish (`WaitsInTheMiddle`) |
| `TemplateVersionsRefinement!StuckRequestsAreBroken` | requests that wait only for one another, however many, include one that PostgreSQL aborts | of the sets of them that wait for one another take one with the fewest members: whatever one of these leads to leads back to it |
| `RenderProofs!TypeCorrect`, `Inductive` | types and the invariant | |
| `RenderProofs!SuccessHasEffect` | a success entry claims only what Google has; a withdrawal holds unless the state was set since by an update whose content has one | `EffectAtGoogle`, from the delivery on: no push removes an object, and one that changes the state of an expired one is such an update (`ObjectsKeep`), which `SetByCall` says stays what it was |
| `RenderProofs!PinnedIsNamed` | a pinned call renders and names its pin | `ResolvedAsPinned`: both resolutions give the pin |
| `RenderProofs!RefinesLifecycle` | the objects implement `PassLifecycle` | every push is a create, a withdrawal, a revival by an open call that offers the state, or a stutter (`PushStep`); other steps change at most what is offered |
| `RenderProofs!EveryCallAudited`, `EffectsTraceable` | one entry per call; no effect without one | under `OnlyAnswersFail`: a connection more than there are calls, and no failing commit or crash |
| `VariantsProofs!TypeCorrect`, `Inductive`, `OneDefaultCorrect` | types; at most one default | `Exclusive`, as for published versions |
| `VariantsProofs!LossIsExplained`, `SettingTakesEffect` | how a default is lost; setting the flag sets it | `CallOfStage`: a call about to commit that wanted the flag holds it, unless it had read the flag as set |
| `VariantsProofs!OnlySettersDeadlockCorrect` | only calls that set the flag deadlock | a call that does not waits for one row and holds none meanwhile, so that nobody waits for it |
| `CredentialsProofs!TypeCorrect`, `Inductive`, `ActiveSetsSign` | types; an active set can sign | `Checked`: an install has checked its certificate against a key no step replaces, and the columns it leaves out are filled already |
| `CredentialsProofs!CallsTakeEffect` | an unraced install or revoke takes effect | a column not written has the value already |
| `CredentialsProofs!StatusIsExplained` | only a revoke retires a set; only an install for its key makes it active | inserts leave other rows alone; a column is written only by the call it is assigned in, and `Checked` |
| `CatalogueProofs!OneRowPerFieldCorrect` | one row per field of a named view | `Exclusive`: a transaction that has inserted a row has deleted what conflicts with it, and no two hold conflicting rows |
| `CatalogueProofs!RefreshedStaysComplete`, `RejectionsExplained` | an offered field never goes missing | `DoneInserted`: what a refresh deletes in a view, it has inserted again before it commits |
| `CatalogueProofs!ViewsAtOnce`, `RefreshesReplace` | all views or none; an unraced refresh replaces | `RowsOfEnded`: rows show at a commit only; `NothingEscapes`: without another commit, the `DELETE`s find every row |
| `CatalogueProofs!RefreshesNeverDeadlock` | refreshes never wait in a circle, of any length | `WaitsAhead`: whom a refresh waits for is at a later view, or at the same one about to insert, where it waits only for later ones; `OneIsLast`: finitely many have a last view |
| `CatalogueProofs!RefreshesAdvance` | a refresh that goes on comes closer to its end | it has a view less, or is a stage further in its view |
| `TenantsProofs!NeverDoubleInserts`, `RefinesTable` | no tenant is inserted twice; the table implements `TenantTable` | `Locked`, `ReadIsCurrent`: the replica between its read and its commit is the one that holds the lock, so what it has read is what is there (`RowAsDeclared`); other steps stutter |
| `TenantsProofs!AccessIsExplained` | who is let in was active | `CallsExplained`: a step of a call records what it has seen |
| `IssuanceProofs!RulesLandCorrect` | no required rule is dropped, in a published Apple version or in a Google object | `Checked` rules land (`LandsOnApple`), bound ones fill each placeholder of their field (`LandsOnGoogle`), and of the rules for a place the last shows |
| `IssuanceProofs!MissingNamedCorrect` | all missing fields are named | `OnlyAsked`: the provider has been asked for exactly the fields of required rules |
| `IssuanceProofs!PreviewCoversCorrect` | a preview shows what a pass does, or fails for one of two reasons | every rule binds in a preview (`PreviewValues`), what a pass shows outside its files lands there, too (`VisibleWritten`), and what ends it is a rule the pass had no value for or a long sample |
| `IssuanceProofs!CallsAdvance` | a call that goes on comes closer to its end | it is a stage further, has a picture less to fetch, or one attempt less |

The invariants are stronger than what they show because the properties speak of
committed rows and the steps of what open transactions hold: without the
pending entries of the index (`holder`, `image`, `inserted`), `OnePublished`,
`OneDefault` and `OneRowPerField` are not inductive.

**Only model-checked.**  The liveness properties (`RequestsEnd`, `CallsEnd`,
`CallEnds`, `StartsEnd`) rest on fairness and `ENABLED`, which are out of the
prover's reach.  What they rest on besides is proved: that those who wait do not
wait in a circle (`RefreshesNeverDeadlock`), or that PostgreSQL ends the circle
(`StuckRequestsAreBroken`, `OnlySettersDeadlockCorrect`), that the lock is held
only by a replica that is about to release it (`Locked`), and that steps lead
towards the end (`RefreshesAdvance`, `CallsAdvance`).  Induction over data is out
of reach too; where a proof is about sets of any size it takes a least
counterexample instead (`HasSmallest`, `HasSmallestStuck`).

The disagreements of the previous section are counterexamples, which need no
proof.

## What is not modelled

- **Templates**: a name and a description are labels no other step reads.
- **`fetch_apple_pass`** reads a pass another service has recorded
  (`pass_state`), which nothing in this repository writes to.
- **`sync_variant`** pushes the class of the version it has read and writes no
  row; a publish that commits meanwhile leaves the older class at Google until the
  next call.  Nothing promises more.
- **Audit entries of management calls** (`routers/_lifecycle_audit.py`): one per
  request, written in the two ways `Render` models for a call.
- **Parts of the engine**: number and boolean values, which no field kind of the
  catalogue maps to; whether a payload rule suits its platform and whether the
  credential set may sign NFC; the walk of a JSON pointer through lists and the
  escape of a placeholder; images of Google objects beyond their place; the
  authentication token of the web service.
- **Scopes**: a call is let in or not; which handlers it may then use is a fixed
  set per client.
- **Which credential set signs**: `open_material` opens whatever set the variant
  names and does not look at its status; nothing in the code or its documentation
  says whether it should.
- **Statuses of error answers**: an answer that is not a success ends a call;
  which problem it is reported as is not told apart.
- **Cryptography, the frontend, settings, health and migrations**: library calls,
  configuration and wiring without state that concurrent steps share.
- **Retention of audit entries**: one `DELETE` by age, which an operator runs.

The environment is an assumption: PostgreSQL as described above, a data provider
that lists the fields of a view in one order (two refreshes that insert the same
fields in two orders could wait for each other, and PostgreSQL would abort one),
`PATCH`
semantics of Google's `aupdate` (it changes the keys the object it is given has,
so that the state stays if `object_json` has none), and a commit that precedes the answer to the
client.  The last is a matter of the FastAPI version, which the project does not
pin (`database.py:56`).

## Plan

Done, in order of importance:

1. `VersionRegistry`, `TemplateVersions`, proofs of its safety and of the
   refinement.
2. `PassLifecycle`, `Render` and proofs.
3. `Variants` and proofs.
4. `Credentials` and proofs.
5. `Catalogue` and proofs.
6. `Tenants` and proofs.
7. `Issuance` and proofs.

What could follow:

8. `RequestSession`: the entries of management calls (`_lifecycle_audit.py`) with
   commit, rollback and the durable error entry; `sync_variant` racing a publish.
9. That `Issuance` implements the steps of `Render` between `resolved` and
   `bound`, as a refinement.

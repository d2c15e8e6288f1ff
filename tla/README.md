# A verification development for the WKG command centre

The command centre is a Next.js application over one Postgres database
(Drizzle), with background functions run by Inngest and a nightly import of
sales from Azure blobs. It tracks hotels ("locations"), the kiosks installed in
them, what the kiosks sell, the commission the hotels are owed, and which
hotels perform badly enough that somebody must be told.

Nearly every property of interest is about the **database under concurrent
writers**: server actions that are sequences of autocommitted statements, a few
transactions, two kinds of advisory lock, unique indexes used as the last line
of defence, and Inngest steps that may be executed more than once. This
directory models the parts where that matters, checks them with TLC on small
instances and proves the central invariants with TLAPS for all instances.

Paths below are relative to the repository; the application is under
`src/`, so `lib/location-merge.ts` is `src/lib/location-merge.ts` of it.

## 1. Inventory

### 1.1 Components

| Component | State | Operations | Hard behaviour | What makes it correct |
|---|---|---|---|---|
| Azure sales ETL (`lib/sales/etl/*`, `settings/data-import/sales/pipeline.ts`, `scripts/ingest-local-csv.ts`) | `sales_imports`, staged rows, `sales_records`, `sales_blob_ingestions`, a session advisory lock | start, list, pull, stage, rate check, commit, record; errors on each | runs of cron, manual button and CLI overlap; the lock is a pooled session's; crash between commit and bookkeeping; statements whose answer is lost; retries | no bytes ingested twice; a success row is backed; only valid rows with fresh rates appear; a bad blob does not block the others |
| Email function (`inngest/functions/send-email.ts`) | `email_log`, memoised steps | render, call Resend, log, settle | steps repeated after a lost response; errors that are values; deduplication after the send | no call after one returned; the log tells the truth; every request ends |
| Weekly POC alerts (`inngest/functions/weekly-poc-alerts.ts`, `lib/performance-alerts/*`) | `location_performance_alert_state`, memoised steps | load, diff, write state, emit, report | state written before the mails go out; partial upserts; dates that come back as text; a cap on the hotels a digest names; contacts whose account is gone | a hotel is not reported twice within the cool-down; its stamp is not lost; no alerted hotel is left out |
| Location merge and undo (`lib/location-merge.ts`, `undo-merge.ts`) | ten tables with a `location_id`, `location_merge_snapshots`, a transaction advisory lock | merge with field resolutions, undo; archive, edit of fields and of hotel groups, insert of rows, bulk merge | writers that take no lock between a merge's statements; chains of merges undone in any order; unique indexes | of a merge nobody comes into: no index is met, nothing is lost, its undo is the inverse |
| Commission (`lib/commission/*`) | `commission_ledger`, `location_products.commission_tiers`, `sales_records` | calculate after an import, recalculate a month, edit tiers, summarise | cumulative brackets, each rounded to the penny, over a month that several imports fill; chunked inserts without a transaction; recalculation | an entry owes its marginal part; the division into imports does not matter but for the rounding; a recalculation repairs |
| FX rates (`inngest/functions/fx-rates-fetch-daily.ts`, `lib/fx/*`) | `exchange_rates` | fetch a day, store it, carry forward | repeated and late upserts, weekends, the 7-day limit, rates that arrive between the chunks of a commit | every converted amount comes from a rate of the table that is at most 7 days old |
| Reversal matching and the rows of a commit (`lib/sales/reversal-matcher.ts`, `_commitImportForActor`) | `import_stagings`, `sales_records` with their originals | match within an import, match against committed sales, convert and insert in chunks | several refunds of one booking, partial refunds, a refund and its original in different chunks, other commits and merges next to it | a refund has a fitting original that nothing better was left for, is where its original is, and meets its foreign key in every chunk |
| Multi-POS review and bulk merge (`settings/duplicates/*`, `lib/multi-pos-merge.ts`) | `merge_proposals` | decide, apply all approved | a transaction at READ COMMITTED without the merge lock; `applied_at` stamped after the commit, so that pairs are applied again; swapped pairs in any order | what a hotel has goes where its pairs lead, the first time and every time, unless somebody commits in between; a stamp is only on what was merged |
| Kiosks and assignments (`kiosks/actions.ts`, `bulk-actions.ts`, `lib/merge.ts`, `lib/monday/import-assets.ts`, `installations/actions.ts`) | `kiosks`, `kiosk_assignments`, `installation_kiosks` | assign, reassign, archive, bulk archive, merge, import, link | close-then-insert, move-then-archive in autocommitted statements | a second open assignment is the trace of a race, and the next assignment clears it; a request left alone does what it says |
| Pipeline stages (`settings/pipeline-stages/actions.ts`) | `pipeline_stages`, the stage of a kiosk | create, update, delete with reassignment; create and move kiosks | default flag moved in two statements; a deletion counts, moves and deletes in three | a second default stage is the trace of a race, and the next edit clears it; a request left alone does what it says |
| Geocoding (`lib/geocoding/pipeline.ts`) | coordinates; the staged rows are the browser's | dry run, apply | applying a dry run that is out of date | coordinates belong to the address |
| Monday import (`lib/monday/*`) | locations, products | upsert from a board | session lock as in the ETL | operator edits survive |
| Analytics cache (`lib/analytics/cached-query.ts`) | Next's cache, by tag | read through, refresh a tag | writes that refresh no tag, or one nobody carries | what a page shows is at most as old as promised |

Left aside, with the reason in `PROJECT.json`: users, sessions and roles (a
library's), query scoping (stateless), analytics queries and exports
(read-only), weather cache, single-row settings, installations, audit log,
user interface, mail templates, migrations and operator scripts.

### 1.2 How they interact

* The ETL **stages and commits** through the same helpers as the local-CSV
  script, then calls the **commission** processor on a best effort; it reads
  `exchange_rates`, and asks the **email function** to report stale rates.
* The **weekly alerts** read sales and hand their digests to the **email
  function** as `email/send.requested` events; the only shared state is the
  hash of a digest, in `email_log`'s unique index.
* A **merge** rewrites the `location_id` of rows that the ETL, the kiosk
  actions and the operators insert without taking its lock; imports resolve a
  customer code among archived locations too.
* The **bulk merge** rewrites the same tables as the merge, without its lock
  and without snapshots; the statements both run for a pair of hotels are
  those of `HotelTables`.

### 1.3 Hazards

`PROJECT.json` lists forty, each at its line, with the properties that would
catch it going wrong or the reason why none does yet. The kinds that recur are
state read before an await and used after it, a locally correct retry that
meets what its first attempt left behind, bookkeeping written after the commit
it describes, and cumulative amounts computed from what happens to be there.

## 2. Plan

The order is by how much damage a mistake does and how little a test sees of it.

1. **SalesEtl** with **IngestLedger**, its abstract specification (done:
checked, proved, refined).
2. **SendEmail** and **PocAlerts** (done: checked, proved); **PocAlertMail**,
which composes the two (done: checked, proved).
3. **LocationMerge** (done: checked, proved).
4. **Commission** (done: checked, proved).
5. **FxRates** and **SalesCommit**, which extends it: the rows of an import
with their refunds, originals and rates (done: checked, proved).
6. **BulkMerge** (done: checked, proved).
7. **KioskAssignments**, **PipelineStages** (done: checked, proved).
8. **Geocoding**, **AnalyticsCache**: small modules about data applied or shown
too late. Then positions of stages, and the rest of the Monday imports.

Abstract specifications worth having: IngestLedger (done); an *alert contract*
(per hotel: armed, alerted, cooling down) that PocAlerts implements for runs
that do not overlap; a *location partition* (which location a row counts for)
that merge, undo and bulk merge implement.

What is left to the model checker is listed at the end of section 5.

## 3. What is modelled

In every module an action is what the code does between two awaits, or inside
one database transaction that is under a lock or of one statement; everything
that may happen in between is another action of Next. Properties are stated at
the end of a module.

### SalesEtl, IngestLedger

| Variable | Code |
|---|---|
| `bytes`, `badRows`, `staleFx` | the container; which files do not validate, or have no rate within 7 days |
| `imports`, `sales`, `ingestions` | `sales_imports`, the imports whose rows are in `sales_records`, `sales_blob_ingestions` |
| `lock[c]` | how often session `c` of the pool holds the advisory lock |
| `pc`, `todo`, `cur`, `file`, `imp` | locals of a `runAzureEtl` call or of the script |

`StartRun`, `Unlock` and `CloseIdle` are `withAdvisoryLock` over a pool: the
lock is re-entrant for its session, the unlock may reach another one, and an
idle connection that is closed takes its locks along. `Visit`, `PullBlob`,
`Stage`, `FxPreCheck`, `Commit`, `MarkFailed`, `AfterCommit`, `RecordSuccess`,
`RecordFailed` are the blob loop. `Throw` is a statement that throws without
effect and `ThrowTargets` where that leads; `AnswerLost` is a statement that has
taken effect and whose answer is lost, so that the catch blocks run all the
same: a committed import is marked failed (and remembered in `unacked`), a
success row is overwritten. `LockAnswerLost` leaves the lock held by a run that
never starts. `PullLocal` is the script's entry, which has neither lock nor
ingestion rows. `Publish`, `FixRows` and `FxArrives` are the world outside.
A file's rows are valid or not, and its rates fresh or not, as a whole.

`IngestLedger` is the promise: a set of (import, contents) that only grows and
in which no contents repeat. `ImplementsLedger` maps the visible imports to it.

### SendEmail

`step`, `attempts` and `result` are Inngest's: the step to execute next, its
failed executions, the memoised value of `resend-send`. `calls`, `delivered`
and `rows` are the effects. An error Resend *returns* is a value, and memoised
like one; a response that is *lost* makes the step execute again. A step may
also take effect and lose its value. `KeyLogged` is the partial unique index
on (kind, payload_hash), which the insert of `Log` gives way to.
`CopiesAreBounded` is what the header's promise comes to: the retries of the
call itself are all that can multiply a mail.

### PocAlerts, PocAlertMail

`PocAlerts` has the five steps of the weekly function with their memoised
values (`seen`, `alert`, `prior`, `stamp`) and the table of alert states.
`WriteState` upserts any part of the hotels before it fails, and all of them
when it succeeds. A memoised value is JSON: the `lastAlertedAt` of `diff-state`
is a Date only for an execution that goes on in the same process, and text for
every later one, which the timestamp column refuses. `Storable` has the rows
that can be written, so a run with a hotel that was alerted once and is not
alerted now may be unable ever to finish the step.

`EmitPocEmails` may send its events and then lose the value. A digest names the
`Cap` worst hotels of its POC (`Named`) and counts the others (`More`); a POC
whose account was deleted since the classification gets none. What `load-config`
classifies and ranks is an arbitrary choice of eligible and bottom-tier hotels;
the POC of a hotel may change at any time, and the account of a POC that no
hotel has may be deleted (`DeleteUser`; the foreign key protects the others).
An account always has an address: the column is NOT NULL. Time is in ticks.
`lastMail` and `recovered` are history variables.

`PocAlertMail` composes it with `SendEmail` by `INSTANCE`: the digests are the
events, the pair of POC and ISO week their key.

### HotelTables

The tables the two kinds of merges rewrite, and their statements for one
canonical location and one defunct one. Tables treated alike are one variable:
`at` (rows with an id: assignments, sales, products, flags, action items),
`single` (memberships unique by location), `multi` (hotel groups), `archived`.

Both merges run at READ COMMITTED: a statement sees what others have committed
by then and what its own transaction has written, and nobody sees the writes
before the commit. So a transaction is the set of its writes (`Writes`), what it
sees is `Seen(writes)`, and a statement adds the difference it makes (`Wrote`).
Row and key locks are `Apart`: two transactions with writes in common would
have waited for each other. `WithoutCollisions` is the DELETEs, `Rewritten` the
UPDATEs and the archival, and `MeetsIndex` says when an UPDATE fails.

### LocationMerge

A merge is its reads under the lock (`BeginMerge`), the update of the canonical
location's fields (`ResolveFields`), for each defunct location the DELETEs
(`DeleteCollisions`) and the UPDATEs (`RewriteReferences`), and `CommitMerge`,
or `AbortMerge` anywhere. Between any two of these the writers that take no lock
may commit: `ArchiveLocation`, `UpdateLocationField`, `SetHotelGroups` (each of
its two autocommitted statements), `InsertRow` (an assignment or an import) and
`BulkMergePair`, an `applyBulkMerge` for a pair. `UndoMerge` is one action: it
deletes its snapshot row first, and fails as a whole where a membership it gives
back meets an index. `before` and `after` remember the data around a merge, for
the properties only; `after` is not set when somebody came in between.

The reads of a merge are one step, and so are the DELETEs and the UPDATEs for one
location. The properties are about merges nobody has come into, for which this
makes no difference. What other writers can do to a merge is therefore shown by
its steps and claimed by no property: a row inserted for a merged location is
moved but in no snapshot; a hotel group, a field or an archival of the meantime
is lost or undone; a region that comes to the canonical location after the
DELETE makes the UPDATE fail.

### Commission

One location product and one month. `Import` is the call after a commit,
`Recalculate` the reversal of the month's entries, `ListMonth` and `Calculate`
the reads, `InsertEntries` the chunked inserts through the pool, which are
visible at once, `Commit` the reversals' transaction, `Fail` an error or a
crash at any point. `Active` is the choice of the tier version by day;
`Waterfall` pours an amount into the brackets, the one with the highest floor
last, as the loop over the sorted brackets does. `DayOrders` are the orders the
sort by day may leave the rows in, and `Base` is the running total a row starts
from. An entry is a set element: `calc` tells the calculation that wrote it, so
no two are equal. Amounts are in pence and rates are integers, parts of `Whole`;
`Pence` rounds each bracket's part of a commission as `engine.ts:66` does, halves
up. That the code computes in floating point, and the conversion to GBP, are left
out.

### FxRates, SalesCommit

`FxRates` is `exchange_rates` for one foreign currency: `FetchRates`,
`StoreRates` and `EndFetch` are the steps of the daily function, of which the
second may be executed again; `RateDay` is `getRateForDate`. A run may ask for
any day, the cron late by its retries, the manual script as told.

`SalesCommit` extends it by `_commitImportForActor`. `row` is what the staged
rows say after their locations and regions are resolved; `BeginCommit` reads
the staged rows in any order (a bijection to positions), matches the refunds in
the batch (`InBatch`) and the rest with committed sales (`Across`),
`InsertChunk` is one chunk with the rates its rows find at that moment,
`EndCommit` and `FailCommit` the end of the transaction. What other commits
have not committed is not seen; what they have, the rates and the merges
(`MergeLocations`) are seen at once, because the transaction is `READ
COMMITTED`. An import is committed at most once, by the one who staged it
(`azure-etl.ts`, `ingest-local-csv.ts`); amounts of zero are left out. A record
has the amount in pounds and nothing else of its conversion, as the table does:
`InPounds` divides by the rate and rounds to the penny.

### BulkMerge

`decision` and `applied` are `merge_proposals`; `call[w]` is an application that
has read its pairs (`BeginApply`: the SELECT has no order) and merges them in one
transaction without a lock: for each pair `DeleteCollisions` and
`RewriteReferences`, then `CommitMerges`. `StampProposals` is a statement of its
own after it. An application may fail at any point (`Fail`), and where two wait
for each other the database fails one. Others commit between the statements:
the second application, and inserts of rows (`InsertRow`). The page and the script
`multi-pos-merge.ts` are the same but for who calls them. `address_fix`
counts as a rejection, both are documentation to the code.

`AppliesFollowPairs` holds of applications nobody has committed into since their
first statement (`Undisturbed`), and not of others: without that condition TLC
finds a like inserted between the DELETE and the UPDATE. `Undisturbed` does not
mean alone: another application may have read and begun, and waits or fails.

### KioskAssignments

`request[w]` is a server action or an import under way and its next statement;
every statement is an action, because none of this code uses a transaction:
`CloseOpen` and `InsertAssignment` are an assignment (or reassignment),
`CloseOpen` and `StampArchived` an archival, `CheckPair` and `PlaceAsset` one
asset of the import, `Repoint` to `ArchiveSources` a merge of kiosks.
`BulkArchive`, `LinkKiosk` and `UnlinkKiosk` are one statement each. `Fail` ends
a request anywhere. `alone` and `mixed` are history: requests nobody interfered
with, and kiosks that got rows by other ways than an assignment.

### PipelineStages

Built the same way: `UnsetDefaults` and `SetDefault` are `updateStage`,
`CountStages`, `CountKiosks`, `Reassign` and `Delete` are `deleteStage`,
`FindDefault` and `InsertKiosk` are `createKiosk`, `SetStage` is an edit of one
or many kiosks. The foreign key from kiosks to stages has no cascade, so a
statement that would break it is an error.

## 4. Runs

Run times are a few seconds to three minutes.

| Run | Properties | Instance | Distinct states |
|---|---|---|---|
| `etl_shared_pool` | TypeOK, NoDoubleIngest, StatusTellsRows, SuccessIsBacked, CommitIsGated, ImplementsLedger | 2 runs in one process, 1 script, 2 connections, 1 blob, 1 file, 2 faults | 304 thousand |
| `etl_solo` | EveryBlobSettles | 1 run, 2 blobs, 2 files, 2 uploads, 1 fault | 391 thousand |
| `email_function` | TypeOK, EndTellsTruth, CopiesAreBounded, NoResendAfterReturn, EveryRequestSettles | 2 events of one hash, 2 retries | 25 thousand |
| `alerts_two_hotels` | TypeOK, StampSurvives, NobodyForgotten, AlertSpacing | 2 hotels, 1 POC, 1 run at a time, clock to 3, cool-down 2, a cap of 1, 1 retry | 2.3 million |
| `alert_mail` | AlertsReachTheirEnd | 1 hotel, 2 digests, clock to 1, 1 retry of the alerts and none of the mails | 226 thousand |
| `location_merge` | TypeOK, NoIndexIsMet, MergeLosesNothing, UndoInverts | 3 locations, 2 rows of one product, 2 regions, 1 group, 2 merges of up to 2, 1 commit of another writer | 509 thousand |
| `commission` | TypeOK, EntriesAreMarginal, SplitNeutral, RecalcRepairs | 3 rows on 2 days (one a refund), 4 tier histories, 2 calculations at a time, 3 in all, amounts that do not divide evenly | 1.6 million |
| `sales_commit` | RefundsFindOriginals, ConversionsStand, NoBetterOriginalLeft | 4 rows of 2 imports drawn from 5 (3 sales, 2 refunds, 2 references, 2 sizes), 3 days with a limit of 1, 2 rates, chunks of 2, 1 fetch, 1 merge | 1.3 million |
| `bulk_merge` | TypeOK, StampedWasMerged, AppliesFollowPairs | a cluster of 3 hotels (2 pairs), 2 product rows and 1 other, 2 regions, 2 applications, 3 decisions, 1 insert | 1.8 million |
| `kiosk_assignments` | TypeOK, OpenRowsAreRivals, LoneRequestSettles | 2 kiosks, 2 locations, 1 installation, 2 requests at a time, 3 in all | 263 thousand |
| `pipeline_stages` | TypeOK, DefaultsAreRivals, LoneRequestSettles | 3 stages, 2 kiosks, 2 requests at a time, 3 in all | 232 thousand |

Why these bounds are enough to meet the cases: two holders of a lock, two
importers of the same bytes and faults between any two of their steps need two
runs, one blob and two faults: a lost answer, and a crash or an error after it.
A cool-down is crossed and is not crossed within three ticks. Two hotels of one
POC are what makes a partial write different from none, and one of them fall
behind a cap of one. Two merges of up to two of three locations give chains (a
into b, b into c), cross merges, a list whose order matters and an undo out of
order. Three rows on two days give an import that arrives before an earlier
day's, a row spanning a bracket, a refund, and a chunk that fails in the
middle. Three rows of one import and one of another give a refund that competes
with a second one for an original, is left for a committed original, falls into
another chunk than its original, or becomes an orphan; a rate that arrives
between two chunks; and a merge between a match and its insert. Two pairs of
one cluster, swapped or not, give chains and clashes in either order, and two
applications give every repetition. Three requests of two users are what it
takes for two open assignments, or two default stages, and then a third that
clears them. Two imports or merges are started from hotels that share a region
and a product, which the initial states of the MC modules select: without that
nothing collides. `MCPocAlerts` lets contacts, accounts and the clock change
only while a run is about to read them, which reaches the same decisions, rows
and digests in fewer states. Every bound is a constant named `Max...`; symmetry
is used only over values without order and never together with a liveness
property.

`CHECK_DEADLOCK FALSE` is set where the system really stops: all mails ended,
all merges undone, the bound on calculations reached.

### Fairness

* `SalesEtl!FairSpec`: the cron starts runs for ever, a run goes on unless it
  crashes, and a pool closes idle connections (`idle_timeout`); the last is what
  frees a lock whose unlock went to another session. Nothing is asked of the
  feed, the operator, the script or the rate table.
* `SendEmail!FairSpec`, `PocAlertMail!MailFairSpec`: Inngest keeps executing a
  run it has accepted. Clock, triggers and operators get no fairness.

All of it is weak fairness of a disjunction of steps of one actor.

### Claims that do not hold

`merge_undo_claim` checks a sentence of the repository and finds it violated:
`location-merge.ts:419` says that an undo restores the prior values byte for
byte. With a shared region or group the merged location's row was deleted as a
duplicate, and the undo takes the canonical location's own row away.

Other disagreements met while modelling, which the models exhibit but no run of
the present set checks:

* `location-merge.ts:11` says a snapshot has every row that the merge will
  rewrite. A row committed by an import or an assignment after the reads is
  rewritten too, is in no snapshot, and stays with its undo.
* `tests/performance-alerts/idempotency.integration.test.ts:121` runs the weekly
  job twice. Its step shim hands values on as they are; Inngest hands them on as
  JSON, and the second run cannot write back a `lastAlertedAt` that has become text.
* The catch of the commit marks an import failed whose COMMIT took effect and
  whose answer was lost, and the catch of the loop overwrites a success row the
  same way. No retry repairs either: the hash is taken. `StatusTellsRows` names
  the one and nothing claims the other.
* `advisory-lock.ts:8` says only one run is active per DB at a time. Two runs of
  a process served by one pooled connection both take the lock. The data
  survive: `NoDoubleIngest` rests on the unique index and not on the lock, as
  the proof shows.
* `azure-etl.ts:27` says failed ingestions are re-attempted. A blob that failed
  after staging is refused by the hash of its own first attempt, for ever.
* `send-email.ts:28` says retries handle transient Resend errors. A returned
  error is memoised, so the retries replay it and never call again.
* `09-CONTEXT.md:174` says re-runs of a week collapse to a single email. The
  index keeps one *row*; it is consulted after the mail was sent.
* `reversal-matcher.ts:38` makes the match independent of the order of the
  rows. It is for one refund; where two refunds compete, the first one takes the
  better original, and the staged rows are read without an order.
  `NoBetterOriginalLeft` claims what does hold in every order.
* Originals are consumed within a pass only: refunds of two imports may take the
  same original, which is why `RefundsFindOriginals` claims uniqueness within an
  import.
* With one pair of a cluster swapped and another approved, rows may end up at a
  hotel the same application archives; which one depends on the order of an
  unordered SELECT. `AppliesFollowPairs` says where, given the order.
* The daily fetch runs at 06:00 and asks for its own day, which the Bank has not
  published by then; an empty answer is a success.

## 5. What is proved

All theorems are for every value of the constants under the named assumptions
of the modules, which only say that sentinels are not data, that bounds are
numbers and that actors are what they are called.

### SalesEtlProofs

`TypeCorrect`, `NeverIngestedTwice`, `SuccessRowsAreBacked`,
`StatusIsTruthful`, `CommitsAreGated`, `EtlImplementsLedger`.

None of the four state properties is inductive. `NoDoubleIngest` speaks of
committed imports, but what forbids a second one is that **no two imports of
any status share a hash** (`UniqueHash`), which the staging action keeps by the
unique index. `SuccessIsBacked` needs to know that an actor about to record
success holds an import that is committed, and that no actor about to mark an
import failed holds one a blob was ingested with. `StatusTellsRows` needs to know
that an import about to be marked failed is committed only if the answer to its
COMMIT was lost (`HeldImport`); for that nobody else may be working on the same
import (`Exclusive`). The types
need that a run inside the loop has a blob and bytes (`HasBlob`, `HasFile`,
`HasImport`). The conjunction `IInv` is inductive. It nowhere mentions `lock`:
the proof is also a proof that none of these guarantees depends on the advisory
lock. The refinement and the gate are read off one lemma, `SalesStep`: a step
leaves the visible imports alone or adds one staged, valid, freshly priced
import whose contents are not there yet.

### SendEmailProofs

`TypesHold`, `EndsTruthfully`, `CopiesBounded`, `NeverResends`, from an
invariant that ties the current step to the memoised result and the rows
(`ResultKnown`: before `log` there is no row, after `send` there is a result;
an "ok" result was delivered), and the calls to the failed executions
(`CallsCounted`: while the call is retried they are the same number, and no
later step has a call to make).

### PocAlertsProofs

`TypesHold`, `NobodyIsForgotten`, for any number of runs, overlapping or not.

The types need that finitely many digests were sent, because a digest is
numbered by counting. That no alerted hotel is left out needs `Ranked`: the alerted
hotels are of the bottom tier, which the ranking orders. A hotel that is not among
the `Cap` worst has `Cap` worse ones, so the digest counts more than it names
(`NamedSome`: and a digest never names nobody).

The spacing of alerts and the survival of stamps are not proved. They are false when
runs overlap, which the code does not prevent, and checked for runs that do not.

### LocationMergeProofs

`TypesHold`, `IndexesStayUnmet`, `UndosInvert`, `MergesLoseNothing`.

`WroteSeen` is what makes statements composable: after a statement that makes u
of what its transaction sees, the transaction sees u. With it the progress of a
merge can be said in terms of tables: `Taken(s, t, c, E, F)` says that t is s
with all of the locations E taken to c, and of the locations F those rows
deleted that c has a like of. `DeleteTakes` and `RewriteTakes` are the two
statements, the second because after the DELETEs there is nothing of the
location for an index to meet. `MergeTruth` says of a merge under way that its
payload is what it saw (`Reads`) and, as long as nobody has committed since,
that the tables are still those and what it sees is `Taken` from them
(`Progress`). The condition that nobody has is a comparison of counters, which
every foreign writer moves: the lock is what keeps other merges and undos from
being among them. `SnapTruth` relates a snapshot to the data before and after
its merge and is what survives the commit, also when other merges and undos
follow; an undo that finds the data as the merge left them inverts that
relation.

### KioskAssignmentsProofs

`TypesHold`, `OnlyRivalsPileUp`, `LoneRequestsSettle`.

That open rows come from different users is inductive with one addition: **a
user about to insert an assignment has no open row at the kiosk**
(`NoOpenRowOfMine`), because the close before it took all, and rows that came
since are others'. For the requests left alone, `DoneAlone` says of each what
its statements have achieved so far (all rows closed; no row at a source; the
links that are still to be moved are the ones it read). A write by anyone else
takes the request out of `alone`, so only its own steps can disturb it, and the
last one finds what the first ones left.

### PipelineStagesProofs

`TypesHold`, `DefaultsComeFromRivals`, `LoneRequestsSettle`.

That stages with the flag have it from different users is inductive with one
addition: **a user about to set the flag has none of their own left**
(`OwnUnset`), because the UPDATE before it took all, and flags set since are
others'. The requests left alone rely on `ToldAlone`, which says what each has
been told by the statements before the next one: that there is another stage,
that no kiosk is in the stage to delete, that there was no default. The frame
argument is that of the kiosks.

### BulkMergeProofs

`Types`, `StampedWereMerged`, `ApplicationsFollowPairs`.

For the stamps: a call about to stamp has had its pairs merged, by whichever
application, and a proposal that was read has a decision for good (`Known`).
For the rows: `AfterPairs` are the tables after each number of pairs, and
the statement about them, `Follows`, is proved by induction on that number: after
n pairs every row is where the first n pairs take its location, or was deleted
because a like of it is there, groups and regions went along, rows of one
product that ended up together were together before, and no hotel has two
regions. `PairMoves` is the step. The library's induction theorem cannot be
used, so induction is itself a lemma (`AllNumbers`): a set that has 0 and with
a number the next has all of them, by the least-number principle.

What ties this to the transaction is `Progress`: a transaction that nobody has
committed into sees the tables after as many pairs as it has done, or those with the
DELETEs of the next one (`Sees`). Every commit and every insert moves a counter, so
it only ever has to survive steps that leave the tables alone (`OthersProgress`).

### SalesProofs

For the commit of an import (`SalesCommit`, `FxRates`): `OriginalsAreFound`,
`AmountsStand`, `BestOriginalsTaken`. For its commission (`Commission`):
`LedgerKeepsSigns`, `EngineIsMarginal`, `SplitsAreNeutral`,
`RecalculationRepairs`. The two share no state; they share a module because
they share the least-number principle and what rests on it.

*The commit.* `Match` is a recursion over refunds in the order of their
positions. That it has a solution is shown position by position (`TakeNext`,
`TakeAll`), and `MatchFacts` says what one is worth: what a refund has fits it,
no original is taken twice, and no refund has less than the best of the
originals nobody took. That there is a best one is the least-number principle
again, for the days and then for the ids. The invariant `Inv` says of a commit
under way that its matches fit and its originals are of the import or committed
(`MatchesFit`), and that with a row every row is inserted that comes before it
(`InsertedFits`) - originals come before refunds, which is why the foreign key
holds in every chunk; of the committed rows it says the same (`RecordFits`), and
merges move a refund together with its original. Rates that are there stay
(`Stays`), hence an amount that was converted keeps the rate it was converted by,
though a later look-up may find another.

*The engine.* Induction over finite sets is the lemma `AllSubsets`: a family of
subsets that has the empty one, and every other as soon as it has those with an
element less, has them all. From it come the sums of the community modules
(they exist, and `SumWithout` takes any element out first), and the recursion
of `Waterfall` from the highest bracket downwards. `WaterfallIsMarginal` is the
heart: for brackets without a gap, after the brackets up to some floor the
cursor stands at `Reach` and what is owed is `Due`, the difference that the
amount makes to rate times part, rounded bracket by bracket. `DueIsClose`
bounds the rounding: half a penny for each bracket.

*The ledger.* `RowsTelescope`: whatever the order of the rows of a calculation,
their marginal parts add up to what the calculation makes the month owe, but
for half a penny for each row and bracket (`Fair`). `UndoneIs`: reversals
cancel what they reverse. `LedgerInv` carries these through the steps of
concurrent calculations. `JobFits` and `Apart` keep the entries of different
calculations apart. `TodoPays` says that the entries not yet inserted are what
the engine pays by the tiers of now, and `Balanced` that inserted and pending
entries together are what the revenue owes, up to the rounding - both only of
calculations that were alone so far. `Repairs` says of a recalculation that is
alone that it lists the month of now, that inserted and pending entries replay
it in the order of days, and that its reversals are of everything else; with
nothing left to insert this is the claim about its commit. `alone` and
`orderly` must be part of the state, because what a calculation has read stays
true only until somebody else begins.

### Only model-checked

* Liveness: EveryBlobSettles, EveryRequestSettles, AlertsReachTheirEnd.
  Fairness and ENABLED are outside the prover's reach.
* AlertSpacing and StampSurvives, for runs that do not overlap.
* UndoRestoresMemberships, which does not hold.

Every other property of the runs is stated by a theorem. Theorems still worth
having are those of the modules to come (section 2), and the two abstract
specifications named there.

## 6. What is not modelled

* In the ETL: `_cancelImportForActor`, which nothing calls, and
  `reset-sales-facts.ts`, an operator's script that truncates tables.
* In the alerts: the rate limit of "Run now", the skip and audit rows. Runs
  that overlap (the concurrency limit of Inngest counts executing steps, so a
  manual and a cron run may alternate) are behaviours of the module; the proofs
  cover them, the run has one at a time.
* In the merge: audit rows, the unique index on `normalised_name` that can make
  an undo fail, deadlocks with other writers (an abort, which is there), and
  the other location actions.
* In the commission: floating point, conversion, the connection pool (a
  recalculation holds a connection while it asks for another), several months
  and products.
* In the FX rates: parsing of the Bank's CSV, more than one currency, the alert
  mail. In the bulk merge: audit rows, the CSV the clusters come from.
* In the kiosks and stages: fields other than those named, audit rows, names,
  colours and positions of stages (`reorderStage`).
* Everything listed as not modelled in `PROJECT.json`, with the reason.

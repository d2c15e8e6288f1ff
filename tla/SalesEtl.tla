------------------------------ MODULE SalesEtl ------------------------------
(***************************************************************************)
(* The Azure sales ETL: runAzureEtl (lib/sales/etl/azure-etl.ts) under     *)
(* withAdvisoryLock (lib/sales/etl/advisory-lock.ts), driving the stage    *)
(* and commit helpers of settings/data-import/sales/pipeline.ts, together  *)
(* with scripts/ingest-local-csv.ts, which drives the same two helpers     *)
(* without the lock and without ingestion rows.                            *)
(*                                                                         *)
(* Every await of the code is a point where other runs, the feed, the rate *)
(* table, a database error or a crash may come in between; what runs       *)
(* between two awaits (or inside one database transaction) is one action.  *)
(* A statement that throws has had no effect, or has had it and only its   *)
(* response was lost.                                                      *)
(*                                                                         *)
(* Data that is abstracted: a CSV is a File (its bytes, so also its        *)
(* sourceHash); the rows of a file are valid or not as a whole (badRows),  *)
(* and priced by fresh rates or not as a whole (staleFx).  A Blob is a     *)
(* (region, path) pair, the key of sales_blob_ingestions.                  *)
(***************************************************************************)
EXTENDS Naturals

CONSTANTS
  Blobs,      \* (region, path) pairs the container may hold
  Files,      \* the byte contents a CSV may have
  ImportIds,  \* primary keys of sales_imports
  Runs,       \* concurrent calls of runAzureEtl (cron, manual, CLI)
  Scripts,    \* concurrent processes of ingest-local-csv.ts
  Conns,      \* database connections of the pools
  Procs,      \* server processes
  ProcOf,     \* the process a run executes in
  PoolOf,     \* the process whose pool a connection belongs to
  NoBlob, NoFile, NoImport,
  MaxHolds,   \* bound on the nested holds of the lock by one session
  MaxPublish, \* bound on the uploads of the feed
  MaxFaults   \* bound on database errors and crashes together

Actors == Runs \cup Scripts

ASSUME SentinelAssumption ==
  NoBlob \notin Blobs /\ NoFile \notin Files /\ NoImport \notin ImportIds

ASSUME ActorAssumption ==
  /\ Runs \cap Scripts = {}
  /\ ProcOf \in [Runs -> Procs]
  /\ PoolOf \in [Conns -> Procs]

ASSUME BoundAssumption ==
  MaxHolds \in Nat /\ MaxPublish \in Nat /\ MaxFaults \in Nat

VARIABLES
  bytes,       \* bytes[b]: what the container holds at b
  badRows,     \* files with a row that does not parse or resolve today
  staleFx,     \* files with a (currency, date) that has no rate within 7 days
  imports,     \* sales_imports, with whether any staged row is invalid
  sales,       \* the imports whose rows are in sales_records
  ingestions,  \* sales_blob_ingestions
  staleAlerts, \* blobs for which an fx_rate_stale event was sent
  lock,        \* lock[c]: times session c holds the advisory lock
  pc, todo, cur, file, imp, \* local state of the actors
  published, faults, \* counters of the two bounds
  unacked      \* history: imports whose COMMIT took effect and threw

db    == <<imports, sales, ingestions>>
world == <<bytes, badRows, staleFx, published>>
local == <<pc, todo, cur, file, imp>>
vars  == <<bytes, badRows, staleFx, imports, sales, ingestions, staleAlerts,
           lock, pc, todo, cur, file, imp, published, faults, unacked>>

PcValues == {"idle", "scan", "pull", "stage", "fx", "commit", "markFailed",
             "audit", "record", "fail", "unlock"}

\* A row of sales_blob_ingestions: a success names its import, a failure leaves
\* what an earlier success has written.
Ingestion ==
  [status : {"none"}, import : {NoImport}]
    \cup [status : {"failed"}, import : ImportIds \cup {NoImport}]
    \cup [status : {"success"}, import : ImportIds]

TypeOK ==
  /\ bytes \in [Blobs -> Files \cup {NoFile}]
  /\ badRows \subseteq Files
  /\ staleFx \subseteq Files
  /\ imports \in [ImportIds ->
       [status : {"none", "staging", "committed", "failed"},
        file : Files \cup {NoFile}, invalid : BOOLEAN]]
  /\ sales \subseteq ImportIds
  /\ ingestions \in [Blobs -> Ingestion]
  /\ staleAlerts \subseteq Blobs
  /\ lock \in [Conns -> Nat]
  /\ pc \in [Actors -> PcValues]
  /\ todo \in [Actors -> SUBSET Blobs]
  /\ cur \in [Actors -> Blobs \cup {NoBlob}]
  /\ file \in [Actors -> Files \cup {NoFile}]
  /\ imp \in [Actors -> ImportIds \cup {NoImport}]
  /\ published \in 0..MaxPublish
  /\ faults \in 0..MaxFaults
  /\ unacked \subseteq ImportIds

\* Nothing is stored yet; which files have a defect is arbitrary.
Init ==
  /\ bytes = [b \in Blobs |-> NoFile]
  /\ badRows \in SUBSET Files
  /\ staleFx \in SUBSET Files
  /\ imports = [i \in ImportIds |->
                  [status |-> "none", file |-> NoFile, invalid |-> FALSE]]
  /\ sales = {}
  /\ ingestions = [b \in Blobs |-> [status |-> "none", import |-> NoImport]]
  /\ staleAlerts = {}
  /\ lock = [c \in Conns |-> 0]
  /\ pc = [a \in Actors |-> "idle"]
  /\ todo = [a \in Actors |-> {}]
  /\ cur = [a \in Actors |-> NoBlob]
  /\ file = [a \in Actors |-> NoFile]
  /\ imp = [a \in Actors |-> NoImport]
  /\ published = 0
  /\ faults = 0
  /\ unacked = {}

-----------------------------------------------------------------------------
(* The advisory lock.  pg_try_advisory_lock belongs to the database        *)
(* session, is refused while another session holds it, and is re-entrant   *)
(* for the session that holds it; pg_advisory_unlock releases one hold of  *)
(* its own session only.  Both statements go to any connection of the pool.*)

Pool(r) == {c \in Conns : PoolOf[c] = ProcOf[r]}

\* The holds of a session after one pg_advisory_unlock.
Released(n) == IF n = 0 THEN 0 ELSE n - 1

LockFreeFor(c) == \A d \in Conns \ {c} : lock[d] = 0

TakeLock(r) ==
  \E c \in Pool(r) :
    /\ LockFreeFor(c)
    /\ lock[c] < MaxHolds
    /\ lock' = [lock EXCEPT ![c] = @ + 1]

\* A run starts: it takes the lock on some connection of its pool and lists
\* the container.  A refused lock returns "skipped-lock" and changes nothing.
StartRun(r) ==
  /\ pc[r] = "idle"
  /\ TakeLock(r)
  /\ pc' = [pc EXCEPT ![r] = "scan"]
  /\ todo' = [todo EXCEPT ![r] = {b \in Blobs : bytes[b] # NoFile}]
  /\ UNCHANGED <<world, db, staleAlerts, cur, file, imp, faults, unacked>>

\* The finally block: unlock on whichever connection the pool hands out.
Unlock(r) ==
  /\ pc[r] = "unlock"
  /\ \E c \in Pool(r) :
       lock' = [lock EXCEPT ![c] = Released(@)]
  /\ pc' = [pc EXCEPT ![r] = "idle"]
  /\ todo' = [todo EXCEPT ![r] = {}]
  /\ UNCHANGED <<world, db, staleAlerts, cur, file, imp, faults, unacked>>

\* A pool closes a connection that sat idle (idle_timeout): the session ends
\* and with it the locks it holds, whatever the run that took them is doing.
CloseIdle(c) ==
  /\ lock[c] > 0
  /\ lock' = [lock EXCEPT ![c] = 0]
  /\ UNCHANGED <<world, db, staleAlerts, local, faults, unacked>>

-----------------------------------------------------------------------------
(* The blob loop.                                                          *)

AlreadyIngested(b) == ingestions[b].status = "success"

\* Idempotency check: a blob with a success row is skipped.
Visit(r, b) ==
  /\ pc[r] = "scan"
  /\ b \in todo[r]
  /\ todo' = [todo EXCEPT ![r] = @ \ {b}]
  /\ IF AlreadyIngested(b)
       THEN UNCHANGED <<pc, cur>>
       ELSE /\ pc' = [pc EXCEPT ![r] = "pull"]
            /\ cur' = [cur EXCEPT ![r] = b]
  /\ UNCHANGED <<world, db, staleAlerts, lock, file, imp, faults, unacked>>

FinishScan(r) ==
  /\ pc[r] = "scan"
  /\ todo[r] = {}
  /\ pc' = [pc EXCEPT ![r] = "unlock"]
  /\ UNCHANGED <<world, db, staleAlerts, lock, todo, cur, file, imp, faults, unacked>>

HashSeen(f) == \E i \in ImportIds : imports[i].status # "none" /\ imports[i].file = f

\* Where an error thrown inside the try block of the loop ends up: the catch
\* of a run records the blob as failed, a script just exits.
AfterThrow_Swallowed(a) == IF a \in Runs THEN "record" ELSE "idle"
AfterThrow_EndsRun(a) == IF a \in Runs THEN "unlock" ELSE "idle"
AfterThrow(a) == IF a \in Runs THEN "fail" ELSE "idle"

\* source.pull() and the sourceHash look-up of _stageImportForActor.
PullBlob(r) ==
  /\ pc[r] = "pull"
  /\ r \in Runs
  /\ LET f == bytes[cur[r]] IN
       /\ file' = [file EXCEPT ![r] = f]
       /\ pc' = [pc EXCEPT ![r] = IF HashSeen(f) THEN AfterThrow(r) ELSE "stage"]
  /\ UNCHANGED <<world, db, staleAlerts, lock, todo, cur, imp, faults, unacked>>

\* The same for the script, which reads any file an operator has on disk.
PullLocal(s, f) ==
  /\ pc[s] = "idle"
  /\ ~HashSeen(f)
  /\ file' = [file EXCEPT ![s] = f]
  /\ pc' = [pc EXCEPT ![s] = "stage"]
  /\ UNCHANGED <<world, db, staleAlerts, lock, todo, cur, imp, faults, unacked>>

\* The unique index on sales_imports.source_hash.
HashConstraint_Missing(f) == TRUE
HashConstraint(f) == ~HashSeen(f)

InsertImport(a, i) ==
  /\ imports[i].status = "none"
  /\ imports' = [imports EXCEPT ![i] =
       [status |-> "staging", file |-> file[a], invalid |-> file[a] \in badRows]]

\* The staging transaction: one sales_imports row and the staged rows, valid
\* and invalid; invalid rows make the caller throw.
Stage(a) ==
  /\ pc[a] = "stage"
  /\ IF HashConstraint(file[a])
       THEN \E i \in ImportIds :
              /\ InsertImport(a, i)
              /\ imp' = [imp EXCEPT ![a] = i]
              /\ pc' = [pc EXCEPT ![a] =
                   IF file[a] \in badRows THEN AfterThrow(a)
                   ELSE IF a \in Runs THEN "fx" ELSE "commit"]
       ELSE /\ pc' = [pc EXCEPT ![a] = AfterThrow(a)]
            /\ UNCHANGED <<imports, imp>>
  /\ UNCHANGED <<world, sales, ingestions, staleAlerts, lock, todo, cur, file, faults, unacked>>

\* The per-blob rate check of the orchestrator: alert, then throw.
FxPreCheck(r) ==
  /\ pc[r] = "fx"
  /\ IF file[r] \in staleFx
       THEN /\ staleAlerts' = staleAlerts \cup {cur[r]}
            /\ pc' = [pc EXCEPT ![r] = AfterThrow(r)]
       ELSE /\ pc' = [pc EXCEPT ![r] = "commit"]
            /\ UNCHANGED staleAlerts
  /\ UNCHANGED <<world, db, lock, todo, cur, file, imp, faults, unacked>>

CommitAllowed(i) == imports[i].status = "staging" /\ ~imports[i].invalid

\* The rate check of every chunk of the commit.
RatesTooOld_Unchecked(f) == FALSE
RatesTooOld(f) == f \in staleFx

CommitRows(a) ==
  /\ imports' = [imports EXCEPT ![imp[a]].status = "committed"]
  /\ sales' = sales \cup {imp[a]}

\* _commitImportForActor up to and including its transaction.  A stale rate
\* inside the transaction rolls it back.
Commit(a) ==
  /\ pc[a] = "commit"
  /\ IF ~CommitAllowed(imp[a])
       THEN /\ pc' = [pc EXCEPT ![a] = AfterThrow(a)]
            /\ UNCHANGED <<imports, sales>>
       ELSE IF RatesTooOld(file[a])
              THEN /\ pc' = [pc EXCEPT ![a] = "markFailed"]
                   /\ UNCHANGED <<imports, sales>>
              ELSE /\ pc' = [pc EXCEPT ![a] = "audit"]
                   /\ CommitRows(a)
  /\ UNCHANGED <<world, ingestions, staleAlerts, lock, todo, cur, file, imp, faults, unacked>>

\* The catch of the commit: the import becomes failed and the error goes on.
MarkFailed(a) ==
  /\ pc[a] = "markFailed"
  /\ imports' = [imports EXCEPT ![imp[a]].status = "failed"]
  /\ pc' = [pc EXCEPT ![a] = AfterThrow(a)]
  /\ UNCHANGED <<world, sales, ingestions, staleAlerts, lock, todo, cur, file, imp, faults, unacked>>

\* The audit row, the best-effort commissions and the pruning of old stagings
\* that follow the commit; none of them touches the tables modelled here.
AfterCommit(a) ==
  /\ pc[a] = "audit"
  /\ pc' = [pc EXCEPT ![a] = IF a \in Runs THEN "record" ELSE "idle"]
  /\ UNCHANGED <<world, db, staleAlerts, lock, todo, cur, file, imp, faults, unacked>>

\* On to the next blob of the listing.
NextBlob(r) ==
  /\ pc' = [pc EXCEPT ![r] = "scan"]
  /\ cur' = [cur EXCEPT ![r] = NoBlob]
  /\ file' = [file EXCEPT ![r] = NoFile]
  /\ imp' = [imp EXCEPT ![r] = NoImport]

\* The two upserts of the ingestion row: the one of the catch block leaves
\* importId as it finds it.
WriteSuccess_WithoutImport(r) ==
  ingestions' = [ingestions EXCEPT ![cur[r]].status = "success"]
WriteSuccess(r) ==
  ingestions' = [ingestions EXCEPT ![cur[r]] =
                   [status |-> "success", import |-> imp[r]]]
WriteFailed(r) == ingestions' = [ingestions EXCEPT ![cur[r]].status = "failed"]

RecordSuccess(r) ==
  /\ pc[r] = "record"
  /\ WriteSuccess(r)
  /\ NextBlob(r)
  /\ UNCHANGED <<world, imports, sales, staleAlerts, lock, todo, faults, unacked>>

RecordFailed(r) ==
  /\ pc[r] = "fail"
  /\ WriteFailed(r)
  /\ NextBlob(r)
  /\ UNCHANGED <<world, imports, sales, staleAlerts, lock, todo, faults, unacked>>

-----------------------------------------------------------------------------
(* Faults.                                                                 *)

\* Where a statement that throws leads.  Inside the try of the loop that is a
\* failed blob; inside the commit transaction the import is marked failed first;
\* the reads before that transaction, the marking itself and what follows the
\* commit (its audit row, the ingestion upsert) lead to the catch of the loop;
\* outside the try an error ends the run through the finally block, and one in
\* the finally block ends it with the lock still held.
ThrowTargets_AuditInTry(a) ==
  CASE pc[a] \in {"scan", "fail"} -> {"unlock"}
    [] pc[a] = "unlock" -> {"idle"}
    [] pc[a] \in {"commit", "audit"} -> {"markFailed", AfterThrow(a)}
    [] OTHER -> {AfterThrow(a)}
ThrowTargets(a) ==
  CASE pc[a] \in {"scan", "fail"} -> {"unlock"}
    [] pc[a] = "unlock" -> {"idle"}
    [] pc[a] = "commit" -> {"markFailed", AfterThrow(a)}
    [] OTHER -> {AfterThrow(a)}

Fault == faults < MaxFaults /\ faults' = faults + 1

\* Any awaited statement may throw without effect (a lost connection, a
\* time-out).
Throw(a) ==
  /\ Fault
  /\ pc[a] # "idle"
  /\ \E to \in ThrowTargets(a) : pc' = [pc EXCEPT ![a] = to]
  /\ UNCHANGED <<world, db, staleAlerts, lock, todo, cur, file, imp, unacked>>

\* The lock was taken but the answer is lost: no run starts, the lock stays held.
LockAnswerLost(r) ==
  /\ Fault
  /\ pc[r] = "idle"
  /\ TakeLock(r)
  /\ UNCHANGED <<world, db, staleAlerts, local, unacked>>

\* A statement that writes took effect, its answer is lost, and the error goes
\* where any error of that statement goes.
AnswerLost(a) ==
  /\ Fault
  /\ \/ /\ pc[a] = "stage"
        /\ HashConstraint(file[a])
        /\ \E i \in ImportIds : InsertImport(a, i)
        /\ pc' = [pc EXCEPT ![a] = AfterThrow(a)]
        /\ UNCHANGED <<sales, ingestions, unacked>>
     \/ /\ pc[a] = "commit"
        /\ CommitAllowed(imp[a])
        /\ ~RatesTooOld(file[a])
        /\ CommitRows(a)
        /\ unacked' = unacked \cup {imp[a]}
        /\ pc' = [pc EXCEPT ![a] = "markFailed"]
        /\ UNCHANGED ingestions
     \/ /\ pc[a] = "record"
        /\ WriteSuccess(a)
        /\ pc' = [pc EXCEPT ![a] = "fail"]
        /\ UNCHANGED <<imports, sales, unacked>>
     \/ /\ pc[a] = "fail"
        /\ WriteFailed(a)
        /\ pc' = [pc EXCEPT ![a] = "unlock"]
        /\ UNCHANGED <<imports, sales, unacked>>
  /\ UNCHANGED <<world, staleAlerts, lock, todo, cur, file, imp>>

\* A process dies (a restart, or the 300 s limit of the route): its runs are
\* gone, its connections close and their locks go with them.
CrashProc(p) ==
  LET dead == {r \in Runs : ProcOf[r] = p} IN
  /\ Fault
  /\ \E r \in dead : pc[r] # "idle"
  /\ pc' = [a \in Actors |-> IF a \in dead THEN "idle" ELSE pc[a]]
  /\ todo' = [a \in Actors |-> IF a \in dead THEN {} ELSE todo[a]]
  /\ lock' = [c \in Conns |-> IF PoolOf[c] = p THEN 0 ELSE lock[c]]
  /\ UNCHANGED <<world, db, staleAlerts, cur, file, imp, unacked>>

CrashScript(s) ==
  /\ Fault
  /\ pc[s] # "idle"
  /\ pc' = [pc EXCEPT ![s] = "idle"]
  /\ UNCHANGED <<world, db, staleAlerts, lock, todo, cur, file, imp, unacked>>

-----------------------------------------------------------------------------
(* The world around the ETL.                                               *)

\* The feed uploads a blob, or replaces its bytes.
Publish(b, f) ==
  /\ published < MaxPublish
  /\ bytes[b] # f
  /\ published' = published + 1
  /\ bytes' = [bytes EXCEPT ![b] = f]
  /\ UNCHANGED <<badRows, staleFx, db, staleAlerts, lock, local, faults, unacked>>

\* An operator adds the outlet, product or fee code a file was missing.
FixRows(f) ==
  /\ f \in badRows
  /\ badRows' = badRows \ {f}
  /\ UNCHANGED <<bytes, staleFx, published, db, staleAlerts, lock, local, faults, unacked>>

\* The rates a file needs arrive in exchange_rates.
FxArrives(f) ==
  /\ f \in staleFx
  /\ staleFx' = staleFx \ {f}
  /\ UNCHANGED <<bytes, badRows, published, db, staleAlerts, lock, local, faults, unacked>>

-----------------------------------------------------------------------------
RunStep(r) ==
  \/ Unlock(r) \/ FinishScan(r) \/ PullBlob(r) \/ FxPreCheck(r)
  \/ RecordSuccess(r) \/ RecordFailed(r)
  \/ \E b \in Blobs : Visit(r, b)

ImportStep(a) == Stage(a) \/ Commit(a) \/ MarkFailed(a) \/ AfterCommit(a)

Next ==
  \/ \E r \in Runs : StartRun(r) \/ RunStep(r) \/ LockAnswerLost(r)
  \/ \E s \in Scripts, f \in Files : PullLocal(s, f)
  \/ \E a \in Actors : ImportStep(a) \/ Throw(a) \/ AnswerLost(a)
  \/ \E p \in Procs : CrashProc(p)
  \/ \E s \in Scripts : CrashScript(s)
  \/ \E c \in Conns : CloseIdle(c)
  \/ \E b \in Blobs, f \in Files : Publish(b, f)
  \/ \E f \in Files : FixRows(f) \/ FxArrives(f)

Spec == Init /\ [][Next]_vars

\* The cron starts runs for ever, a started run goes on unless it crashes, and
\* the pool closes idle connections.  Nothing obliges the feed, the operator,
\* the scripts or the rate table to do anything.
Fairness ==
  /\ \A r \in Runs : WF_vars(StartRun(r)) /\ WF_vars(RunStep(r))
  /\ \A a \in Actors : WF_vars(ImportStep(a))
  /\ \A c \in Conns : WF_vars(CloseIdle(c))

FairSpec == Spec /\ Fairness

-----------------------------------------------------------------------------
(* Properties.                                                             *)

\* No bytes are ingested twice: two imports whose rows are in sales_records
\* have different contents, however runs, scripts, retries and crashes
\* interleave (schema.ts leaves sales_records without a natural key and relies
\* on the blob-level idempotency for this).
NoDoubleIngest ==
  \A i, j \in sales : imports[i].file = imports[j].file => i = j

\* A success row of sales_blob_ingestions, which makes every later run skip
\* the blob for ever, is backed by an import whose rows are really there.
SuccessIsBacked ==
  \A b \in Blobs :
    ingestions[b].status = "success" =>
      /\ ingestions[b].import \in sales
      /\ imports[ingestions[b].import].status = "committed"

\* What sales_imports says of an import is true: committed ones have their rows
\* in sales_records, and an import with rows that does not say so is one whose
\* COMMIT threw after it had taken effect, which the catch of the commit takes
\* for a roll-back.  No other error, retry or crash separates the two tables.
StatusTellsRows ==
  \A i \in ImportIds :
    /\ imports[i].status = "committed" => i \in sales
    /\ i \in sales => imports[i].status = "committed" \/ i \in unacked

\* Rows only ever become visible for a file that is wholly valid and whose
\* rates are fresh at that moment (D-07), also on the path of the script,
\* which has no pre-check.
CommitIsGated ==
  [][\A i \in sales' \ sales :
       /\ ~imports[i].invalid
       /\ imports[i].file \notin staleFx]_vars

\* The visible rows implement the ledger of IngestLedger: contents enter once
\* and are never taken back, by no retry and no error path.
Ledger == INSTANCE IngestLedger
            WITH ledger <- {<<i, imports[i].file>> : i \in sales}
ImplementsLedger == Ledger!Spec

\* Every blob of the container eventually gets an ingestion row, of either
\* outcome: one bad blob, a lost lock or a crash never blocks the others.
EveryBlobSettles ==
  \A b \in Blobs : (bytes[b] # NoFile) ~> (ingestions[b].status # "none")
=============================================================================

--------------------------- MODULE SalesEtlProofs ---------------------------
(***************************************************************************)
(* Proofs about SalesEtl for any number of runs, scripts, processes,       *)
(* connections, blobs and files, and any bound on faults and uploads.      *)
(***************************************************************************)
EXTENDS SalesEtl, TLAPS

USE SentinelAssumption, ActorAssumption, BoundAssumption DEF Actors

-----------------------------------------------------------------------------
(* The inductive invariant.                                                *)

\* Two imports never record the same source hash.
UniqueHash ==
  \A i, j \in ImportIds :
    /\ imports[i].status # "none" /\ imports[j].status # "none"
    /\ imports[i].file = imports[j].file
    => i = j

Staged(a)    == pc[a] \in {"fx", "commit", "markFailed"}
Committed(a) == pc[a] \in {"audit", "record"}

\* The import an actor works on is the one it staged, in the status its
\* program counter says; one about to be marked failed may be committed.
HeldImport ==
  \A a \in Actors :
    /\ Staged(a) => imports[imp[a]].file = file[a]
    /\ Staged(a) => \/ imports[imp[a]].status = "staging"
                    \/ /\ pc[a] = "markFailed"
                       /\ imports[imp[a]].status = "committed" /\ imp[a] \in unacked
    /\ Committed(a) => imports[imp[a]].status = "committed"

\* No two actors work on the same import, and none works on one with rows that
\* has not committed it, or on one a blob was ingested with.
Exclusive ==
  /\ \A a, b \in Actors :
       (Staged(a) \/ Committed(a)) /\ (Staged(b) \/ Committed(b)) /\ imp[a] = imp[b]
         => a = b
  /\ \A a \in Actors, b \in Blobs :
       pc[a] = "markFailed" /\ ingestions[b].status = "success"
         => imp[a] # ingestions[b].import

\* Rows belong to imports that exist.
RowsExist ==
  \A i \in sales : imports[i].status \in {"committed", "failed"}

\* The blobs a run has listed exist, a run inside the try block works on one
\* of them, an actor about to stage has read a file, and one past the staging
\* transaction has an import.
HasBlob ==
  \A r \in Runs :
    /\ \A b \in todo[r] : bytes[b] \in Files
    /\ pc[r] \notin {"idle", "scan", "unlock"} =>
         cur[r] \in Blobs /\ bytes[cur[r]] \in Files
HasFile ==
  \A a \in Actors : pc[a] = "stage" \/ Staged(a) => file[a] \in Files
HasImport ==
  \A a \in Actors : Staged(a) \/ Committed(a) => imp[a] \in ImportIds

\* Scripts go through staging and commit alone.
OnlyRuns ==
  \A a \in Actors : a \notin Runs =>
    pc[a] \in {"idle", "stage", "commit", "markFailed", "audit"}

IInv ==
  /\ TypeOK
  /\ UniqueHash
  /\ HeldImport
  /\ Exclusive
  /\ HasBlob
  /\ HasFile
  /\ HasImport
  /\ OnlyRuns
  /\ RowsExist
  /\ StatusTellsRows
  /\ SuccessIsBacked

-----------------------------------------------------------------------------
(* Type correctness, with the two facts it needs about local variables.    *)

TInv == TypeOK /\ HasBlob /\ HasFile /\ HasImport /\ OnlyRuns

ImportRow == [status : {"none", "staging", "committed", "failed"},
              file : Files \cup {NoFile}, invalid : BOOLEAN]

Locals == HasBlob /\ HasFile /\ HasImport /\ OnlyRuns

LEMMA TypeInit == Init => TInv
  BY DEF Init, TInv, TypeOK, HasBlob, HasFile, HasImport, OnlyRuns, Staged,
         Committed, PcValues, Ingestion

LEMMA ReleasedType == \A n \in Nat : Released(n) \in Nat
  BY DEF Released

LEMMA AfterThrowPc == \A a \in Actors : AfterThrow(a) \in {"fail", "idle"}
                                       /\ (a \notin Runs => AfterThrow(a) = "idle")
  BY DEF AfterThrow

\* What changing the status of one import does to the table.
LEMMA SetStatus ==
  ASSUME NEW i \in ImportIds,
         NEW st \in {"none", "staging", "committed", "failed"},
         NEW T \in [ImportIds -> ImportRow],
         NEW U, U = [T EXCEPT ![i].status = st]
  PROVE  /\ U \in [ImportIds -> ImportRow]
         /\ \A j \in ImportIds : /\ U[j].status = IF j = i THEN st ELSE T[j].status
                                 /\ U[j].file = T[j].file
<1>1. T[i] \in ImportRow
  OBVIOUS
<1>2. U = [T EXCEPT ![i] = [T[i] EXCEPT !.status = st]]
  OBVIOUS
<1> DEFINE row == [T[i] EXCEPT !.status = st]
<1>3. row \in ImportRow /\ row.status = st /\ row.file = T[i].file
  BY <1>1 DEF ImportRow
<1> HIDE DEF row
<1>4. U = [T EXCEPT ![i] = row]
  BY <1>2 DEF row
<1>. QED  BY <1>3, <1>4

LEMMA StatusRow ==
  ASSUME imports \in [ImportIds -> ImportRow], NEW i \in ImportIds,
         \/ imports' = [imports EXCEPT ![i].status = "failed"]
         \/ imports' = [imports EXCEPT ![i].status = "committed"]
  PROVE  imports' \in [ImportIds -> ImportRow]
  BY SetStatus

\* What the two upserts of the ingestion row do to the table.
LEMMA IngestionRow ==
  ASSUME ingestions \in [Blobs -> Ingestion], NEW r \in Runs, cur[r] \in Blobs,
         \/ imp[r] \in ImportIds /\ WriteSuccess(r)
         \/ WriteFailed(r)
  PROVE  /\ ingestions' \in [Blobs -> Ingestion]
         /\ \A b \in Blobs : b # cur[r] => ingestions'[b] = ingestions[b]
         /\ WriteSuccess(r) => ingestions'[cur[r]] = [status |-> "success", import |-> imp[r]]
         /\ WriteFailed(r) => ingestions'[cur[r]].status = "failed"
<1>1. CASE imp[r] \in ImportIds /\ WriteSuccess(r)
  <2>1. [status |-> "success", import |-> imp[r]] \in Ingestion
    BY <1>1 DEF Ingestion
  <2>2. ~WriteFailed(r)
    BY <1>1 DEF WriteSuccess, WriteFailed
  <2>. QED  BY <1>1, <2>1, <2>2 DEF WriteSuccess
<1>2. CASE WriteFailed(r)
  <2>1. PICK row : row = [ingestions[cur[r]] EXCEPT !.status = "failed"]
    OBVIOUS
  <2>2. row \in Ingestion /\ row.status = "failed"
    BY <2>1 DEF Ingestion
  <2>3. ingestions' = [ingestions EXCEPT ![cur[r]] = row]
    BY <1>2, <2>1 DEF WriteFailed
  <2>4. ~WriteSuccess(r)
    BY <1>2, <2>2, <2>3 DEF WriteSuccess
  <2>. QED  BY <2>2, <2>3, <2>4
<1>. QED  BY <1>1, <1>2

LEMMA TypeStep == TInv /\ [Next]_vars => TInv'
<1> SUFFICES ASSUME TInv, [Next]_vars PROVE TInv'
  OBVIOUS
<1> USE DEF TInv, TypeOK, Locals, HasBlob, HasFile, HasImport, OnlyRuns, Staged,
            Committed, PcValues, world, db, local
<1>1. ASSUME NEW r \in Runs, StartRun(r) PROVE TInv'
  <2>1. lock' \in [Conns -> Nat]
    BY <1>1 DEF StartRun, TakeLock, Pool
  <2>. QED  BY <1>1, <2>1 DEF StartRun
<1>2. ASSUME NEW r \in Runs, Unlock(r) PROVE TInv'
  <2>. PICK c \in Conns : lock' = [lock EXCEPT ![c] = Released(@)]
    BY <1>2 DEF Unlock, Pool
  <2>1. lock' \in [Conns -> Nat]
    BY ReleasedType
  <2>. QED  BY <1>2, <2>1 DEF Unlock
<1>3. ASSUME NEW r \in Runs, FinishScan(r) PROVE TInv'
  BY <1>3 DEF FinishScan
<1>4. ASSUME NEW r \in Runs, PullBlob(r) PROVE TInv'
  BY <1>4, AfterThrowPc DEF PullBlob
<1>5. ASSUME NEW r \in Runs, FxPreCheck(r) PROVE TInv'
  <2>1. staleAlerts' \subseteq Blobs
    BY <1>5 DEF FxPreCheck
  <2>2. Locals' /\ pc' \in [Actors -> PcValues]
    BY <1>5, AfterThrowPc DEF FxPreCheck
  <2>. QED  BY <1>5, <2>1, <2>2 DEF FxPreCheck
<1>6. ASSUME NEW r \in Runs, RecordSuccess(r) PROVE TInv'
  <2>1. ingestions' \in [Blobs -> Ingestion]
    BY <1>6, IngestionRow DEF RecordSuccess
  <2>2. Locals' /\ pc' \in [Actors -> PcValues]
    BY <1>6 DEF RecordSuccess, NextBlob
  <2>. QED  BY <1>6, <2>1, <2>2 DEF RecordSuccess, NextBlob
<1>7. ASSUME NEW r \in Runs, RecordFailed(r) PROVE TInv'
  <2>1. ingestions' \in [Blobs -> Ingestion]
    BY <1>7, IngestionRow DEF RecordFailed
  <2>2. Locals' /\ pc' \in [Actors -> PcValues]
    BY <1>7 DEF RecordFailed, NextBlob
  <2>. QED  BY <1>7, <2>1, <2>2 DEF RecordFailed, NextBlob
<1>8. ASSUME NEW r \in Runs, NEW b \in Blobs, Visit(r, b) PROVE TInv'
  <2>1. CASE UNCHANGED <<pc, cur>>
    BY <1>8, <2>1 DEF Visit
  <2>2. CASE /\ pc' = [pc EXCEPT ![r] = "pull"]
             /\ cur' = [cur EXCEPT ![r] = b]
    BY <1>8, <2>2 DEF Visit
  <2>. QED  BY <1>8, <2>1, <2>2 DEF Visit
<1>9. ASSUME NEW s \in Scripts, NEW f \in Files, PullLocal(s, f) PROVE TInv'
  BY <1>9 DEF PullLocal
<1>10. ASSUME NEW a \in Actors, Stage(a) PROVE TInv'
  <2>1. CASE HashConstraint(file[a])
    <3>. PICK i \in ImportIds :
           /\ InsertImport(a, i)
           /\ imp' = [imp EXCEPT ![a] = i]
           /\ pc' = [pc EXCEPT ![a] =
                IF file[a] \in badRows THEN AfterThrow(a)
                ELSE IF a \in Runs THEN "fx" ELSE "commit"]
      BY <1>10, <2>1 DEF Stage
    <3>1. imports' \in [ImportIds -> ImportRow]
      BY DEF ImportRow, InsertImport
    <3>2. Locals' /\ pc' \in [Actors -> PcValues]
      BY <1>10, AfterThrowPc DEF Stage
    <3>. QED  BY <1>10, <3>1, <3>2 DEF Stage, ImportRow
  <2>2. CASE ~HashConstraint(file[a])
    BY <1>10, <2>2, AfterThrowPc DEF Stage
  <2>. QED  BY <2>1, <2>2
<1>11. ASSUME NEW a \in Actors, Commit(a) PROVE TInv'
  <2>1. imports' \in [ImportIds -> ImportRow]
    <3>1. CASE imports' = [imports EXCEPT ![imp[a]].status = "committed"]
      <4>1. imports \in [ImportIds -> ImportRow] /\ imp[a] \in ImportIds
        BY <1>11 DEF Commit, ImportRow
      <4>. QED  BY <3>1, <4>1, StatusRow
    <3>2. CASE UNCHANGED imports
      BY <3>2 DEF ImportRow
    <3>. QED  BY <1>11, <3>1, <3>2 DEF Commit, CommitRows
  <2>2. Locals' /\ pc' \in [Actors -> PcValues]
    BY <1>11, AfterThrowPc DEF Commit
  <2>3. sales' \subseteq ImportIds
    BY <1>11 DEF Commit, CommitRows
  <2>. QED  BY <1>11, <2>1, <2>2, <2>3 DEF Commit, ImportRow
<1>12. ASSUME NEW a \in Actors, MarkFailed(a) PROVE TInv'
  <2>1. imports' \in [ImportIds -> ImportRow]
    <3>1. /\ imports \in [ImportIds -> ImportRow]
          /\ imp[a] \in ImportIds
          /\ imports' = [imports EXCEPT ![imp[a]].status = "failed"]
      BY <1>12 DEF MarkFailed, ImportRow
    <3>. QED  BY <3>1, StatusRow
  <2>2. Locals' /\ pc' \in [Actors -> PcValues]
    BY <1>12, AfterThrowPc DEF MarkFailed
  <2>. QED  BY <1>12, <2>1, <2>2 DEF MarkFailed, ImportRow
<1>13. ASSUME NEW a \in Actors, AfterCommit(a) PROVE TInv'
  BY <1>13 DEF AfterCommit
<1>14. ASSUME NEW a \in Actors, Throw(a) PROVE TInv'
  <2>. PICK to \in ThrowTargets(a) : pc' = [pc EXCEPT ![a] = to]
    BY <1>14 DEF Throw
  <2>1. /\ to \in {"unlock", "idle", "markFailed", "fail"}
        /\ to = "markFailed" => pc[a] = "commit"
        /\ to = "fail" => a \in Runs /\ pc[a] \notin {"scan", "unlock"}
        /\ to = "unlock" => pc[a] \in {"scan", "fail"}
    BY <1>14, AfterThrowPc DEF Throw, ThrowTargets, AfterThrow
  <2>2. Locals' /\ pc' \in [Actors -> PcValues]
    BY <1>14, <2>1 DEF Throw
  <2>. QED  BY <1>14, <2>2 DEF Throw, Fault
<1>21. ASSUME NEW r \in Runs, LockAnswerLost(r) PROVE TInv'
  <2>1. lock' \in [Conns -> Nat]
    BY <1>21 DEF LockAnswerLost, TakeLock, Pool
  <2>. QED  BY <1>21, <2>1 DEF LockAnswerLost, Fault
<1>22. ASSUME NEW a \in Actors, AnswerLost(a) PROVE TInv'
  <2>a. /\ UNCHANGED <<world, staleAlerts, lock, todo, cur, file, imp>>
        /\ faults' \in 0..MaxFaults
    BY <1>22 DEF AnswerLost, Fault
  <2>b. imports \in [ImportIds -> ImportRow]
    BY DEF ImportRow
  <2>1. CASE /\ pc[a] = "stage" /\ \E i \in ImportIds : InsertImport(a, i)
             /\ pc' = [pc EXCEPT ![a] = AfterThrow(a)]
             /\ UNCHANGED <<sales, ingestions, unacked>>
    <3>1. imports' \in [ImportIds -> ImportRow]
      BY <2>1 DEF ImportRow, InsertImport
    <3>2. Locals' /\ pc' \in [Actors -> PcValues]
      BY <2>a, <2>1, AfterThrowPc
    <3>. QED  BY <2>a, <2>1, <3>1, <3>2 DEF ImportRow
  <2>2. CASE /\ pc[a] = "commit" /\ CommitRows(a)
             /\ unacked' = unacked \cup {imp[a]}
             /\ pc' = [pc EXCEPT ![a] = "markFailed"]
             /\ UNCHANGED ingestions
    <3>0. imp[a] \in ImportIds
      BY <2>2
    <3>1. imports' \in [ImportIds -> ImportRow]
      BY <2>b, <2>2, <3>0, StatusRow DEF CommitRows
    <3>2. Locals' /\ pc' \in [Actors -> PcValues]
      BY <2>a, <2>2
    <3>3. sales' \subseteq ImportIds /\ unacked' \subseteq ImportIds
      BY <2>2, <3>0 DEF CommitRows
    <3>. QED  BY <2>a, <2>2, <3>1, <3>2, <3>3 DEF ImportRow
  <2>3. CASE /\ pc[a] = "record" /\ WriteSuccess(a)
             /\ pc' = [pc EXCEPT ![a] = "fail"]
             /\ UNCHANGED <<imports, sales, unacked>>
    <3>1. CASE a \in Runs
      <4>1. ingestions' \in [Blobs -> Ingestion]
        BY <2>3, <3>1, IngestionRow
      <4>2. Locals' /\ pc' \in [Actors -> PcValues]
        BY <2>a, <2>3
      <4>. QED  BY <2>a, <2>3, <4>1, <4>2
    <3>. QED  BY <2>3, <3>1 DEF OnlyRuns
  <2>4. CASE /\ pc[a] = "fail" /\ WriteFailed(a)
             /\ pc' = [pc EXCEPT ![a] = "unlock"]
             /\ UNCHANGED <<imports, sales, unacked>>
    <3>1. CASE a \in Runs
      <4>1. ingestions' \in [Blobs -> Ingestion]
        BY <2>4, <3>1, IngestionRow
      <4>2. Locals' /\ pc' \in [Actors -> PcValues]
        BY <2>a, <2>4
      <4>. QED  BY <2>a, <2>4, <4>1, <4>2
    <3>. QED  BY <2>4, <3>1 DEF OnlyRuns
  <2>. QED  BY <1>22, <2>1, <2>2, <2>3, <2>4 DEF AnswerLost
<1>15. ASSUME NEW p \in Procs, CrashProc(p) PROVE TInv'
  BY <1>15 DEF CrashProc, Fault
<1>16. ASSUME NEW s \in Scripts, CrashScript(s) PROVE TInv'
  BY <1>16 DEF CrashScript, Fault
<1>17. ASSUME NEW c \in Conns, CloseIdle(c) PROVE TInv'
  BY <1>17 DEF CloseIdle
<1>18. ASSUME NEW b \in Blobs, NEW f \in Files, Publish(b, f) PROVE TInv'
  BY <1>18 DEF Publish
<1>19. ASSUME NEW f \in Files, FixRows(f) \/ FxArrives(f) PROVE TInv'
  BY <1>19 DEF FixRows, FxArrives
<1>20. CASE UNCHANGED vars
  BY <1>20 DEF vars
<1>. QED
  BY <1>1, <1>2, <1>3, <1>4, <1>5, <1>6, <1>7, <1>8, <1>9, <1>10, <1>11,
     <1>12, <1>13, <1>14, <1>15, <1>16, <1>17, <1>18, <1>19, <1>20, <1>21, <1>22
  DEF Next, RunStep, ImportStep

\* The variables of the ETL keep their types.
THEOREM TypeCorrect == Spec => []TypeOK
<1>1. Init => TInv
  BY TypeInit
<1>2. TInv /\ [Next]_vars => TInv'
  BY TypeStep
<1>3. TInv => TypeOK
  BY DEF TInv
<1>. QED
  BY <1>1, <1>2, <1>3, PTL DEF Spec

-----------------------------------------------------------------------------
(* The invariant about imports.                                            *)

Rest ==
  UniqueHash /\ HeldImport /\ Exclusive /\ RowsExist /\ StatusTellsRows /\ SuccessIsBacked

LEMMA IInit == Init => IInv
<1> SUFFICES ASSUME Init PROVE IInv
  OBVIOUS
<1>1. TInv
  BY TypeInit
<1>2. Rest
  BY DEF Init, Rest, UniqueHash, HeldImport, Exclusive, RowsExist, StatusTellsRows,
         SuccessIsBacked, Staged, Committed
<1>. QED  BY <1>1, <1>2 DEF IInv, TInv, Rest

\* Steps that write none of the three tables preserve what is said of them.
LEMMA TablesUnchanged ==
  ASSUME IInv, UNCHANGED <<db, unacked>>
  PROVE  UniqueHash' /\ RowsExist' /\ StatusTellsRows' /\ SuccessIsBacked'
  BY DEF IInv, db, UniqueHash, RowsExist, StatusTellsRows, SuccessIsBacked

\* The work of an actor is kept by a step that changes no import and takes no
\* actor into a later part of the import's life.
LEMMA WorkKept ==
  ASSUME IInv, UNCHANGED <<imports, unacked, ingestions>>,
         \A a \in Actors :
           /\ Staged(a)' => Staged(a) /\ imp'[a] = imp[a] /\ file'[a] = file[a]
           /\ Committed(a)' => Committed(a) /\ imp'[a] = imp[a]
           /\ pc[a] = "markFailed" /\ Staged(a)' => pc'[a] = "markFailed"
  PROVE  HeldImport' /\ Exclusive'
<1>1. HeldImport'
  BY DEF IInv, HeldImport
<1>2. ASSUME NEW a \in Actors, NEW b \in Blobs, pc'[a] = "markFailed",
             ingestions'[b].status = "success", imp'[a] = ingestions'[b].import
      PROVE  FALSE
  <2>1. Staged(a)' /\ Staged(a) /\ imp'[a] = imp[a]
    BY <1>2 DEF Staged
  <2>2. CASE pc[a] = "markFailed"
    <3>1. ingestions[b].status = "success" /\ imp[a] = ingestions[b].import
      BY <1>2, <2>1
    <3>. QED  BY <2>2, <3>1 DEF IInv, Exclusive
  <2>3. CASE pc[a] # "markFailed"
    <3>1. imports[imp[a]].status = "staging"
      BY <2>1, <2>3 DEF IInv, HeldImport
    <3>. QED  BY <1>2, <2>1, <3>1 DEF IInv, SuccessIsBacked
  <2>. QED  BY <2>2, <2>3
<1>3. Exclusive'
  BY <1>2 DEF IInv, Exclusive
<1>. QED  BY <1>1, <1>3

\* A success row written for an import the run has committed.
LEMMA SuccessWritten ==
  ASSUME IInv, NEW r \in Runs, pc[r] = "record", WriteSuccess(r), imp[r] \in ImportIds,
         cur[r] \in Blobs, ingestions \in [Blobs -> Ingestion],
         UNCHANGED <<imports, sales, unacked>>,
         pc'[r] \in {"scan", "fail"},
         \A x \in Actors : x # r => pc'[x] = pc[x] /\ imp'[x] = imp[x] /\ file'[x] = file[x]
  PROVE  Rest'
<1>1. /\ \A b \in Blobs : b # cur[r] => ingestions'[b] = ingestions[b]
      /\ ingestions'[cur[r]] = [status |-> "success", import |-> imp[r]]
  BY IngestionRow
<1>2. imports[imp[r]].status = "committed" /\ imp[r] \in sales
  BY DEF IInv, HeldImport, Committed, StatusTellsRows
<1>3. UniqueHash' /\ RowsExist' /\ StatusTellsRows'
  BY DEF IInv, UniqueHash, RowsExist, StatusTellsRows
<1>4. SuccessIsBacked'
  BY <1>1, <1>2 DEF IInv, SuccessIsBacked
<1>5. HeldImport'
  BY DEF IInv, HeldImport, Staged, Committed
<1>6. \A x \in Actors : x # r /\ (Staged(x) \/ Committed(x)) => imp[x] # imp[r]
  BY DEF IInv, Exclusive, Committed
<1>7. ASSUME NEW x \in Actors, NEW b \in Blobs, pc'[x] = "markFailed",
             ingestions'[b].status = "success"
      PROVE  imp'[x] # ingestions'[b].import
  <2>1. x # r /\ pc[x] = "markFailed" /\ imp'[x] = imp[x]
    BY <1>7
  <2>2. CASE b = cur[r]
    BY <1>1, <1>6, <2>1, <2>2 DEF Staged
  <2>3. CASE b # cur[r]
    BY <1>1, <1>7, <2>1, <2>3 DEF IInv, Exclusive
  <2>. QED  BY <2>2, <2>3
<1>8. Exclusive'
  BY <1>7 DEF IInv, Exclusive, Staged, Committed
<1>. QED  BY <1>3, <1>4, <1>5, <1>8 DEF Rest

\* A failure written for the blob of a run.
LEMMA FailureWritten ==
  ASSUME IInv, NEW r \in Runs, pc[r] = "fail", WriteFailed(r),
         cur[r] \in Blobs, ingestions \in [Blobs -> Ingestion],
         UNCHANGED <<imports, sales, unacked>>,
         pc'[r] \in {"scan", "unlock"},
         \A x \in Actors : x # r => pc'[x] = pc[x] /\ imp'[x] = imp[x] /\ file'[x] = file[x]
  PROVE  Rest'
<1>1. /\ \A b \in Blobs : b # cur[r] => ingestions'[b] = ingestions[b]
      /\ ingestions'[cur[r]].status = "failed"
  BY IngestionRow
<1>2. UniqueHash' /\ RowsExist' /\ StatusTellsRows'
  BY DEF IInv, UniqueHash, RowsExist, StatusTellsRows
<1>3. SuccessIsBacked'
  BY <1>1 DEF IInv, SuccessIsBacked
<1>4. HeldImport'
  BY DEF IInv, HeldImport, Staged, Committed
<1>5. Exclusive'
  BY <1>1 DEF IInv, Exclusive, Staged, Committed
<1>. QED  BY <1>2, <1>3, <1>4, <1>5 DEF Rest

\* An import inserted by the staging transaction, whether or not its actor
\* hears of it.
LEMMA ImportInserted ==
  ASSUME IInv, NEW a \in Actors, pc[a] = "stage", HashConstraint(file[a]),
         NEW i \in ImportIds, InsertImport(a, i),
         imports \in [ImportIds -> ImportRow],
         UNCHANGED <<sales, ingestions, file, unacked>>,
         pc'[a] \in {"fail", "idle"} \/ (imp'[a] = i /\ pc'[a] \in {"fail", "idle", "fx", "commit"}),
         \A x \in Actors : x # a => pc'[x] = pc[x] /\ imp'[x] = imp[x]
  PROVE  Rest'
<1>0. imports[i].status = "none"
  BY DEF InsertImport
<1>1. \A j \in ImportIds :
        /\ j # i => imports'[j] = imports[j]
        /\ j = i => imports'[j].status = "staging" /\ imports'[j].file = file[a]
  BY DEF InsertImport
<1>2. \A j \in ImportIds : imports[j].status # "none" => imports[j].file # file[a]
  BY DEF HashConstraint, HashSeen
<1>3. UniqueHash'
  BY <1>1, <1>2 DEF IInv, UniqueHash
<1>4. \A x \in Actors : Staged(x) \/ Committed(x) => imp[x] # i /\ imp[x] \in ImportIds
  BY <1>0 DEF IInv, HeldImport, HasImport
<1>5. HeldImport'
  BY <1>1, <1>4 DEF IInv, HeldImport, Staged, Committed
<1>6. Exclusive'
  BY <1>4 DEF IInv, Exclusive, Staged, Committed
<1>7. i \notin sales
  BY <1>0 DEF IInv, RowsExist
<1>8. RowsExist' /\ StatusTellsRows'
  BY <1>1, <1>7 DEF IInv, TypeOK, RowsExist, StatusTellsRows
<1>9. SuccessIsBacked'
  <2>1. ingestions' = ingestions /\ SuccessIsBacked
    BY DEF IInv
  <2>2. sales' = sales /\ sales \subseteq ImportIds
    BY DEF IInv, TypeOK
  <2>3. \A j \in sales : imports'[j] = imports[j]
    BY <1>1, <1>7, <2>2
  <2>. QED  BY <2>1, <2>2, <2>3 DEF SuccessIsBacked
<1>. QED  BY <1>3, <1>5, <1>6, <1>8, <1>9 DEF Rest

\* A commit that took effect, whether or not its actor hears of it.
LEMMA RowsCommitted ==
  ASSUME IInv, NEW a \in Actors, pc[a] = "commit", CommitRows(a), imp[a] \in ImportIds,
         imports \in [ImportIds -> ImportRow],
         UNCHANGED <<imp, file, ingestions>>,
         \/ pc'[a] = "audit" /\ unacked' = unacked
         \/ pc'[a] = "markFailed" /\ unacked' = unacked \cup {imp[a]},
         \A x \in Actors : x # a => pc'[x] = pc[x]
  PROVE  Rest'
<1>1. imports[imp[a]].status = "staging" /\ imports[imp[a]].file = file[a]
  BY DEF IInv, HeldImport, Staged
<1>2. \A j \in ImportIds :
        /\ imports'[j].status = IF j = imp[a] THEN "committed" ELSE imports[j].status
        /\ imports'[j].file = imports[j].file
  BY SetStatus DEF CommitRows
<1>3. UniqueHash'
  BY <1>1, <1>2 DEF IInv, UniqueHash
<1>4. \A x \in Actors : x # a /\ (Staged(x) \/ Committed(x)) => imp[x] # imp[a] /\ imp[x] \in ImportIds
  BY DEF IInv, Exclusive, Staged, HasImport
<1>5. HeldImport'
  BY <1>1, <1>2, <1>4 DEF IInv, HeldImport, Staged, Committed
<1>6. \A b \in Blobs : ingestions[b].status = "success" => ingestions[b].import # imp[a]
  BY <1>1 DEF IInv, SuccessIsBacked
<1>7. Exclusive'
  BY <1>4, <1>6 DEF IInv, Exclusive, Staged, Committed
<1>8. sales' = sales \cup {imp[a]} /\ sales \subseteq ImportIds
  BY DEF CommitRows, IInv, TypeOK
<1>9. RowsExist' /\ StatusTellsRows'
  BY <1>1, <1>2, <1>8 DEF IInv, RowsExist, StatusTellsRows
<1>10. SuccessIsBacked'
  BY <1>2, <1>6, <1>8 DEF IInv, SuccessIsBacked
<1>. QED  BY <1>3, <1>5, <1>7, <1>9, <1>10 DEF Rest

LEMMA IStep == IInv /\ [Next]_vars => IInv'
<1> SUFFICES ASSUME IInv, [Next]_vars PROVE IInv'
  OBVIOUS
<1>t. TInv'
  BY TypeStep DEF IInv, TInv
<1>a. /\ pc \in [Actors -> PcValues]
      /\ imp \in [Actors -> ImportIds \cup {NoImport}]
      /\ file \in [Actors -> Files \cup {NoFile}]
      /\ imports \in [ImportIds -> ImportRow]
      /\ ingestions \in [Blobs -> Ingestion] /\ sales \subseteq ImportIds
      /\ \A x \in Actors : Staged(x) \/ Committed(x) => imp[x] \in ImportIds
      /\ \A x \in Runs : pc[x] \in {"record", "fail"} => cur[x] \in Blobs
  BY DEF IInv, TypeOK, HasImport, HasBlob, ImportRow
<1>1. ASSUME NEW r \in Runs, StartRun(r) PROVE Rest'
  BY <1>1, <1>a, TablesUnchanged, WorkKept DEF Rest, StartRun, db, Staged, Committed
<1>2. ASSUME NEW r \in Runs, Unlock(r) PROVE Rest'
  BY <1>2, <1>a, TablesUnchanged, WorkKept DEF Rest, Unlock, db, Staged, Committed
<1>3. ASSUME NEW r \in Runs, FinishScan(r) PROVE Rest'
  BY <1>3, <1>a, TablesUnchanged, WorkKept DEF Rest, FinishScan, db, Staged, Committed
<1>4. ASSUME NEW r \in Runs, PullBlob(r) PROVE Rest'
  BY <1>4, <1>a, AfterThrowPc, TablesUnchanged, WorkKept DEF Rest, PullBlob, db, Staged, Committed
<1>5. ASSUME NEW r \in Runs, FxPreCheck(r) PROVE Rest'
  BY <1>5, <1>a, AfterThrowPc, TablesUnchanged, WorkKept DEF Rest, FxPreCheck, db, Staged, Committed
<1>6. ASSUME NEW r \in Runs, RecordSuccess(r) PROVE Rest'
  <2>1. /\ UNCHANGED <<imports, sales, unacked>> /\ WriteSuccess(r)
        /\ pc[r] = "record" /\ pc'[r] = "scan"
        /\ \A x \in Actors : x # r => pc'[x] = pc[x] /\ imp'[x] = imp[x] /\ file'[x] = file[x]
    BY <1>6, <1>a DEF RecordSuccess, NextBlob
  <2>. QED  BY <1>a, <2>1, SuccessWritten DEF Committed
<1>7. ASSUME NEW r \in Runs, RecordFailed(r) PROVE Rest'
  <2>1. /\ UNCHANGED <<imports, sales, unacked>> /\ WriteFailed(r)
        /\ pc[r] = "fail" /\ pc'[r] = "scan"
        /\ \A x \in Actors : x # r => pc'[x] = pc[x] /\ imp'[x] = imp[x] /\ file'[x] = file[x]
    BY <1>7, <1>a DEF RecordFailed, NextBlob
  <2>. QED  BY <1>a, <2>1, FailureWritten
<1>8. ASSUME NEW r \in Runs, NEW b \in Blobs, Visit(r, b) PROVE Rest'
  BY <1>8, <1>a, TablesUnchanged, WorkKept DEF Rest, Visit, db, Staged, Committed
<1>9. ASSUME NEW s \in Scripts, NEW f \in Files, PullLocal(s, f) PROVE Rest'
  BY <1>9, <1>a, TablesUnchanged, WorkKept DEF Rest, PullLocal, db, Staged, Committed
<1>10. ASSUME NEW a \in Actors, Stage(a) PROVE Rest'
  <2>1. CASE HashConstraint(file[a])
    <3>. PICK i \in ImportIds :
           /\ InsertImport(a, i)
           /\ imp' = [imp EXCEPT ![a] = i]
           /\ pc' = [pc EXCEPT ![a] =
                IF file[a] \in badRows THEN AfterThrow(a)
                ELSE IF a \in Runs THEN "fx" ELSE "commit"]
           /\ UNCHANGED <<sales, ingestions, file, unacked>>
      BY <1>10, <2>1 DEF Stage
    <3>1. \A x \in Actors : x # a => pc'[x] = pc[x] /\ imp'[x] = imp[x]
      BY <1>a
    <3>2. imp'[a] = i /\ pc'[a] \in {"fail", "idle", "fx", "commit"}
      BY <1>a, AfterThrowPc
    <3>. QED  BY <1>10, <1>a, <2>1, <3>1, <3>2, ImportInserted DEF Stage
  <2>2. CASE ~HashConstraint(file[a])
    BY <1>10, <2>2, <1>a, AfterThrowPc, TablesUnchanged, WorkKept
    DEF Rest, Stage, db, Staged, Committed
  <2>. QED  BY <2>1, <2>2
<1>11. ASSUME NEW a \in Actors, Commit(a) PROVE Rest'
  <2>0. /\ UNCHANGED <<imp, file, ingestions, unacked>>
        /\ \A x \in Actors : x # a => pc'[x] = pc[x]
        /\ pc[a] = "commit"
    BY <1>11, <1>a DEF Commit
  <2>1. CASE /\ UNCHANGED <<imports, sales>>
             /\ pc'[a] \in {"fail", "idle", "markFailed"}
    BY <2>0, <2>1, <1>a, TablesUnchanged, WorkKept DEF Rest, db, Staged, Committed
  <2>2. CASE CommitRows(a) /\ pc'[a] = "audit"
    BY <2>0, <2>2, <1>a, RowsCommitted DEF Staged
  <2>. QED  BY <1>11, <1>a, <2>1, <2>2, AfterThrowPc DEF Commit
<1>12. ASSUME NEW a \in Actors, MarkFailed(a) PROVE Rest'
  <2>1. imp[a] \in ImportIds /\ Staged(a) /\ pc[a] = "markFailed"
    BY <1>12, <1>a DEF MarkFailed, Staged
  <2>2. \A j \in ImportIds :
          /\ imports'[j].status = IF j = imp[a] THEN "failed" ELSE imports[j].status
          /\ imports'[j].file = imports[j].file
    BY <1>12, <2>1, <1>a, SetStatus DEF MarkFailed
  <2>3. /\ UNCHANGED <<imp, file, ingestions, sales, unacked>>
        /\ \A x \in Actors : x # a => pc'[x] = pc[x]
        /\ pc'[a] \in {"fail", "idle"}
    BY <1>12, <1>a, AfterThrowPc DEF MarkFailed
  <2>4. imports[imp[a]].status \in {"staging", "committed"}
    BY <2>1 DEF IInv, HeldImport
  <2>5. UniqueHash'
    BY <2>1, <2>2, <2>4 DEF IInv, UniqueHash
  <2>6. \A x \in Actors : x # a /\ (Staged(x) \/ Committed(x)) => imp[x] # imp[a]
    BY <2>1 DEF IInv, Exclusive
  <2>7. HeldImport'
    BY <1>a, <2>2, <2>3, <2>6 DEF IInv, HeldImport, Staged, Committed
  <2>8. Exclusive'
    BY <2>3 DEF IInv, Exclusive, Staged, Committed
  <2>9. imp[a] \in sales => imp[a] \in unacked
    BY <2>1 DEF IInv, HeldImport, StatusTellsRows
  <2>10. RowsExist' /\ StatusTellsRows'
    BY <1>a, <2>1, <2>2, <2>3, <2>9 DEF IInv, RowsExist, StatusTellsRows
  <2>11. \A b \in Blobs : ingestions[b].status = "success" => ingestions[b].import # imp[a]
    BY <2>1 DEF IInv, Exclusive
  <2>12. SuccessIsBacked'
    BY <1>a, <2>2, <2>3, <2>11 DEF IInv, SuccessIsBacked
  <2>. QED  BY <2>5, <2>7, <2>8, <2>10, <2>12 DEF Rest
<1>13. ASSUME NEW a \in Actors, AfterCommit(a) PROVE Rest'
  BY <1>13, <1>a, TablesUnchanged, WorkKept DEF Rest, AfterCommit, db, Staged, Committed
<1>14. ASSUME NEW a \in Actors, Throw(a) PROVE Rest'
  <2>. PICK to \in ThrowTargets(a) : pc' = [pc EXCEPT ![a] = to]
    BY <1>14 DEF Throw
  <2>1. /\ to \in {"unlock", "idle", "markFailed", "fail"}
        /\ to = "markFailed" => pc[a] = "commit"
    BY AfterThrowPc DEF ThrowTargets
  <2>2. UNCHANGED <<db, unacked>> /\ UNCHANGED <<imp, file, imports, ingestions>>
    BY <1>14 DEF Throw, db
  <2>3. HeldImport' /\ Exclusive'
    BY <1>a, <2>1, <2>2, WorkKept DEF Staged, Committed
  <2>. QED  BY <2>2, <2>3, TablesUnchanged DEF Rest
<1>21. ASSUME NEW r \in Runs, LockAnswerLost(r) PROVE Rest'
  BY <1>21, TablesUnchanged, WorkKept DEF Rest, LockAnswerLost, db, local, Staged, Committed
<1>22. ASSUME NEW a \in Actors, AnswerLost(a) PROVE Rest'
  <2>a. UNCHANGED <<imp, file>>
    BY <1>22 DEF AnswerLost
  <2>1. CASE /\ pc[a] = "stage" /\ HashConstraint(file[a])
             /\ \E i \in ImportIds : InsertImport(a, i)
             /\ pc' = [pc EXCEPT ![a] = AfterThrow(a)]
             /\ UNCHANGED <<sales, ingestions, unacked>>
    <3>1. PICK i \in ImportIds : InsertImport(a, i)
      BY <2>1
    <3>2. /\ \A x \in Actors : x # a => pc'[x] = pc[x]
          /\ pc'[a] \in {"fail", "idle"}
      BY <2>1, <1>a, AfterThrowPc
    <3>. QED  BY <2>a, <2>1, <3>1, <3>2, <1>a, ImportInserted
  <2>2. CASE /\ pc[a] = "commit" /\ CommitRows(a)
             /\ unacked' = unacked \cup {imp[a]}
             /\ pc' = [pc EXCEPT ![a] = "markFailed"]
             /\ UNCHANGED ingestions
    BY <2>a, <2>2, <1>a, RowsCommitted DEF Staged
  <2>3. CASE /\ pc[a] = "record" /\ WriteSuccess(a)
             /\ pc' = [pc EXCEPT ![a] = "fail"]
             /\ UNCHANGED <<imports, sales, unacked>>
    <3>1. a \in Runs
      BY <2>3 DEF IInv, OnlyRuns
    <3>. QED  BY <2>a, <2>3, <3>1, <1>a, SuccessWritten DEF Committed
  <2>4. CASE /\ pc[a] = "fail" /\ WriteFailed(a)
             /\ pc' = [pc EXCEPT ![a] = "unlock"]
             /\ UNCHANGED <<imports, sales, unacked>>
    <3>1. a \in Runs
      BY <2>4 DEF IInv, OnlyRuns
    <3>. QED  BY <2>a, <2>4, <3>1, <1>a, FailureWritten
  <2>. QED  BY <1>22, <2>1, <2>2, <2>3, <2>4 DEF AnswerLost
<1>15. ASSUME NEW p \in Procs, CrashProc(p) PROVE Rest'
  BY <1>15, <1>a, TablesUnchanged, WorkKept DEF Rest, CrashProc, db, Staged, Committed
<1>16. ASSUME NEW s \in Scripts, CrashScript(s) PROVE Rest'
  BY <1>16, <1>a, TablesUnchanged, WorkKept DEF Rest, CrashScript, db, Staged, Committed
<1>17. ASSUME NEW c \in Conns, CloseIdle(c) PROVE Rest'
  BY <1>17, TablesUnchanged, WorkKept DEF Rest, CloseIdle, db, local, Staged, Committed
<1>18. ASSUME NEW b \in Blobs, NEW f \in Files, Publish(b, f) PROVE Rest'
  BY <1>18, TablesUnchanged, WorkKept DEF Rest, Publish, db, local, Staged, Committed
<1>19. ASSUME NEW f \in Files, FixRows(f) \/ FxArrives(f) PROVE Rest'
  BY <1>19, TablesUnchanged, WorkKept
  DEF Rest, FixRows, FxArrives, db, local, Staged, Committed
<1>20. ASSUME UNCHANGED vars PROVE Rest'
  <2>1. UNCHANGED <<imports, sales, ingestions, pc, imp, file, unacked>>
    BY <1>20 DEF vars
  <2>2. UNCHANGED <<db, unacked>>
    BY <2>1 DEF db
  <2>3. HeldImport' /\ Exclusive'
    BY <2>1, WorkKept DEF Staged, Committed
  <2>. QED  BY <2>2, <2>3, TablesUnchanged DEF Rest, db
<1>23. Rest'
  BY <1>1, <1>2, <1>3, <1>4, <1>5, <1>6, <1>7, <1>8, <1>9, <1>10, <1>11,
     <1>12, <1>13, <1>14, <1>15, <1>16, <1>17, <1>18, <1>19, <1>20, <1>21, <1>22
  DEF Next, RunStep, ImportStep
<1>. QED  BY <1>t, <1>23 DEF IInv, TInv, Rest

-----------------------------------------------------------------------------
(* Theorems.                                                               *)

LEMMA Invariance == Spec => []IInv
  BY IInit, IStep, PTL DEF Spec

\* No bytes are ingested twice, however runs, scripts, retries and crashes
\* interleave and whether or not the advisory lock did its work.
THEOREM NeverIngestedTwice == Spec => []NoDoubleIngest
<1>1. IInv => NoDoubleIngest
  <2> SUFFICES ASSUME IInv, NEW i \in sales, NEW j \in sales,
                      imports[i].file = imports[j].file
               PROVE  i = j
    BY DEF NoDoubleIngest
  <2>1. i \in ImportIds /\ j \in ImportIds
    BY DEF IInv, TypeOK
  <2>2. imports[i].status # "none" /\ imports[j].status # "none"
    BY DEF IInv, RowsExist
  <2>. QED  BY <2>1, <2>2 DEF IInv, UniqueHash
<1>. QED  BY <1>1, Invariance, PTL

\* A success row, which makes every later run skip its blob, is backed by a
\* committed import whose rows are in sales_records.
THEOREM SuccessRowsAreBacked == Spec => []SuccessIsBacked
<1>1. IInv => SuccessIsBacked
  BY DEF IInv
<1>. QED  BY <1>1, Invariance, PTL

\* Committed imports have their rows, and rows without that status are those of
\* a COMMIT whose answer was lost.
THEOREM StatusIsTruthful == Spec => []StatusTellsRows
<1>1. IInv => StatusTellsRows
  BY DEF IInv
<1>. QED  BY <1>1, Invariance, PTL

\* Only the commit adds to sales_records, an import it was allowed to commit,
\* and no step changes the contents a committed import stands for.
CommitsOne(a) ==
  /\ imp[a] \in ImportIds /\ imp[a] \notin sales
  /\ imports[imp[a]].file \in Files
  /\ ~imports[imp[a]].invalid
  /\ imports[imp[a]].status = "staging"
  /\ imports[imp[a]].file \notin staleFx
  /\ sales' = sales \cup {imp[a]}
  /\ \A i \in ImportIds : imports'[i].file = imports[i].file

\* An import that is inserted has no rows yet.
LEMMA InsertIdle ==
  ASSUME IInv, NEW a \in Actors, NEW i \in ImportIds, InsertImport(a, i),
         imports \in [ImportIds -> ImportRow], sales \subseteq ImportIds
  PROVE  \A j \in sales : imports'[j].file = imports[j].file
<1>1. i \notin sales
  BY DEF IInv, RowsExist, InsertImport
<1>. QED  BY <1>1 DEF InsertImport

LEMMA SalesStep ==
  ASSUME IInv, [Next]_vars
  PROVE  \/ \E a \in Actors : CommitsOne(a)
         \/ /\ sales' = sales
            /\ \A i \in sales : imports'[i].file = imports[i].file
<1> DEFINE Idle == /\ sales' = sales
                   /\ \A i \in sales : imports'[i].file = imports[i].file
<1>a. /\ imports \in [ImportIds -> ImportRow] /\ sales \subseteq ImportIds
      /\ \A x \in Actors : Staged(x) \/ Committed(x) => imp[x] \in ImportIds
  BY DEF IInv, TypeOK, HasImport, ImportRow
<1>1. ASSUME NEW r \in Runs, StartRun(r) \/ RunStep(r) PROVE Idle
  BY <1>1 DEF StartRun, RunStep, Unlock, FinishScan, PullBlob, FxPreCheck,
              RecordSuccess, RecordFailed, Visit, db
<1>2. ASSUME NEW s \in Scripts, NEW f \in Files, PullLocal(s, f) PROVE Idle
  BY <1>2 DEF PullLocal, db
<1>3. ASSUME NEW a \in Actors, Stage(a) PROVE Idle
  <2>1. CASE UNCHANGED imports
    BY <1>3, <2>1 DEF Stage
  <2>2. CASE HashConstraint(file[a])
    <3>. PICK i \in ImportIds : InsertImport(a, i)
      BY <1>3, <2>2 DEF Stage
    <3>. QED  BY <1>3, <1>a, InsertIdle DEF Stage
  <2>. QED  BY <1>3, <2>1, <2>2 DEF Stage
<1>4. ASSUME NEW a \in Actors, Commit(a) \/ AnswerLost(a) PROVE Idle \/ CommitsOne(a)
  <2>1. CASE UNCHANGED <<imports, sales>>
    BY <2>1
  <2>2. CASE /\ pc[a] = "commit" /\ CommitAllowed(imp[a])
             /\ ~RatesTooOld(file[a]) /\ CommitRows(a)
    <3>1. Staged(a) /\ imp[a] \in ImportIds
      BY <2>2, <1>a DEF Staged
    <3>2. \A i \in ImportIds : imports'[i].file = imports[i].file
      BY <2>2, <3>1, <1>a, SetStatus DEF CommitRows
    <3>3. imports[imp[a]].file = file[a] /\ imports[imp[a]].status = "staging"
      BY <2>2, <3>1 DEF IInv, HeldImport
    <3>4. imp[a] \notin sales
      BY <3>3 DEF IInv, RowsExist
    <3>5. file[a] \in Files
      BY <3>1 DEF IInv, HasFile
    <3>. QED  BY <2>2, <3>1, <3>2, <3>3, <3>4, <3>5
              DEF CommitsOne, CommitAllowed, RatesTooOld, CommitRows
  <2>3. CASE /\ sales' = sales /\ \E i \in ImportIds : InsertImport(a, i)
    BY <2>3, <1>a, InsertIdle
  <2>. QED  BY <1>4, <2>1, <2>2, <2>3 DEF Commit, AnswerLost
<1>5. ASSUME NEW a \in Actors, MarkFailed(a) PROVE Idle
  <2>1. imp[a] \in ImportIds
    BY <1>5, <1>a DEF MarkFailed, Staged
  <2>2. \A i \in ImportIds : imports'[i].file = imports[i].file
    BY <1>5, <2>1, <1>a, SetStatus DEF MarkFailed
  <2>. QED  BY <1>5, <2>2, <1>a DEF MarkFailed
<1>6. ASSUME NEW a \in Actors, AfterCommit(a) \/ Throw(a) PROVE Idle
  BY <1>6 DEF AfterCommit, Throw, db
<1>7. ASSUME NEW p \in Procs, CrashProc(p) PROVE Idle
  BY <1>7 DEF CrashProc, db
<1>8. ASSUME NEW s \in Scripts, CrashScript(s) PROVE Idle
  BY <1>8 DEF CrashScript, db
<1>9. ASSUME NEW c \in Conns, CloseIdle(c) PROVE Idle
  BY <1>9 DEF CloseIdle, db
<1>10. ASSUME NEW b \in Blobs, NEW f \in Files, Publish(b, f) PROVE Idle
  BY <1>10 DEF Publish, db
<1>11. ASSUME NEW f \in Files, FixRows(f) \/ FxArrives(f) PROVE Idle
  BY <1>11 DEF FixRows, FxArrives, db
<1>12. ASSUME UNCHANGED vars PROVE Idle
  BY <1>12 DEF vars
<1>14. ASSUME NEW r \in Runs, LockAnswerLost(r) PROVE Idle
  BY <1>14 DEF LockAnswerLost, db
<1>. HIDE DEF Idle
<1>13. Idle \/ \E a \in Actors : CommitsOne(a)
  BY <1>1, <1>2, <1>3, <1>4, <1>5, <1>6, <1>7, <1>8, <1>9, <1>10, <1>11, <1>12, <1>14
  DEF Next, ImportStep
<1>. QED  BY <1>13 DEF Idle

\* Rows only become visible for a file that is wholly valid and whose rates
\* are fresh at that moment.
THEOREM CommitsAreGated == Spec => CommitIsGated
<1>1. IInv /\ [Next]_vars =>
        [\A i \in sales' \ sales : /\ ~imports[i].invalid
                                   /\ imports[i].file \notin staleFx]_vars
  BY SalesStep DEF CommitsOne
<1>. QED  BY <1>1, Invariance, PTL DEF Spec, CommitIsGated

\* The visible rows implement the append-only ledger without repetition.
THEOREM EtlImplementsLedger == Spec => ImplementsLedger
<1> DEFINE led == {<<i, imports[i].file>> : i \in sales}
<1>1. Init => Ledger!Init
  BY DEF Init, Ledger!Init
<1>2. ASSUME IInv, [Next]_vars
      PROVE  [Ledger!Next]_led
  <2>1. CASE /\ sales' = sales
             /\ \A i \in sales : imports'[i].file = imports[i].file
    BY <2>1
  <2>2. ASSUME NEW a \in Actors, CommitsOne(a) PROVE Ledger!Next
    <3>1. PICK i \in ImportIds, f \in Files :
            /\ i = imp[a] /\ f = imports[i].file /\ i \notin sales
            /\ imports[i].status = "staging"
            /\ sales' = sales \cup {i}
      BY <2>2 DEF CommitsOne
    <3>2. sales \subseteq ImportIds
      BY <1>2 DEF IInv, TypeOK
    <3>3. \A j \in sales : imports[j].status # "none"
      BY <1>2 DEF IInv, RowsExist
    <3>4. \A j \in sales : j # i /\ imports[j].file # f
      BY <1>2, <3>1, <3>2, <3>3 DEF IInv, UniqueHash
    <3>5. \A j \in ImportIds : imports'[j].file = imports[j].file
      BY <2>2 DEF CommitsOne
    <3>6. led' = led \cup {<<i, f>>}
      BY <3>1, <3>2, <3>5
    <3>7. \A e \in led : e[1] # i /\ e[2] # f
      BY <3>4
    <3>8. Ledger!Ingest(i, f)
      BY <3>6, <3>7 DEF Ledger!Ingest
    <3>. QED  BY <3>8 DEF Ledger!Next
  <2>. QED  BY <2>1, <2>2, SalesStep, <1>2
<1>. QED  BY <1>1, <1>2, Invariance, PTL DEF Spec, ImplementsLedger, Ledger!Spec
=============================================================================

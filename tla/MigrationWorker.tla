--------------------------- MODULE MigrationWorker ---------------------------
(***************************************************************************)
(* The Celery task datamovers.run_migration of app/worker/tasks.py.        *)
(*                                                                         *)
(* A worker keeps one database session for the whole task.  It loads the   *)
(* migration row once and its table rows once, and from then on decides on *)
(* those copies, its own later writes included; only _is_cancelled reads   *)
(* the row again.  A commit that finds a row gone leaves the session       *)
(* unusable, so the exception handler's own commit fails too and the task  *)
(* ends without writing anything: GiveUp below.                            *)
(***************************************************************************)
EXTENDS JobStore, Broker

VARIABLES
    wpc,     \* where worker w is
    job,     \* the task id w runs, 0 when idle
    seen,    \* the migration row as w loaded it: [status, task]
    mem,     \* total_rows and processed_rows in w's session
    cur,     \* the table w's loop is at
    local,   \* the table statuses in w's session
    have,    \* rows_total of the tables in w's session
    ed,      \* the generation of table rows w loaded, 0 if it found none
    copied   \* history: the <<generation, table>> an engine copied in full

workerVars == <<wpc, job, seen, mem, cur, local, have, ed, copied>>

WorkerPc == {"idle", "load", "claim", "setup", "loop", "mark", "preflight",
             "count", "engine", "wait", "store", "checkpoint", "insert",
             "failed", "cancelled", "ack"}

WorkerTypeOK ==
    /\ wpc \in [Workers -> WorkerPc]
    /\ job \in [Workers -> TaskIdSpace \cup {0}]
    /\ seen \in [Workers -> [status : MigrationStatus, task : TaskIdSpace \cup {0}]]
    /\ mem \in [Workers -> [total : Nat, processed : Nat]]
    /\ cur \in [Workers -> 1..(NumTables + 1)]
    /\ local \in [Workers -> [Tables -> TableStatus]]
    /\ have \in [Workers -> [Tables -> Nat]]
    /\ ed \in [Workers -> Editions \cup {0}]
    /\ copied \in SUBSET (Editions \X Tables)

NoRow == [status |-> "draft", task |-> 0]
NoRows == [total |-> 0, processed |-> 0]
AllPending == [t \in Tables |-> "pending"]
AllZero == [t \in Tables |-> 0]

WorkerInit ==
    /\ wpc = [w \in Workers |-> "idle"]
    /\ job = [w \in Workers |-> 0]
    /\ seen = [w \in Workers |-> NoRow]
    /\ mem = [w \in Workers |-> NoRows]
    /\ cur = [w \in Workers |-> 1]
    /\ local = [w \in Workers |-> AllPending]
    /\ have = [w \in Workers |-> AllZero]
    /\ ed = [w \in Workers |-> 0]
    /\ copied = {}

Go(w, step) == wpc' = [wpc EXCEPT ![w] = step]

(* w moves on and its session is as it was.                                *)
Continue(w, step) ==
    /\ Go(w, step)
    /\ UNCHANGED <<job, seen, mem, cur, local, have, ed, copied>>

(* The session is closed: w's copies of the rows are gone.                 *)
CloseSession(w) ==
    /\ seen' = [seen EXCEPT ![w] = NoRow]
    /\ mem' = [mem EXCEPT ![w] = NoRows]
    /\ cur' = [cur EXCEPT ![w] = 1]
    /\ local' = [local EXCEPT ![w] = AllPending]
    /\ have' = [have EXCEPT ![w] = AllZero]
    /\ ed' = [ed EXCEPT ![w] = 0]
    /\ UNCHANGED copied

(* The task ends, by returning or by an exception nobody catches.          *)
EndTask(w) ==
    /\ Go(w, "ack")
    /\ CloseSession(w)
    /\ UNCHANGED job

(* A commit failed: nothing is written, neither now nor by the handlers.   *)
GiveUp(w) ==
    /\ EndTask(w)
    /\ UNCHANGED <<storeVars, brokerVars>>

(* The worker waits for its next message.                                  *)
ResetWorker(w) ==
    /\ Go(w, "idle")
    /\ job' = [job EXCEPT ![w] = 0]
    /\ CloseSession(w)

(* The row of w's current table can still be updated by w's session.       *)
RowsValid(w) == TableRowsExist(ed[w])

------------------------------------------------------------------------------
(* Delivery *)

Deliver(w) ==
    /\ wpc[w] = "idle"
    /\ Take(w)
    /\ Go(w, "load")
    /\ job' = [job EXCEPT ![w] = Head(queue)]
    /\ UNCHANGED <<storeVars, seen, mem, cur, local, have, ed, copied>>

DropRevoked(w) ==
    /\ wpc[w] = "idle"
    /\ Discard(w)
    /\ UNCHANGED <<storeVars, workerVars>>

(* A task that ends is acknowledged, even when it ended by an exception.   *)
Ack(w) ==
    /\ wpc[w] = "ack"
    /\ Acknowledge(job[w], w)
    /\ ResetWorker(w)
    /\ UNCHANGED storeVars

------------------------------------------------------------------------------
(* Claiming the migration *)

(* "missing" or "skipped": nothing is done unless it is queued or running. *)
LoadSkips(w) ==
    /\ wpc[w] = "load"
    /\ status \notin Active
    /\ EndTask(w)
    /\ UNCHANGED <<storeVars, brokerVars>>

(* Mutant of Load: the check of the status is forgotten.                   *)
LoadUnchecked(w) ==
    /\ wpc[w] = "load"
    /\ RowExists
    /\ seen' = [seen EXCEPT ![w] = [status |-> status, task |-> taskId]]
    /\ mem' = [mem EXCEPT ![w] = [total |-> total, processed |-> processed]]
    /\ Go(w, "claim")
    /\ UNCHANGED <<storeVars, brokerVars, job, cur, local, have, ed, copied>>

Load(w) ==
    /\ wpc[w] = "load"
    /\ status \in Active
    /\ seen' = [seen EXCEPT ![w] = [status |-> status, task |-> taskId]]
    /\ mem' = [mem EXCEPT ![w] = [total |-> total, processed |-> processed]]
    /\ Go(w, "claim")
    /\ UNCHANGED <<storeVars, brokerVars, job, cur, local, have, ed, copied>>

ClaimWrites(w) == seen[w].status # "running" \/ seen[w].task # job[w]

(* The claim writes RUNNING only if it did not load RUNNING, and its task  *)
(* id only if it did not load that id; it does not look at the row again.  *)
Claim(w) ==
    /\ wpc[w] = "claim"
    /\ ClaimWrites(w) => RowExists
    /\ status' = IF seen[w].status # "running" THEN "running" ELSE status
    /\ taskId' = IF seen[w].task # job[w] THEN job[w] ELSE taskId
    /\ Go(w, "setup")
    /\ seen' = [seen EXCEPT ![w] = NoRow]  \* not read again
    /\ UNCHANGED <<total, processed, tables, rowsTotal, rowsDone, edition,
                   checkpoints, brokerVars, job, mem, cur, local, have, ed, copied>>

ClaimStale(w) ==
    /\ wpc[w] = "claim"
    /\ ClaimWrites(w) /\ ~RowExists
    /\ GiveUp(w)

(* Owner and connections check out and the DSNs are built; the table rows  *)
(* are loaded now, for the rest of the task.  There are none if the        *)
(* migration was deleted meanwhile.                                        *)
Setup(w) ==
    /\ wpc[w] = "setup"
    /\ local' = [local EXCEPT ![w] = IF RowExists THEN tables ELSE AllPending]
    /\ have' = [have EXCEPT ![w] = IF RowExists THEN rowsTotal ELSE AllZero]
    /\ ed' = [ed EXCEPT ![w] = IF RowExists THEN edition ELSE 0]
    /\ cur' = [cur EXCEPT ![w] = IF RowExists THEN 1 ELSE NumTables + 1]
    /\ Go(w, "loop")
    /\ UNCHANGED <<storeVars, brokerVars, job, seen, mem, copied>>

(* Authorization, the engine binary or a credential is refused.            *)
SetupFails(w) ==
    /\ "setup_fails" \in Faults
    /\ wpc[w] = "setup"
    /\ IF RowExists THEN SetStatus("failed") ELSE UNCHANGED storeVars
    /\ EndTask(w)
    /\ UNCHANGED brokerVars

(* build_dsn raises: it is called outside every try block of the task.     *)
DsnRaises(w) ==
    /\ "dsn_raises" \in Faults
    /\ wpc[w] = "setup"
    /\ GiveUp(w)

------------------------------------------------------------------------------
(* The loop over the tables *)

NextTable(w) ==
    /\ Go(w, "loop")
    /\ cur' = [cur EXCEPT ![w] = cur[w] + 1]
    /\ UNCHANGED <<job, seen, mem, local, have, ed, copied>>

(* _is_cancelled: the committed status, read in a session of its own.      *)
IsCancelled == status = "cancelled"

(* Each round starts with that check.                                      *)
SeesCancelled(w) ==
    /\ wpc[w] = "loop"
    /\ cur[w] <= NumTables
    /\ IsCancelled
    /\ Continue(w, "cancelled")
    /\ UNCHANGED <<storeVars, brokerVars>>

(* Mutant of SkipDone: tables that were attempted before are skipped too.  *)
SkipAttempted(w) ==
    /\ wpc[w] = "loop"
    /\ cur[w] <= NumTables
    /\ ~IsCancelled
    /\ local[w][cur[w]] \in {"done", "running"}
    /\ NextTable(w)
    /\ UNCHANGED <<storeVars, brokerVars>>

(* A table that was DONE when the rows were loaded is skipped.             *)
SkipDone(w) ==
    /\ wpc[w] = "loop"
    /\ cur[w] <= NumTables
    /\ ~IsCancelled
    /\ local[w][cur[w]] = "done"
    /\ NextTable(w)
    /\ UNCHANGED <<storeVars, brokerVars>>

StartTable(w) ==
    /\ wpc[w] = "loop"
    /\ cur[w] <= NumTables
    /\ ~IsCancelled
    /\ local[w][cur[w]] # "done"
    /\ Continue(w, "mark")
    /\ UNCHANGED <<storeVars, brokerVars>>

(* Writes of w's current table row, in the database and in the session.    *)
SetTable(w, s) ==
    /\ tables' = [tables EXCEPT ![cur[w]] = s]
    /\ local' = [local EXCEPT ![w][cur[w]] = s]

MarkRunning(w) ==
    /\ wpc[w] = "mark"
    /\ IF local[w][cur[w]] = "running"
         THEN UNCHANGED <<tables, local>>
         ELSE RowsValid(w) /\ SetTable(w, "running")
    /\ Go(w, "preflight")
    /\ UNCHANGED <<status, taskId, total, processed, rowsTotal, rowsDone, edition,
                   checkpoints, brokerVars, job, seen, mem, cur, have, ed, copied>>

MarkRunningStale(w) ==
    /\ wpc[w] = "mark"
    /\ local[w][cur[w]] # "running" /\ ~RowsValid(w)
    /\ GiveUp(w)

(* Preflight: the log line, the columns, the target table.                 *)
PreflightOk(w) ==
    /\ wpc[w] = "preflight"
    /\ RowExists
    /\ Continue(w, "count")
    /\ UNCHANGED <<storeVars, brokerVars>>

(* Mutants of TargetMissing: the failure does not end the loop, or the     *)
(* checkpoint is written in a finally block.                               *)
TargetMissingSkipped(w) ==
    /\ "target_missing" \in Faults
    /\ wpc[w] = "preflight"
    /\ RowsValid(w)
    /\ SetTable(w, "failed")
    /\ Go(w, "loop")
    /\ cur' = [cur EXCEPT ![w] = @ + 1]
    /\ UNCHANGED <<status, taskId, total, processed, rowsTotal, rowsDone, edition,
                   checkpoints, brokerVars, job, seen, mem, have, ed, copied>>

TargetMissingCheckpointed(w) ==
    /\ "target_missing" \in Faults
    /\ wpc[w] = "preflight"
    /\ RowsValid(w)
    /\ SetTable(w, "failed")
    /\ Go(w, "checkpoint")
    /\ UNCHANGED <<status, taskId, total, processed, rowsTotal, rowsDone, edition,
                   checkpoints, brokerVars, job, seen, mem, cur, have, ed, copied>>

(* The target table is missing and may not or cannot be created.           *)
TargetMissing(w) ==
    /\ "target_missing" \in Faults
    /\ wpc[w] = "preflight"
    /\ RowsValid(w)
    /\ SetTable(w, "failed")
    /\ Go(w, "failed")
    /\ UNCHANGED <<status, taskId, total, processed, rowsTotal, rowsDone, edition,
                   checkpoints, brokerVars, job, seen, mem, cur, have, ed, copied>>

(* Discovery, DDL or the columns raise: the table stays RUNNING.           *)
TableRaises(w) ==
    /\ "table_raises" \in Faults
    /\ wpc[w] \in {"preflight", "count"}
    /\ RowExists
    /\ Continue(w, "failed")
    /\ UNCHANGED <<storeVars, brokerVars>>

PreflightStale(w) ==
    /\ wpc[w] = "preflight"
    /\ \/ ~RowExists
       \/ "target_missing" \in Faults /\ ~RowsValid(w)
    /\ GiveUp(w)

(* Mutant of CountRows: the migration's total is assigned, not added to.   *)
CountRowsOverwrites(w) ==
    /\ wpc[w] = "count"
    /\ RowsValid(w)
    /\ rowsTotal' = [rowsTotal EXCEPT ![cur[w]] = Rows[cur[w]]]
    /\ have' = [have EXCEPT ![w][cur[w]] = Rows[cur[w]]]
    /\ total' = Rows[cur[w]]
    /\ mem' = [mem EXCEPT ![w].total = Rows[cur[w]]]
    /\ Go(w, "engine")
    /\ UNCHANGED <<status, taskId, processed, tables, rowsDone, edition,
                   checkpoints, brokerVars, job, seen, cur, local, ed, copied>>

(* The count replaces the table's total and is added to the migration's,   *)
(* whose value is the one w loaded plus its own additions.  A count of 0   *)
(* changes no column, so it writes nothing.                                *)
CountRows(w) ==
    /\ wpc[w] = "count"
    /\ LET rows == Rows[cur[w]] IN
       /\ rows # 0 => RowExists
       /\ have[w][cur[w]] # rows => RowsValid(w)
       /\ rowsTotal' = IF have[w][cur[w]] # rows
                         THEN [rowsTotal EXCEPT ![cur[w]] = rows] ELSE rowsTotal
       /\ have' = [have EXCEPT ![w][cur[w]] = rows]
       /\ total' = IF rows # 0 THEN mem[w].total + rows ELSE total
       /\ mem' = [mem EXCEPT ![w].total = @ + rows]
    /\ Go(w, "engine")
    /\ UNCHANGED <<status, taskId, processed, tables, rowsDone, edition,
                   checkpoints, brokerVars, job, seen, cur, local, ed, copied>>

(* Counting is non-fatal, except that the warning's commit fails on a      *)
(* session or a row that is gone.                                          *)
CountFails(w) ==
    /\ "count_fails" \in Faults
    /\ wpc[w] = "count"
    /\ RowExists
    /\ Continue(w, "engine")
    /\ UNCHANGED <<storeVars, brokerVars>>

CountStale(w) ==
    /\ wpc[w] = "count"
    /\ \/ "count_fails" \in Faults /\ ~RowExists
       \/ Rows[cur[w]] # 0 /\ ~RowExists
       \/ have[w][cur[w]] # Rows[cur[w]] /\ ~RowsValid(w)
    /\ GiveUp(w)

------------------------------------------------------------------------------
(* The engine run: _stream_engine, with the configuration, the temporary   *)
(* file and the start of the child before it.                              *)
AtEngine == {"engine", "wait"}

(* The engine's output ends before the engine does, or the reader thread   *)
(* fails on it: the loop breaks and waits for the exit code, without a     *)
(* timeout; the status is not read again and no line is stored.            *)
OutputEnds(w) ==
    /\ "output_ends" \in Faults
    /\ wpc[w] = "engine"
    /\ Continue(w, "wait")
    /\ UNCHANGED <<storeVars, brokerVars>>

(* The engine has copied the whole table and exited with code 0.           *)
EngineSucceeds(w) ==
    /\ wpc[w] \in AtEngine
    /\ copied' = copied \cup {<<ed[w], cur[w]>>}
    /\ Go(w, "store")
    /\ UNCHANGED <<storeVars, brokerVars, job, seen, mem, cur, local, have, ed>>

(* Mutant of EngineFails: the exit code is not looked at.                  *)
ExitCodeIgnored(w) ==
    /\ "engine_fails" \in Faults
    /\ wpc[w] \in AtEngine
    /\ Continue(w, "store")
    /\ UNCHANGED <<storeVars, brokerVars>>

(* It exited with another code, after copying some part of the table.      *)
EngineFails(w) ==
    /\ "engine_fails" \in Faults
    /\ wpc[w] \in AtEngine
    /\ RowsValid(w)
    /\ SetTable(w, "failed")
    /\ Go(w, "failed")
    /\ UNCHANGED <<status, taskId, total, processed, rowsTotal, rowsDone, edition,
                   checkpoints, brokerVars, job, seen, mem, cur, have, ed, copied>>

(* The configuration, the temporary file, the start of the child, a line   *)
(* that is JSON and no object, or a status poll raises: the table stays    *)
(* RUNNING, its count committed, and the child is killed.                  *)
EngineRaises(w) ==
    /\ "table_raises" \in Faults
    /\ wpc[w] = "engine"
    /\ Continue(w, "failed")
    /\ UNCHANGED <<storeVars, brokerVars>>

(* Mutant of EngineCancelled: the poll looks at the row in w's session,    *)
(* which was RUNNING when the session read it, not at the database.        *)
PollOwnSession(w) ==
    /\ wpc[w] = "engine"
    /\ seen[w].status = "cancelled"
    /\ Continue(w, "cancelled")
    /\ UNCHANGED <<storeVars, brokerVars>>

(* The cancellation poll of the loop; the engine is terminated.            *)
EngineCancelled(w) ==
    /\ wpc[w] = "engine"
    /\ IsCancelled
    /\ Continue(w, "cancelled")
    /\ UNCHANGED <<storeVars, brokerVars>>

(* A log line cannot be stored, or the failure of the table cannot.        *)
EngineStale(w) ==
    /\ wpc[w] \in AtEngine
    /\ \/ wpc[w] = "engine" /\ ~RowExists
       \/ "engine_fails" \in Faults /\ ~RowsValid(w)
    /\ GiveUp(w)

(* Mutant of StoreDone: the table row is addressed by its name, so that a  *)
(* row an edit put in its place is written.                                *)
StoreDoneByName(w) ==
    /\ wpc[w] = "store"
    /\ RowExists
    /\ SetTable(w, "done")
    /\ Go(w, "checkpoint")
    /\ UNCHANGED <<status, taskId, total, processed, rowsTotal, rowsDone, edition,
                   checkpoints, brokerVars, job, seen, mem, cur, have, ed, copied>>

(* DONE, the table's rows and the migration's rows are one commit; the     *)
(* migration's count is the one in w's session plus this table.            *)
StoreDone(w) ==
    /\ wpc[w] = "store"
    /\ RowsValid(w)
    /\ SetTable(w, "done")
    /\ LET rows == have[w][cur[w]] IN
       /\ rowsDone' = [rowsDone EXCEPT ![cur[w]] = rows]
       /\ processed' = IF rows # 0 THEN mem[w].processed + rows ELSE processed
       /\ mem' = [mem EXCEPT ![w].processed = @ + rows]
    /\ Go(w, "checkpoint")
    /\ UNCHANGED <<status, taskId, total, rowsTotal, edition, checkpoints,
                   brokerVars, job, seen, cur, have, ed, copied>>

StoreDoneStale(w) ==
    /\ wpc[w] = "store"
    /\ ~RowsValid(w)
    /\ GiveUp(w)

(* _upsert_checkpoint: a row that is there is updated in place; its values *)
(* are not modelled.                                                       *)
CheckpointFound(w) ==
    /\ wpc[w] = "checkpoint"
    /\ cur[w] \in checkpoints
    /\ NextTable(w)
    /\ UNCHANGED <<storeVars, brokerVars>>

CheckpointAbsent(w) ==
    /\ wpc[w] = "checkpoint"
    /\ cur[w] \notin checkpoints
    /\ Continue(w, "insert")
    /\ UNCHANGED <<storeVars, brokerVars>>

CheckpointInsert(w) ==
    /\ wpc[w] = "insert"
    /\ RowExists
    /\ cur[w] \notin checkpoints
    /\ checkpoints' = checkpoints \cup {cur[w]}
    /\ NextTable(w)
    /\ UNCHANGED <<status, taskId, total, processed, tables, rowsTotal,
                   rowsDone, edition, brokerVars>>

(* The migration is gone, or another worker inserted the row first and the *)
(* unique constraint refuses this one.                                     *)
CheckpointRefused(w) ==
    /\ wpc[w] = "insert"
    /\ ~RowExists \/ cur[w] \in checkpoints
    /\ GiveUp(w)

------------------------------------------------------------------------------
(* The three ways the loop ends *)

(* Mutant of Complete: the status of a table is written.                   *)
CompleteAsTable(w) ==
    /\ wpc[w] = "loop"
    /\ cur[w] > NumTables
    /\ IF RowExists THEN SetStatus("done") ELSE UNCHANGED storeVars
    /\ EndTask(w)
    /\ UNCHANGED brokerVars

(* COMPLETED is written whatever the row says by now.                      *)
Complete(w) ==
    /\ wpc[w] = "loop"
    /\ cur[w] > NumTables
    /\ IF RowExists THEN SetStatus("completed") ELSE UNCHANGED storeVars
    /\ EndTask(w)
    /\ UNCHANGED brokerVars

(* Mutant of HandleFailure: the task ends without recording the failure.   *)
HandleFailureSilently(w) ==
    /\ wpc[w] = "failed"
    /\ EndTask(w)
    /\ UNCHANGED <<storeVars, brokerVars>>

HandleFailure(w) ==
    /\ wpc[w] = "failed"
    /\ IF RowExists THEN SetStatus("failed") ELSE UNCHANGED storeVars
    /\ EndTask(w)
    /\ UNCHANGED brokerVars

HalfCopied(w) == {t \in Tables : local[w][t] = "running"}

(* Tables that w's session holds as RUNNING go back to PENDING; the status *)
(* is not written, it is CANCELLED or whatever a restart made of it.       *)
HandleCancelled(w) ==
    /\ wpc[w] = "cancelled"
    /\ IF RowExists /\ (HalfCopied(w) # {} => RowsValid(w))
         THEN tables' = [t \in Tables |->
                           IF t \in HalfCopied(w) THEN "pending" ELSE tables[t]]
         ELSE UNCHANGED tables
    /\ EndTask(w)
    /\ UNCHANGED <<status, taskId, total, processed, rowsTotal, rowsDone, edition,
                   checkpoints, brokerVars>>

------------------------------------------------------------------------------
(* The worker process dies, anywhere.  Its delivery stays unacknowledged.  *)
WorkerCrash(w) ==
    /\ wpc[w] # "idle"
    /\ ResetWorker(w)
    /\ ForgetRevocations(w)
    /\ UNCHANGED storeVars

(* An unacknowledged message is put back by a worker that is free.         *)
RestoreUnacked(delivery) ==
    /\ \E w \in Workers : wpc[w] = "idle"
    /\ Redeliver(delivery)
    /\ UNCHANGED <<storeVars, workerVars>>

(* The steps of a worker outside the engine run.                           *)
TaskStep(w) ==
    \/ Deliver(w) \/ DropRevoked(w) \/ Ack(w)
    \/ LoadSkips(w) \/ Load(w) \/ Claim(w) \/ ClaimStale(w)
    \/ Setup(w) \/ SetupFails(w) \/ DsnRaises(w)
    \/ SeesCancelled(w) \/ SkipDone(w) \/ StartTable(w)
    \/ MarkRunning(w) \/ MarkRunningStale(w)
    \/ PreflightOk(w) \/ TargetMissing(w) \/ TableRaises(w) \/ PreflightStale(w)
    \/ CountRows(w) \/ CountFails(w) \/ CountStale(w)
    \/ StoreDone(w) \/ StoreDoneStale(w)
    \/ CheckpointFound(w) \/ CheckpointAbsent(w)
    \/ CheckpointInsert(w) \/ CheckpointRefused(w)
    \/ Complete(w) \/ HandleFailure(w) \/ HandleCancelled(w)

(* What the engine and its surroundings may do and need not.               *)
EngineExit(w) ==
    \/ OutputEnds(w) \/ EngineSucceeds(w) \/ EngineFails(w)
    \/ EngineRaises(w) \/ EngineStale(w)

(* What the streaming loop does on the clock while the output is open.     *)
EnginePoll(w) == EngineCancelled(w)

==============================================================================

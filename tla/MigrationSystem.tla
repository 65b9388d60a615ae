--------------------------- MODULE MigrationSystem ---------------------------
(***************************************************************************)
(* One migration in service: the lifecycle endpoints, the Celery workers   *)
(* and the broker over one PostgreSQL database, with processes that die.   *)
(***************************************************************************)
EXTENDS MigrationApi, MigrationWorker

CONSTANT MaxFaults  \* bound: process deaths

ASSUME MaxFaultsAssumption == MaxFaults \in Nat

VARIABLE deaths     \* process deaths so far

vars == <<storeVars, brokerVars, apiVars, workerVars, deaths>>

TypeOK ==
    /\ StoreTypeOK
    /\ BrokerTypeOK
    /\ ApiTypeOK
    /\ WorkerTypeOK
    /\ deaths \in 0..MaxFaults

Init ==
    /\ StoreInit
    /\ BrokerInit
    /\ ApiInit
    /\ WorkerInit
    /\ deaths = 0

Death(kind) ==
    /\ kind \in Faults
    /\ deaths < MaxFaults
    /\ deaths' = deaths + 1

Request(r) == RequestStep(r) /\ UNCHANGED <<workerVars, deaths>>
Client(r) == NewRequest(r) /\ UNCHANGED <<workerVars, deaths>>
ApiDeath(r) == Death("api_crash") /\ ApiCrash(r) /\ UNCHANGED workerVars
Task(w) == TaskStep(w) /\ UNCHANGED <<apiVars, deaths>>
Exit(w) == EngineExit(w) /\ UNCHANGED <<apiVars, deaths>>
Poll(w) == EnginePoll(w) /\ UNCHANGED <<apiVars, deaths>>
WorkerDeath(w) == Death("worker_crash") /\ WorkerCrash(w) /\ UNCHANGED apiVars
Restore == \E m \in unacked : RestoreUnacked(m) /\ UNCHANGED <<apiVars, deaths>>

Next ==
    \/ \E r \in Requests : Client(r) \/ Request(r) \/ ApiDeath(r)
    \/ \E w \in Workers : Task(w) \/ Exit(w) \/ Poll(w) \/ WorkerDeath(w)
    \/ Restore

Spec == Init /\ [][Next]_vars

(* An accepted request runs to its end, a worker goes on with its task,    *)
(* polls while its engine's output is open and takes the next message, and *)
(* an unacknowledged message is eventually put back.  Nothing obliges a    *)
(* client to call, a process to die or an engine to exit, and a worker     *)
(* that waits for the exit code polls no more.                             *)
FairSpec ==
    /\ Spec
    /\ \A r \in Requests : WF_vars(Request(r))
    /\ \A w \in Workers : WF_vars(Task(w)) /\ WF_vars(Poll(w))
    /\ WF_vars(Restore)

(* No engine runs for ever: assumed where it is needed, never by FairSpec. *)
EnginesExit == \A w \in Workers : []<>(wpc[w] \notin AtEngine)

------------------------------------------------------------------------------
(* Safety, whatever the clients, the workers and the faults do *)

(* A table row says DONE only if an engine run copied that very row's      *)
(* table to the end (tasks.py stores DONE after returncode 0 only), across *)
(* cancels, restarts, redeliveries, stale sessions and edits.              *)
DoneIsCopied ==
    \A t \in Tables : tables[t] = "done" => <<edition, t>> \in copied

(* A checkpoint exists only for a table that was copied to the end at some *)
(* time: _upsert_checkpoint never runs ahead of the engine.                *)
CheckpointIsCopied ==
    \A t \in checkpoints : \E e \in Editions : <<e, t>> \in copied

(* A migration says COMPLETED only if all tables of one generation of its  *)
(* table list were copied (with no edits: of its table list), although     *)
(* COMPLETED is written without reading anything again and the tables may  *)
(* have been copied by several workers over several attempts.              *)
CompletedIsCopied ==
    status = "completed" =>
        \E e \in Editions : \A t \in Tables : <<e, t>> \in copied

------------------------------------------------------------------------------
(* Why the three hold: the inductive invariant *)

InTable == {"mark", "preflight", "count", "engine", "wait", "store",
            "checkpoint", "insert"}
AfterCopy == {"store", "checkpoint", "insert"}

(* The broker holds only ids of accepted starts.                           *)
BrokerInv ==
    /\ BrokerTypeOK
    /\ queue \in Seq(TaskIdSpace)
    /\ unacked \in SUBSET (TaskIdSpace \X Workers)

(* So does a request that will publish or revoke one; and an edit under    *)
(* way is the only one and will not exceed the bound.                      *)
RequestInv ==
    /\ ApiTypeOK
    /\ \A r \in Requests :
        /\ rpc[r] \in {"start", "enqueue", "record", "revoke"} =>
              rtask[r] \in TaskIdSpace
        /\ rpc[r] = "update" =>
              /\ edition <= MaxEdits
              /\ \A q \in Requests : rpc[q] = "update" => q = r

(* A worker that is at a table loaded that table's row; one that found no  *)
(* rows found no migration either, and it will not come back.              *)
PositionInv ==
    \A w \in Workers :
        /\ wpc[w] \in InTable => cur[w] \in Tables /\ ed[w] \in Editions
        /\ wpc[w] = "loop" => (ed[w] = 0 => ~RowExists /\ cur[w] = NumTables + 1)

(* What a worker's session believes finished was copied: the tables its    *)
(* loop has passed, those it holds as DONE, and the one it is storing.     *)
SessionInv ==
    \A w \in Workers :
        /\ \A t \in Tables : local[w][t] = "done" => <<ed[w], t>> \in copied
        /\ \A t \in Tables : t < cur[w] /\ ed[w] # 0 => <<ed[w], t>> \in copied
        /\ wpc[w] \in AfterCopy => <<ed[w], cur[w]>> \in copied

WorkerInv == WorkerTypeOK /\ PositionInv /\ SessionInv

Promises == DoneIsCopied /\ CheckpointIsCopied /\ CompletedIsCopied

IInv ==
    /\ StoreTypeOK
    /\ BrokerInv
    /\ RequestInv
    /\ WorkerInv
    /\ Promises
    /\ deaths \in 0..MaxFaults

------------------------------------------------------------------------------
(* Properties of a deployment with one worker, as backend/README.md runs it *)

(* A delivery of some task that will still run it, or can be put back.     *)
LiveTask(id) ==
    \/ \E i \in 1..Len(queue) : queue[i] = id
    \/ \E m \in unacked : m[1] = id

(* A start request that has yet to publish its task or to compensate.      *)
Enqueuing == \E r \in Requests : rpc[r] \in {"enqueue", "compensate"}

(* A migration that says PENDING or RUNNING has somebody working on it: a  *)
(* task in the queue or in delivery, or a start about to publish one or to *)
(* take PENDING back.  migration_service.py states the PENDING half.       *)
NoStrandedJob ==
    status \in Active => Enqueuing \/ \E id \in TaskIdSpace : LiveTask(id)

(* A table that is DONE stays DONE: restarts and redeliveries skip it.     *)
DoneNeverUndone ==
    [][\A t \in Tables : tables[t] = "done" => tables'[t] = "done"]_vars

(* COMPLETED means every table row says DONE.                              *)
CompletedMeansDone ==
    status = "completed" => \A t \in Tables : tables[t] = "done"

(* The migration's processed_rows, kept by adding in a worker's session    *)
(* over several attempts, is the sum of what its DONE tables record.       *)
ProcessedAddsUp ==
    processed = SumOver(rowsDone, {t \in Tables : tables[t] = "done"})

(* The progress the UI shows never exceeds 100%, however often tables were *)
(* counted again and counts failed.                                        *)
ProcessedWithinTotal == processed <= total

(* Whatever the process deaths and failures, a migration that is queued or *)
(* running comes to rest, provided no engine hangs.                        *)
EverySubmissionSettles ==
    EnginesExit => ((status \in Active) ~> (status \notin Active))

(* While the engine's output is open, a cancelled migration's worker is at *)
(* work no longer than until its next poll, even if the engine hangs,      *)
(* unless the migration is started again first.  An engine whose output    *)
(* has ended is the exception: proc.wait() has no timeout and polls no     *)
(* more, so an engine that hangs then is not stopped by any cancel.        *)
CancelStopsEngine ==
    \A w \in Workers :
        (status = "cancelled" /\ wpc[w] = "engine") ~>
            (wpc[w] \notin AtEngine \/ wpc[w] = "wait" \/ status # "cancelled")

(* CANCELLED is a terminal state (enums.py), persisted before the worker   *)
(* hears of it (cancel_migration): only a restart or a delete replaces it. *)
(* The code does not keep this: the worker's claim, its failure handler    *)
(* and its last commit write the status without reading it again.          *)
CancelledStands ==
    [][status = "cancelled" => status' \in {"cancelled", "pending", Deleted}]_vars

(* What the states mean to a client (enums.py): the abstract job.          *)
Job == INSTANCE ResumableJob
         WITH status <- status, done <- {t \in Tables : tables[t] = "done"}
ImplementsJob == Job!Spec

==============================================================================

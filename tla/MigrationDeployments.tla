------------------------ MODULE MigrationDeployments ------------------------
(***************************************************************************)
(* Two deployments of MigrationSystem, stated as conditions on its         *)
(* constants, and why it keeps more promises in them than it keeps with    *)
(* any number of workers and requests: an inductive invariant for each.    *)
(***************************************************************************)
EXTENDS MigrationSystem

(* At most one of each kind works at a time.                               *)
OneWorker == \A v, w \in Workers : v = w
OneRequest == \A q, r \in Requests : q = r

DoneTables == {t \in Tables : tables[t] = "done"}

------------------------------------------------------------------------------
(* One worker and one request at a time that edits a draft, starts or      *)
(* retries; publishing a task does not raise.  Processes of either kind    *)
(* may die at any point and every step of the task may fail.               *)
SerialDeployment ==
    /\ OneWorker
    /\ OneRequest
    /\ Ops \subseteq {"start", "update"}
    /\ Faults \cap {"enqueue_fails", "enqueue_reply_lost"} = {}

(* The worker has loaded its tables; before that, it has claimed the job;  *)
(* before that, it has loaded the migration.                               *)
AtTables == InTable \cup {"loop", "failed"}
HasClaimed == AtTables \cup {"setup"}
HasLoaded == HasClaimed \cup {"claim"}

(* A draft has no history, and a completed migration is a whole one.       *)
SerialStore ==
    /\ status \notin {"cancelled", Deleted}
    /\ status = "draft" => DoneTables = {}
    /\ status = "completed" => DoneTables = Tables

(* What a request loaded is still so when it commits.                      *)
SerialRequests ==
    \A r \in Requests :
        /\ rpc[r] \in {"idle", "start", "enqueue", "record", "update"}
        /\ rpc[r] = "start" => /\ status \in STARTABLE_STATUSES
                               /\ rtables[r] = tables
                               /\ red[r] = edition
        /\ rpc[r] = "update" => status = "draft"

(* So is what a worker loaded: its session is the database.                *)
SessionIsFresh(w) ==
    /\ wpc[w] = "claim" => status \in Active /\ seen[w].status = status
    /\ wpc[w] \in HasClaimed => status = "running"
    /\ wpc[w] \in HasLoaded => mem[w] = [total |-> total, processed |-> processed]
    /\ wpc[w] \in AtTables => /\ ed[w] = edition
                              /\ local[w] = tables
                              /\ have[w] = rowsTotal

(* Where the loop is, in terms of the database.                            *)
LoopIsAt(w) ==
    /\ wpc[w] # "cancelled"
    /\ wpc[w] \in AtTables => \A t \in Tables : t < cur[w] => tables[t] = "done"
    /\ wpc[w] = "mark" => tables[cur[w]] # "done"
    /\ wpc[w] \in {"preflight", "count", "engine", "wait", "store"} =>
          tables[cur[w]] = "running"
    /\ wpc[w] \in {"checkpoint", "insert"} => tables[cur[w]] = "done"

SerialWorkers == \A w \in Workers : SessionIsFresh(w) /\ LoopIsAt(w)

(* The counters: a table that is DONE holds what was counted for it, and   *)
(* what was counted, several times for a table that was retried, is in     *)
(* the migration's total.                                                  *)
SerialCounts ==
    /\ \A t \in DoneTables : rowsDone[t] = rowsTotal[t]
    /\ processed = SumOver(rowsDone, DoneTables)
    /\ SumOver(rowsTotal, Tables) <= total

SerialInv == SerialStore /\ SerialRequests /\ SerialWorkers /\ SerialCounts

------------------------------------------------------------------------------
(* One worker and any number of requests that start, cancel and delete;    *)
(* neither process dies, and building a DSN does not raise.                *)
OneWorkerDeployment ==
    /\ OneWorker
    /\ Ops \subseteq {"start", "cancel", "delete"}
    /\ Faults \cap {"api_crash", "worker_crash", "dsn_raises"} = {}

(* The task ids the broker, the database or a process has ever been given, *)
(* as far as one of them still holds them.                                 *)
Queued == {queue[i] : i \in 1..Len(queue)}
HeldIds ==
    Queued \cup {taskId} \cup {job[w] : w \in Workers}
           \cup UNION {revoked[w] : w \in Workers}

(* The id of a start that has not published its task is its own.           *)
FreshIds ==
    \A r \in Requests : rpc[r] \in {"start", "enqueue"} =>
        /\ rtask[r] \notin HeldIds
        /\ \A q \in Requests \ {r} : rtask[q] # rtask[r]

(* Nor was it handed out before.                                           *)
IdsAreCounted ==
    /\ \A id \in HeldIds : id <= starts
    /\ \A r \in Requests : rtask[r] <= starts

(* A worker that has not ended its task holds its delivery and no other.   *)
Unfinished == WorkerPc \ {"idle", "ack", "cancelled"}
DeliveriesAreHeld ==
    /\ \A w \in Workers : wpc[w] # "idle" => <<job[w], w>> \in unacked
    /\ \A m \in unacked : wpc[m[2]] # "idle" /\ m[1] = job[m[2]]

(* Nobody edits the table list or inserts a checkpoint behind its back.    *)
RowsAreIts ==
    /\ edition = 1
    /\ \A r \in Requests : rpc[r] # "update"
    /\ \A w \in Workers :
        /\ ed[w] \in {0, 1}
        /\ wpc[w] = "insert" => cur[w] \notin checkpoints

(* A message that no worker will drop.                                     *)
NotRevoked(id) ==
    /\ \A w \in Workers : id \notin revoked[w]
    /\ \A r \in Requests : rpc[r] = "revoke" => rtask[r] # id

(* Who is working on a migration that is queued or running.                *)
SomebodyWorks ==
    \/ Enqueuing
    \/ \E w \in Workers : wpc[w] \in Unfinished
    \/ \E id \in Queued : NotRevoked(id)

OneWorkerInv ==
    /\ FreshIds
    /\ IdsAreCounted
    /\ DeliveriesAreHeld
    /\ RowsAreIts
    /\ status \in Active => SomebodyWorks

==============================================================================

---------------------------- MODULE MigrationApi ----------------------------
(***************************************************************************)
(* The migration lifecycle endpoints: start, cancel, delete and update of  *)
(* app/services/migration_service.py.  A request loads the migration and   *)
(* its tables, tests the loaded status, and commits later; between the two *)
(* every other request and every worker may commit.  get_db() rolls the    *)
(* request back when the commit fails.                                     *)
(***************************************************************************)
EXTENDS JobStore, Broker

CONSTANTS Requests,  \* API requests in flight at a time
          Ops        \* which endpoints the clients call

ASSUME OpsAssumption == Ops \subseteq {"start", "cancel", "delete", "update"}

VARIABLES
    rpc,     \* where request r is
    rtask,   \* start: the id its task gets; cancel: the loaded celery_task_id
    rtables, \* the table statuses request r loaded
    red,     \* the generation of the table rows request r loaded
    starts   \* start requests that passed the status check so far

apiVars == <<rpc, rtask, rtables, red, starts>>

RequestPc == {"idle", "start", "enqueue", "compensate", "record",
              "cancel", "revoke", "delete", "update"}

ApiTypeOK ==
    /\ rpc \in [Requests -> RequestPc]
    /\ rtask \in [Requests -> TaskIdSpace \cup {0}]
    /\ rtables \in [Requests -> [Tables -> TableStatus]]
    /\ red \in [Requests -> Editions]
    /\ starts \in 0..MaxStarts

ApiInit ==
    /\ rpc = [r \in Requests |-> "idle"]
    /\ rtask = [r \in Requests |-> 0]
    /\ rtables = [r \in Requests |-> [t \in Tables |-> "pending"]]
    /\ red = [r \in Requests |-> 1]
    /\ starts = 0

GoTo(r, step) == rpc' = [rpc EXCEPT ![r] = step]

(* The loaded tables are not read again.                                   *)
ForgetTables(r) ==
    /\ rtables' = [rtables EXCEPT ![r] = [t \in Tables |-> "pending"]]
    /\ red' = [red EXCEPT ![r] = 1]

(* The request has committed and goes on.                                  *)
Proceed(r, step) ==
    /\ GoTo(r, step)
    /\ ForgetTables(r)
    /\ UNCHANGED <<rtask, starts>>

EndRequest(r) ==
    /\ GoTo(r, "idle")
    /\ rtask' = [rtask EXCEPT ![r] = 0]
    /\ ForgetTables(r)
    /\ UNCHANGED starts

------------------------------------------------------------------------------
(* start_migration *)

StartLoad(r) ==
    /\ "start" \in Ops
    /\ rpc[r] = "idle"
    /\ starts < MaxStarts
    /\ status \in STARTABLE_STATUSES
    /\ starts' = starts + 1
    /\ GoTo(r, "start")
    /\ rtask' = [rtask EXCEPT ![r] = starts + 1]
    /\ rtables' = [rtables EXCEPT ![r] = tables]
    /\ red' = [red EXCEPT ![r] = edition]
    /\ UNCHANGED <<storeVars, brokerVars>>

(* The tables whose status the reset changes, judged on the loaded rows.   *)
ResetTables(r) == {t \in Tables : rtables[r][t] \notin {"done", "pending"}}

(* Mutant of StartCommit: the reset forgets to keep completed tables.      *)
StartCommitResetsAll(r) ==
    /\ rpc[r] = "start"
    /\ RowExists
    /\ status' = "pending"
    /\ tables' = [t \in Tables |-> "pending"]
    /\ UNCHANGED <<taskId, total, processed, rowsTotal, rowsDone, edition,
                   checkpoints, brokerVars>>
    /\ Proceed(r, "enqueue")

(* The status the load saw is not pending, so the UPDATE is always sent.   *)
StartCommit(r) ==
    /\ rpc[r] = "start"
    /\ RowExists
    /\ ResetTables(r) # {} => TableRowsExist(red[r])
    /\ status' = "pending"
    /\ tables' = [t \in Tables |->
                    IF t \in ResetTables(r) THEN "pending" ELSE tables[t]]
    /\ UNCHANGED <<taskId, total, processed, rowsTotal, rowsDone, edition,
                   checkpoints, brokerVars>>
    /\ Proceed(r, "enqueue")

(* A row to update is gone: the flush raises and the request rolls back.   *)
StartCommitStale(r) ==
    /\ rpc[r] = "start"
    /\ \/ ~RowExists
       \/ ResetTables(r) # {} /\ ~TableRowsExist(red[r])
    /\ EndRequest(r)
    /\ UNCHANGED <<storeVars, brokerVars>>

Enqueue(r) ==
    /\ rpc[r] = "enqueue"
    /\ Publish(rtask[r])
    /\ Proceed(r, "record")
    /\ UNCHANGED storeVars

(* .delay() raises without the broker having taken the message.            *)
EnqueueFails(r) ==
    /\ "enqueue_fails" \in Faults
    /\ rpc[r] = "enqueue"
    /\ Proceed(r, "compensate")
    /\ UNCHANGED <<storeVars, brokerVars>>

(* .delay() raises although the broker took the message.                   *)
EnqueueReplyLost(r) ==
    /\ "enqueue_reply_lost" \in Faults
    /\ rpc[r] = "enqueue"
    /\ Publish(rtask[r])
    /\ Proceed(r, "compensate")
    /\ UNCHANGED storeVars

(* Mutant of Compensate: the error is reported and the row left as it is.  *)
CompensateNothing(r) ==
    /\ rpc[r] = "compensate"
    /\ EndRequest(r)
    /\ UNCHANGED <<storeVars, brokerVars>>

Compensate(r) ==
    /\ rpc[r] = "compensate"
    /\ IF RowExists THEN SetStatus("failed") ELSE UNCHANGED storeVars
    /\ EndRequest(r)
    /\ UNCHANGED brokerVars

RecordTaskId(r) ==
    /\ rpc[r] = "record"
    /\ taskId' = IF RowExists THEN rtask[r] ELSE taskId
    /\ EndRequest(r)
    /\ UNCHANGED <<status, total, processed, tables, rowsTotal, rowsDone,
                   edition, checkpoints, brokerVars>>

------------------------------------------------------------------------------
(* cancel_migration *)

CancelLoad(r) ==
    /\ "cancel" \in Ops
    /\ rpc[r] = "idle"
    /\ status \in Active
    /\ GoTo(r, "cancel")
    /\ rtask' = [rtask EXCEPT ![r] = taskId]
    /\ UNCHANGED <<storeVars, brokerVars, rtables, red, starts>>

CancelCommit(r) ==
    /\ rpc[r] = "cancel"
    /\ RowExists
    /\ SetStatus("cancelled")
    /\ IF rtask[r] = 0 THEN EndRequest(r) ELSE Proceed(r, "revoke")
    /\ UNCHANGED brokerVars

CancelCommitStale(r) ==
    /\ rpc[r] = "cancel"
    /\ ~RowExists
    /\ EndRequest(r)
    /\ UNCHANGED <<storeVars, brokerVars>>

(* Best effort: any set of workers hears it; a failure is only logged.     *)
Revoke(r) ==
    /\ rpc[r] = "revoke"
    /\ \E heard \in SUBSET Workers : RevokeTask(rtask[r], heard)
    /\ EndRequest(r)
    /\ UNCHANGED storeVars

------------------------------------------------------------------------------
(* delete_migration and update_migration: committed by get_db() *)

DeleteLoad(r) ==
    /\ "delete" \in Ops
    /\ rpc[r] = "idle"
    /\ RowExists
    /\ status \notin Active
    /\ GoTo(r, "delete")
    /\ UNCHANGED <<storeVars, brokerVars, rtask, rtables, red, starts>>

(* A DELETE that matches no row is only a warning.                         *)
DeleteCommit(r) ==
    /\ rpc[r] = "delete"
    /\ IF RowExists THEN DropRow ELSE UNCHANGED storeVars
    /\ EndRequest(r)
    /\ UNCHANGED brokerVars

(* An edit of the table list; the other fields of an update touch nothing  *)
(* that is modelled here.  Bound: one edit under way at a time.            *)
UpdateLoad(r) ==
    /\ "update" \in Ops
    /\ rpc[r] = "idle"
    /\ status = "draft"
    /\ edition <= MaxEdits
    /\ \A q \in Requests : rpc[q] # "update"
    /\ GoTo(r, "update")
    /\ UNCHANGED <<storeVars, brokerVars, rtask, rtables, red, starts>>

(* The old table rows are deleted and new ones inserted; nothing looks at  *)
(* the status again.  The insert fails if the migration is gone.           *)
UpdateCommit(r) ==
    /\ rpc[r] = "update"
    /\ RowExists
    /\ edition' = edition + 1
    /\ tables' = [t \in Tables |-> "pending"]
    /\ rowsTotal' = [t \in Tables |-> 0]
    /\ rowsDone' = [t \in Tables |-> 0]
    /\ EndRequest(r)
    /\ UNCHANGED <<status, taskId, total, processed, checkpoints, brokerVars>>

UpdateCommitStale(r) ==
    /\ rpc[r] = "update"
    /\ ~RowExists
    /\ EndRequest(r)
    /\ UNCHANGED <<storeVars, brokerVars>>

------------------------------------------------------------------------------
(* The API process dies in the middle of a request: whatever it had not    *)
(* committed or published does not happen.                                 *)
ApiCrash(r) ==
    /\ rpc[r] # "idle"
    /\ EndRequest(r)
    /\ UNCHANGED <<storeVars, brokerVars>>

RequestStep(r) ==
    \/ StartCommit(r) \/ StartCommitStale(r)
    \/ Enqueue(r) \/ EnqueueFails(r) \/ EnqueueReplyLost(r)
    \/ Compensate(r) \/ RecordTaskId(r)
    \/ CancelCommit(r) \/ CancelCommitStale(r) \/ Revoke(r)
    \/ DeleteCommit(r) \/ UpdateCommit(r) \/ UpdateCommitStale(r)

NewRequest(r) ==
    \/ StartLoad(r) \/ CancelLoad(r) \/ DeleteLoad(r) \/ UpdateLoad(r)

==============================================================================

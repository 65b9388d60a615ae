------------------------ MODULE MigrationSystemProofs ------------------------
(***************************************************************************)
(* Proofs about MigrationSystem, for any number of tables, workers and     *)
(* requests and any bounds: IInv is inductive, hence the type invariant    *)
(* and the three promises DoneIsCopied, CheckpointIsCopied and             *)
(* CompletedIsCopied hold in every reachable state.                        *)
(*                                                                         *)
(* A step does one of a few things to each component's part of IInv, so    *)
(* the lemmas below say what those are (a worker that moves on, one that   *)
(* closes its session, a write that can only weaken what the database      *)
(* claims), and the proof of each action cites the ones it is made of.     *)
(***************************************************************************)
EXTENDS MigrationSystem, TLAPS

USE NumTablesAssumption, RowsAssumption, MaxStartsAssumption,
    MaxEditsAssumption, MaxFaultsAssumption

USE DEF Tables, TaskIdSpace, TaskIds, Editions, Deleted, RowExists

------------------------------------------------------------------------------
(* The initial state *)

(* A draft just created, with nothing queued and nobody at work.           *)
LEMMA InitInv == Init => IInv
<1> SUFFICES ASSUME Init PROVE IInv
  OBVIOUS
<1> USE DEF Init, StoreInit, BrokerInit, ApiInit, WorkerInit, AllPending, AllZero
<1>1. StoreTypeOK
  BY DEF StoreTypeOK, MigrationStatus, TableStatus
<1>2. BrokerInv
  BY DEF BrokerInv, BrokerTypeOK
<1>3. RequestInv
  BY DEF RequestInv, ApiTypeOK, RequestPc, TableStatus
<1>4. WorkerTypeOK
  BY DEF WorkerTypeOK, WorkerPc, NoRow, NoRows, MigrationStatus, TableStatus
<1>5. PositionInv /\ SessionInv
  BY DEF PositionInv, SessionInv, InTable, AfterCopy
<1>6. Promises
  BY DEF Promises, DoneIsCopied, CheckpointIsCopied, CompletedIsCopied
<1>7. deaths \in 0..MaxFaults
  BY SMT DEF Init
<1>8. QED
  BY <1>1, <1>2, <1>3, <1>4, <1>5, <1>6, <1>7 DEF IInv, WorkerInv

------------------------------------------------------------------------------
(* Writes that claim nothing new *)

(* The database after the step claims no table DONE, no checkpoint and no  *)
(* completion that it did not claim before, and no deleted row is back.    *)
ClaimsLess ==
    /\ RowExists' => RowExists
    /\ \A t \in Tables :
          tables'[t] = "done" => tables[t] = "done" /\ edition' = edition
    /\ checkpoints' \subseteq checkpoints
    /\ status' = "completed" => status = "completed"

(* Then the promises still hold, whatever the engines copied meanwhile.    *)
LEMMA ClaimsLessPromises ==
    ASSUME Promises, ClaimsLess, copied \subseteq copied'
    PROVE  Promises'
<1>1. DoneIsCopied'
  BY DEF Promises, DoneIsCopied, ClaimsLess
<1>2. CheckpointIsCopied'
  BY DEF Promises, CheckpointIsCopied, ClaimsLess
<1>3. CompletedIsCopied'
  BY DEF Promises, CompletedIsCopied, ClaimsLess
<1>4. QED
  BY <1>1, <1>2, <1>3 DEF Promises

(* Steps that write nothing, only the status, or delete the row.           *)
LEMMA UnchangedClaimsLess == UNCHANGED storeVars => ClaimsLess
  BY DEF storeVars, ClaimsLess

(* A status that is not COMPLETED claims nothing new.                      *)
LEMMA SetStatusClaimsLess ==
    ASSUME NEW s \in MigrationStatus \ {"completed"}, RowExists, StoreTypeOK,
           SetStatus(s)
    PROVE  ClaimsLess /\ StoreTypeOK'
  BY DEF SetStatus, ClaimsLess, StoreTypeOK, MigrationStatus

(* Nor does a row that is gone.                                            *)
LEMMA DropRowClaimsLess ==
    ASSUME StoreTypeOK, DropRow
    PROVE  ClaimsLess /\ StoreTypeOK'
  BY DEF DropRow, ClaimsLess, StoreTypeOK, TableStatus

(* What a step leaves alone keeps its part of the invariant.               *)
LEMMA UnchangedStore == StoreTypeOK /\ UNCHANGED storeVars => StoreTypeOK'
  BY DEF StoreTypeOK, storeVars

(* The invariant of the broker depends on its variables only.              *)
LEMMA UnchangedBroker == BrokerInv /\ UNCHANGED brokerVars => BrokerInv'
  BY DEF BrokerInv, BrokerTypeOK, brokerVars

(* The invariant of the requests: likewise.                                *)
LEMMA UnchangedRequests ==
    RequestInv /\ UNCHANGED apiVars /\ UNCHANGED edition => RequestInv'
  BY DEF RequestInv, ApiTypeOK, apiVars

(* The workers' part only depends on the database by "a deleted row does   *)
(* not come back".                                                         *)
LEMMA UnchangedWorkers ==
    ASSUME WorkerInv, UNCHANGED workerVars, RowExists' => RowExists
    PROVE  WorkerInv'
<1> USE DEF WorkerInv, workerVars
<1>1. WorkerTypeOK'
  BY DEF WorkerTypeOK
<1>2. PositionInv'
  BY DEF PositionInv
<1>3. SessionInv'
  BY DEF SessionInv
<1>4. QED
  BY <1>1, <1>2, <1>3

------------------------------------------------------------------------------
(* API requests *)

(* A request that ends, or goes on after its commit, keeps its part.       *)
LEMMA EndRequestInv ==
    ASSUME NEW r \in Requests, RequestInv, EndRequest(r),
           edition' = edition \/ rpc[r] = "update"
    PROVE  RequestInv'
<1> USE DEF RequestInv, EndRequest, GoTo, ForgetTables
<1>1. ApiTypeOK'
  BY DEF ApiTypeOK, RequestPc, TableStatus
<1>2. ASSUME NEW q \in Requests
      PROVE  /\ rpc'[q] # "idle" => q # r /\ rpc'[q] = rpc[q]
             /\ q # r => rtask'[q] = rtask[q]
  BY DEF ApiTypeOK
<1>3. QED
  BY <1>1, <1>2

(* A worker that goes to its next step with the session it has.            *)
LEMMA ProceedInv ==
    ASSUME NEW r \in Requests, NEW step \in RequestPc \ {"start", "update"},
           RequestInv, Proceed(r, step), edition' = edition,
           step \in {"enqueue", "record", "revoke"} => rtask[r] \in TaskIdSpace
    PROVE  RequestInv'
<1> USE DEF RequestInv, Proceed, GoTo, ForgetTables
<1>1. ApiTypeOK'
  BY DEF ApiTypeOK, RequestPc, TableStatus
<1>2. ASSUME NEW q \in Requests
      PROVE  IF q = r THEN rpc'[q] = step ELSE rpc'[q] = rpc[q]
  BY DEF ApiTypeOK
<1>3. QED
  BY <1>1, <1>2

(* Publishing an id of an accepted start.                                  *)
LEMMA PublishInv ==
    ASSUME NEW id \in TaskIdSpace, BrokerInv, Publish(id)
    PROVE  BrokerInv'
  BY DEF BrokerInv, BrokerTypeOK, Publish

(* What each step of a request keeps and at most does.                     *)
LEMMA RequestActions ==
    ASSUME IInv, NEW r \in Requests, RequestStep(r) \/ NewRequest(r)
    PROVE  StoreTypeOK' /\ BrokerInv' /\ RequestInv' /\ ClaimsLess
<1> USE UnchangedClaimsLess, UnchangedStore, UnchangedBroker DEF IInv
<1>0. UNCHANGED storeVars => edition' = edition
  BY DEF storeVars
<1>1. CASE StartLoad(r)
  <2>1. ApiTypeOK'
    <3>1. starts + 1 \in TaskIdSpace /\ starts + 1 \in 0..MaxStarts /\ "start" \in RequestPc
      BY <1>1 DEF StartLoad, RequestInv, ApiTypeOK, RequestPc
    <3>2. tables \in [Tables -> TableStatus] /\ edition \in Editions
      BY DEF StoreTypeOK
    <3>3. QED
      BY <1>1, <3>1, <3>2 DEF StartLoad, GoTo, RequestInv, ApiTypeOK
  <2>2. RequestInv'
    BY <1>1, <1>0, <2>1 DEF StartLoad, GoTo, RequestInv, ApiTypeOK
  <2>3. QED
    BY <1>1, <2>2 DEF StartLoad
<1>2. CASE StartCommit(r)
  <2>1. rtask[r] \in TaskIdSpace
    BY <1>2 DEF StartCommit, RequestInv
  <2>2. RequestInv'
    BY <1>2, <2>1, ProceedInv DEF StartCommit, RequestPc
  <2>3. ClaimsLess /\ StoreTypeOK'
    BY <1>2 DEF StartCommit, ResetTables, ClaimsLess, StoreTypeOK,
       MigrationStatus, TableStatus
  <2>4. QED
    BY <1>2, <2>2, <2>3 DEF StartCommit
<1>3. CASE StartCommitStale(r)
  BY <1>3, <1>0, EndRequestInv DEF StartCommitStale
<1>4. CASE Enqueue(r)
  <2>1. rtask[r] \in TaskIdSpace
    BY <1>4 DEF Enqueue, RequestInv
  <2>2. BrokerInv' /\ RequestInv'
    BY <1>4, <1>0, <2>1, PublishInv, ProceedInv DEF Enqueue, RequestPc
  <2>3. QED
    BY <1>4, <2>2 DEF Enqueue
<1>5. CASE EnqueueFails(r)
  <2>1. RequestInv'
    BY <1>5, <1>0, ProceedInv DEF EnqueueFails, RequestPc
  <2>2. QED
    BY <1>5, <2>1 DEF EnqueueFails
<1>6. CASE EnqueueReplyLost(r)
  <2>1. rtask[r] \in TaskIdSpace
    BY <1>6 DEF EnqueueReplyLost, RequestInv
  <2>2. BrokerInv' /\ RequestInv'
    BY <1>6, <1>0, <2>1, PublishInv, ProceedInv DEF EnqueueReplyLost, RequestPc
  <2>3. QED
    BY <1>6, <2>2 DEF EnqueueReplyLost
<1>7. CASE Compensate(r)
  <2>1. ClaimsLess /\ StoreTypeOK' /\ edition' = edition
    <3>1. CASE RowExists
      BY <1>7, <3>1, SetStatusClaimsLess DEF Compensate, SetStatus, MigrationStatus
    <3>2. CASE ~RowExists
      BY <1>7, <1>0, <3>2 DEF Compensate
    <3>3. QED
      BY <3>1, <3>2
  <2>2. QED
    BY <1>7, <2>1, EndRequestInv DEF Compensate
<1>8. CASE RecordTaskId(r)
  <2>1. ClaimsLess /\ StoreTypeOK' /\ edition' = edition
    BY <1>8 DEF RecordTaskId, ClaimsLess, StoreTypeOK, RequestInv, ApiTypeOK
  <2>2. QED
    BY <1>8, <2>1, EndRequestInv DEF RecordTaskId
<1>9. CASE CancelLoad(r)
  <2>0. taskId \in TaskIdSpace \cup {0}
    BY DEF StoreTypeOK
  <2>1. ApiTypeOK'
    BY <1>9, <2>0 DEF CancelLoad, GoTo, RequestInv, ApiTypeOK, RequestPc
  <2>2. RequestInv'
    BY <1>9, <1>0, <2>1 DEF CancelLoad, GoTo, RequestInv, ApiTypeOK
  <2>3. QED
    BY <1>9, <2>2 DEF CancelLoad
<1>10. CASE CancelCommit(r)
  <2>1. ClaimsLess /\ StoreTypeOK' /\ edition' = edition
    BY <1>10, SetStatusClaimsLess DEF CancelCommit, SetStatus, MigrationStatus
  <2>2. rtask[r] # 0 => rtask[r] \in TaskIdSpace
    BY DEF RequestInv, ApiTypeOK
  <2>3. RequestInv'
    BY <1>10, <2>1, <2>2, EndRequestInv, ProceedInv DEF CancelCommit, RequestPc
  <2>4. QED
    BY <1>10, <2>1, <2>3 DEF CancelCommit
<1>11. CASE CancelCommitStale(r)
  BY <1>11, <1>0, EndRequestInv DEF CancelCommitStale
<1>12. CASE Revoke(r)
  <2>1. BrokerInv'
    BY <1>12 DEF Revoke, RevokeTask, BrokerInv, BrokerTypeOK, RequestInv
  <2>2. QED
    BY <1>12, <1>0, <2>1, EndRequestInv DEF Revoke
<1>13. CASE DeleteLoad(r)
  <2>1. RequestInv'
    BY <1>13, <1>0 DEF DeleteLoad, GoTo, RequestInv, ApiTypeOK, RequestPc
  <2>2. QED
    BY <1>13, <2>1 DEF DeleteLoad
<1>14. CASE DeleteCommit(r)
  <2>1. ClaimsLess /\ StoreTypeOK' /\ edition' = edition
    BY <1>14, <1>0, DropRowClaimsLess DEF DeleteCommit, DropRow
  <2>2. QED
    BY <1>14, <2>1, EndRequestInv DEF DeleteCommit
<1>15. CASE UpdateLoad(r)
  <2>1. RequestInv'
    BY <1>15, <1>0, SMT DEF UpdateLoad, GoTo, RequestInv, ApiTypeOK, RequestPc
  <2>2. QED
    BY <1>15, <2>1 DEF UpdateLoad
<1>16. CASE UpdateCommit(r)
  <2>1. edition <= MaxEdits
    BY <1>16 DEF UpdateCommit, RequestInv
  <2>2. ClaimsLess /\ StoreTypeOK'
    BY <1>16, <2>1 DEF UpdateCommit, ClaimsLess, StoreTypeOK, TableStatus
  <2>3. QED
    BY <1>16, <2>2, EndRequestInv DEF UpdateCommit
<1>17. CASE UpdateCommitStale(r)
  BY <1>17, <1>0, EndRequestInv DEF UpdateCommitStale
<1>18. QED
  BY <1>1, <1>2, <1>3, <1>4, <1>5, <1>6, <1>7, <1>8, <1>9, <1>10, <1>11,
     <1>12, <1>13, <1>14, <1>15, <1>16, <1>17 DEF RequestStep, NewRequest

------------------------------------------------------------------------------
(* Workers *)

(* A worker that ends its task, waits or dies holds nothing any more.      *)
LEMMA CloseSessionInv ==
    ASSUME NEW w \in Workers, NEW step \in {"ack", "idle"}, WorkerInv,
           Go(w, step), CloseSession(w), RowExists' => RowExists,
           job' \in [Workers -> TaskIdSpace \cup {0}]
    PROVE  WorkerInv'
<1> USE DEF WorkerInv, CloseSession, Go
<1>1. WorkerTypeOK'
  <2>1. /\ NoRow \in [status : MigrationStatus, task : TaskIdSpace \cup {0}]
        /\ NoRows \in [total : Nat, processed : Nat]
        /\ AllPending \in [Tables -> TableStatus]
        /\ AllZero \in [Tables -> Nat]
        /\ step \in WorkerPc
    BY DEF NoRow, NoRows, AllPending, AllZero, MigrationStatus, TableStatus, WorkerPc
  <2>2. wpc' \in [Workers -> WorkerPc] /\ copied' \in SUBSET (Editions \X Tables)
    BY <2>1 DEF WorkerTypeOK
  <2>3. /\ seen' \in [Workers -> [status : MigrationStatus, task : TaskIdSpace \cup {0}]]
        /\ mem' \in [Workers -> [total : Nat, processed : Nat]]
    BY <2>1 DEF WorkerTypeOK
  <2>4. local' \in [Workers -> [Tables -> TableStatus]]
    BY <2>1 DEF WorkerTypeOK
  <2>5. have' \in [Workers -> [Tables -> Nat]]
    BY <2>1 DEF WorkerTypeOK
  <2>6. cur' \in [Workers -> 1..(NumTables + 1)] /\ ed' \in [Workers -> Editions \cup {0}]
    BY DEF WorkerTypeOK
  <2>7. QED
    BY <2>2, <2>3, <2>4, <2>5, <2>6 DEF WorkerTypeOK
<1>2. PositionInv'
  BY DEF PositionInv, WorkerTypeOK, InTable
<1>3. SessionInv'
  BY DEF SessionInv, WorkerTypeOK, AfterCopy, AllPending
<1>4. QED
  BY <1>1, <1>2, <1>3

(* A worker that moves on inside its task.                                 *)
LEMMA ContinueInv ==
    ASSUME NEW w \in Workers, NEW step \in WorkerPc \ {"loop"}, WorkerInv,
           Continue(w, step), RowExists' => RowExists,
           step \in InTable => cur[w] \in Tables /\ ed[w] \in Editions,
           step \in AfterCopy => <<ed[w], cur[w]>> \in copied
    PROVE  WorkerInv'
<1> USE DEF WorkerInv, Continue, Go
<1>1. WorkerTypeOK'
  BY DEF WorkerTypeOK
<1>2. PositionInv'
  BY DEF PositionInv, WorkerTypeOK
<1>3. SessionInv'
  BY DEF SessionInv, WorkerTypeOK
<1>4. QED
  BY <1>1, <1>2, <1>3

(* A worker whose loop passes a table that was copied.                     *)
LEMMA NextTableInv ==
    ASSUME NEW w \in Workers, WorkerInv, NextTable(w), RowExists' => RowExists,
           cur[w] \in Tables, ed[w] \in Editions, <<ed[w], cur[w]>> \in copied
    PROVE  WorkerInv'
<1> USE DEF WorkerInv, NextTable, Go
<1>1. WorkerTypeOK'
  <2>1. cur[w] + 1 \in 1..(NumTables + 1) /\ "loop" \in WorkerPc
    BY DEF WorkerPc
  <2>2. QED
    BY <2>1 DEF WorkerTypeOK
<1>2. PositionInv'
  <2> SUFFICES ASSUME NEW v \in Workers
               PROVE  /\ wpc'[v] \in InTable => cur'[v] \in Tables /\ ed'[v] \in Editions
                      /\ wpc'[v] = "loop" =>
                            (ed'[v] = 0 => ~RowExists' /\ cur'[v] = NumTables + 1)
    BY DEF PositionInv
  <2>1. CASE v = w
    <3>1. wpc'[v] = "loop" /\ ed'[v] = ed[w] /\ ed[w] # 0
      BY <2>1 DEF WorkerTypeOK
    <3>2. QED
      BY <3>1 DEF InTable
  <2>2. CASE v # w
    <3>1. wpc'[v] = wpc[v] /\ cur'[v] = cur[v] /\ ed'[v] = ed[v]
      BY <2>2 DEF WorkerTypeOK
    <3>2. QED
      BY <3>1 DEF PositionInv
  <2>3. QED
    BY <2>1, <2>2
<1>3. SessionInv'
  <2> SUFFICES ASSUME NEW v \in Workers
               PROVE  /\ \A t \in Tables : local'[v][t] = "done" => <<ed'[v], t>> \in copied'
                      /\ \A t \in Tables : t < cur'[v] /\ ed'[v] # 0 => <<ed'[v], t>> \in copied'
                      /\ wpc'[v] \in AfterCopy => <<ed'[v], cur'[v]>> \in copied'
    BY DEF SessionInv
  <2>1. CASE v = w
    <3>1. wpc'[v] = "loop" /\ cur'[v] = cur[v] + 1
      BY <2>1 DEF WorkerTypeOK
    <3>2. ASSUME NEW t \in Tables, t < cur'[v]
          PROVE  t < cur[v] \/ t = cur[v]
      BY <2>1, <3>1, <3>2
    <3>3. QED
      BY <2>1, <3>1, <3>2 DEF SessionInv, AfterCopy
  <2>2. CASE v # w
    BY <2>2 DEF SessionInv, WorkerTypeOK
  <2>3. QED
    BY <2>1, <2>2
<1>4. QED
  BY <1>1, <1>2, <1>3

(* Adding rows to the counts of a worker's session.                        *)
LEMMA CountsAdd ==
    ASSUME NEW c \in [total : Nat, processed : Nat], NEW k \in Nat
    PROVE  /\ [c EXCEPT !.total = c.total + k] \in [total : Nat, processed : Nat]
           /\ [c EXCEPT !.processed = c.processed + k] \in [total : Nat, processed : Nat]
<1>1. c.total + k \in Nat /\ c.processed + k \in Nat
  OBVIOUS
<1>2. QED
  BY <1>1

(* Replacing the counts of one worker's session.                           *)
LEMMA MemType ==
    ASSUME NEW w \in Workers, NEW m \in [total : Nat, processed : Nat],
           WorkerTypeOK, mem' = [mem EXCEPT ![w] = m]
    PROVE  mem' \in [Workers -> [total : Nat, processed : Nat]]
<1>1. mem \in [Workers -> [total : Nat, processed : Nat]]
  BY DEF WorkerTypeOK
<1>2. QED
  BY <1>1

(* A worker that writes the status of its current table; DONE only if the  *)
(* table was copied.                                                       *)
LEMMA SetTableInv ==
    ASSUME NEW w \in Workers, NEW s \in TableStatus,
           NEW step \in {"preflight", "failed", "checkpoint"},
           StoreTypeOK, WorkerInv, SetTable(w, s), Go(w, step),
           UNCHANGED <<job, seen, cur, have, ed, copied>>,
           mem' \in [Workers -> [total : Nat, processed : Nat]],
           RowExists' => RowExists,
           cur[w] \in Tables, ed[w] \in Editions,
           s = "done" \/ step = "checkpoint" => <<ed[w], cur[w]>> \in copied
    PROVE  WorkerInv' /\ tables' \in [Tables -> TableStatus]
<1> USE DEF WorkerInv, SetTable, Go
<1>1. WorkerTypeOK' /\ tables' \in [Tables -> TableStatus]
  BY DEF WorkerTypeOK, StoreTypeOK, WorkerPc
<1>2. PositionInv'
  BY DEF PositionInv, WorkerTypeOK
<1>3. ASSUME NEW v \in Workers, NEW t \in Tables
      PROVE  local'[v][t] = IF v = w /\ t = cur[w] THEN s ELSE local[v][t]
  BY DEF WorkerTypeOK
<1>4. SessionInv'
  <2>1. \A v \in Workers : wpc'[v] = IF v = w THEN step ELSE wpc[v]
    BY DEF WorkerTypeOK
  <2>2. ASSUME NEW v \in Workers, NEW t \in Tables, local'[v][t] = "done"
        PROVE  <<ed[v], t>> \in copied
    <3>1. CASE v = w /\ t = cur[w]
      BY <1>3, <2>2, <3>1
    <3>2. CASE ~(v = w /\ t = cur[w])
      <4>1. local[v][t] = "done"
        BY <1>3, <2>2, <3>2
      <4>2. QED
        BY <4>1 DEF SessionInv
    <3>3. QED
      BY <3>1, <3>2
  <2>3. ASSUME NEW v \in Workers, wpc'[v] \in AfterCopy
        PROVE  <<ed[v], cur[v]>> \in copied
    BY <2>1, <2>3 DEF SessionInv, AfterCopy
  <2>4. QED
    BY <2>2, <2>3 DEF SessionInv
<1>5. QED
  BY <1>1, <1>2, <1>4

(* A step that leaves the database, the broker and the requests alone.     *)
LEMMA OnlyWorkers ==
    ASSUME IInv, UNCHANGED <<storeVars, brokerVars, apiVars>>,
           copied \subseteq copied'
    PROVE  /\ StoreTypeOK' /\ BrokerInv' /\ RequestInv' /\ Promises'
           /\ RowExists' => RowExists
<1>1. UNCHANGED edition /\ UNCHANGED status
  BY DEF storeVars
<1>2. QED
  BY <1>1, UnchangedStore, UnchangedBroker, UnchangedRequests,
     UnchangedClaimsLess, ClaimsLessPromises DEF IInv

(* A write of the status and nothing else, by a worker that ends its task. *)
LEMMA EndWithStatus ==
    ASSUME IInv, NEW w \in Workers, EndTask(w), UNCHANGED <<brokerVars, apiVars>>,
           NEW s \in MigrationStatus,
           IF RowExists THEN SetStatus(s) ELSE UNCHANGED storeVars,
           RowExists /\ s = "completed" =>
               \E e \in Editions : \A t \in Tables : <<e, t>> \in copied
    PROVE  StoreTypeOK' /\ BrokerInv' /\ RequestInv' /\ WorkerInv' /\ Promises'
<1> USE DEF IInv
<1>1. StoreTypeOK' /\ (RowExists' => RowExists) /\ UNCHANGED edition
  BY DEF SetStatus, StoreTypeOK, storeVars
<1>2. BrokerInv' /\ RequestInv'
  BY <1>1, UnchangedBroker, UnchangedRequests
<1>3. WorkerInv'
  BY <1>1, CloseSessionInv DEF EndTask, WorkerInv, WorkerTypeOK
<1>4. Promises'
  <2>1. UNCHANGED <<tables, edition, checkpoints, copied>>
    BY DEF SetStatus, storeVars, EndTask, CloseSession
  <2>2. status' = status \/ (RowExists /\ status' = s)
    BY DEF SetStatus, storeVars
  <2>3. QED
    BY <2>1, <2>2 DEF Promises, DoneIsCopied, CheckpointIsCopied, CompletedIsCopied
<1>5. QED
  BY <1>1, <1>2, <1>3, <1>4

(* The same for a worker that gives up.                                    *)
LEMMA GiveUpInv ==
    ASSUME IInv, NEW w \in Workers, GiveUp(w), UNCHANGED apiVars
    PROVE  StoreTypeOK' /\ BrokerInv' /\ RequestInv' /\ WorkerInv' /\ Promises'
<1>1. copied \subseteq copied'
  BY DEF GiveUp, EndTask, CloseSession
<1>2. StoreTypeOK' /\ BrokerInv' /\ RequestInv' /\ Promises' /\ (RowExists' => RowExists)
  BY <1>1, OnlyWorkers DEF GiveUp
<1>3. WorkerInv'
  BY <1>2, CloseSessionInv DEF GiveUp, EndTask, IInv, WorkerInv, WorkerTypeOK
<1>4. QED
  BY <1>2, <1>3

(* Delivery, claim and setup.                                              *)
LEMMA ClaimActions ==
    ASSUME IInv, NEW w \in Workers, UNCHANGED apiVars,
           \/ Deliver(w) \/ DropRevoked(w) \/ Ack(w)
           \/ LoadSkips(w) \/ Load(w) \/ Claim(w) \/ ClaimStale(w)
           \/ Setup(w) \/ SetupFails(w) \/ DsnRaises(w)
    PROVE  StoreTypeOK' /\ BrokerInv' /\ RequestInv' /\ WorkerInv' /\ Promises'
<1> USE DEF IInv
<1>0. UNCHANGED storeVars => /\ UNCHANGED edition
                             /\ StoreTypeOK' /\ RequestInv'
                             /\ RowExists' => RowExists
  BY UnchangedStore, UnchangedRequests DEF storeVars
<1>1. CASE Deliver(w)
  <2>1. Head(queue) \in TaskIdSpace /\ BrokerInv'
    BY <1>1 DEF Deliver, Take, BrokerInv, BrokerTypeOK
  <2>2. WorkerTypeOK'
    BY <1>1, <2>1 DEF Deliver, Go, WorkerInv, WorkerTypeOK, WorkerPc
  <2>3. PositionInv' /\ SessionInv'
    BY <1>1, <1>0 DEF Deliver, Go, WorkerInv, WorkerTypeOK, PositionInv,
       SessionInv, InTable, AfterCopy
  <2>4. Promises'
    BY <1>1, UnchangedClaimsLess, ClaimsLessPromises DEF Deliver
  <2>5. QED
    BY <1>0, <1>1, <2>1, <2>2, <2>3, <2>4 DEF Deliver, WorkerInv
<1>2. CASE DropRevoked(w)
  <2>1. BrokerInv'
    BY <1>2 DEF DropRevoked, Discard, BrokerInv, BrokerTypeOK
  <2>2. WorkerInv' /\ Promises'
    BY <1>0, <1>2, UnchangedWorkers, UnchangedClaimsLess, ClaimsLessPromises
       DEF DropRevoked, workerVars
  <2>3. QED
    BY <1>0, <1>2, <2>1, <2>2 DEF DropRevoked
<1>3. CASE Ack(w)
  <2>1. BrokerInv'
    BY <1>3 DEF Ack, Acknowledge, BrokerInv, BrokerTypeOK
  <2>2. job' \in [Workers -> TaskIdSpace \cup {0}]
    BY <1>3 DEF Ack, ResetWorker, WorkerInv, WorkerTypeOK
  <2>3. WorkerInv'
    BY <1>0, <1>3, <2>2, CloseSessionInv DEF Ack, ResetWorker
  <2>4. Promises'
    BY <1>3, UnchangedClaimsLess, ClaimsLessPromises DEF Ack, ResetWorker, CloseSession
  <2>5. QED
    BY <1>0, <1>3, <2>1, <2>3, <2>4 DEF Ack
<1>4. CASE LoadSkips(w)
  BY <1>4, GiveUpInv DEF LoadSkips, GiveUp
<1>5. CASE Load(w)
  <2>1. /\ [status |-> status, task |-> taskId] \in
               [status : MigrationStatus, task : TaskIdSpace \cup {0}]
        /\ [total |-> total, processed |-> processed] \in [total : Nat, processed : Nat]
    BY <1>5 DEF Load, StoreTypeOK, Active, MigrationStatus
  <2>2. WorkerTypeOK'
    BY <1>5, <2>1 DEF Load, Go, WorkerInv, WorkerTypeOK, WorkerPc
  <2>3. PositionInv' /\ SessionInv'
    BY <1>5, <1>0 DEF Load, Go, WorkerInv, WorkerTypeOK, PositionInv,
       SessionInv, InTable, AfterCopy
  <2>4. QED
    BY <1>5, <2>2, <2>3, OnlyWorkers DEF Load, WorkerInv
<1>6. CASE Claim(w)
  <2>1. StoreTypeOK' /\ (RowExists' => RowExists) /\ UNCHANGED edition
    BY <1>6 DEF Claim, ClaimWrites, StoreTypeOK, MigrationStatus, WorkerInv, WorkerTypeOK
  <2>2. ClaimsLess
    BY <1>6, <2>1 DEF Claim, ClaimsLess
  <2>3. BrokerInv' /\ RequestInv'
    BY <1>6, <2>1, UnchangedBroker, UnchangedRequests DEF Claim
  <2>4. WorkerTypeOK'
    BY <1>6 DEF Claim, Go, WorkerInv, WorkerTypeOK, WorkerPc, NoRow, MigrationStatus
  <2>5. PositionInv' /\ SessionInv'
    BY <1>6, <2>1 DEF Claim, Go, WorkerInv, WorkerTypeOK, PositionInv,
       SessionInv, InTable, AfterCopy
  <2>6. Promises'
    BY <1>6, <2>2, ClaimsLessPromises DEF Claim
  <2>7. QED
    BY <2>1, <2>3, <2>4, <2>5, <2>6 DEF WorkerInv
<1>7. CASE ClaimStale(w)
  BY <1>7, GiveUpInv DEF ClaimStale
<1>8. CASE Setup(w)
  <2>1. WorkerTypeOK'
    <3>1. /\ (IF RowExists THEN tables ELSE AllPending) \in [Tables -> TableStatus]
          /\ (IF RowExists THEN rowsTotal ELSE AllZero) \in [Tables -> Nat]
          /\ (IF RowExists THEN edition ELSE 0) \in Editions \cup {0}
          /\ (IF RowExists THEN 1 ELSE NumTables + 1) \in 1..(NumTables + 1)
          /\ "loop" \in WorkerPc
      BY DEF StoreTypeOK, AllPending, AllZero, TableStatus, WorkerPc
    <3>2. QED
      BY <1>8, <3>1 DEF Setup, Go, WorkerInv, WorkerTypeOK
  <2>2. PositionInv'
    BY <1>8, <1>0 DEF Setup, Go, WorkerInv, WorkerTypeOK, PositionInv, InTable, storeVars, StoreTypeOK
  <2>3. SessionInv'
    <3>1. ASSUME NEW v \in Workers, v # w
          PROVE  UNCHANGED <<wpc[v], local[v], cur[v], ed[v]>>
      BY <1>8, <3>1 DEF Setup, Go, WorkerInv, WorkerTypeOK
    <3>2. CASE RowExists
      <4>1. wpc'[w] = "loop" /\ local'[w] = tables /\ cur'[w] = 1 /\ ed'[w] = edition
        BY <1>8, <3>2 DEF Setup, Go, WorkerInv, WorkerTypeOK
      <4>2. QED
        BY <1>8, <3>1, <4>1 DEF Setup, WorkerInv, SessionInv, AfterCopy, Promises, DoneIsCopied
    <3>3. CASE ~RowExists
      <4>1. wpc'[w] = "loop" /\ local'[w] = AllPending /\ ed'[w] = 0
        BY <1>8, <3>3 DEF Setup, Go, WorkerInv, WorkerTypeOK
      <4>2. \A t \in Tables : local'[w][t] # "done"
        BY <4>1 DEF AllPending
      <4>3. UNCHANGED copied
        BY <1>8 DEF Setup
      <4>4. QED
        BY <3>1, <4>1, <4>2, <4>3 DEF WorkerInv, SessionInv, AfterCopy
    <3>4. QED
      BY <3>2, <3>3
  <2>4. QED
    BY <1>8, <2>1, <2>2, <2>3, OnlyWorkers DEF Setup, WorkerInv
<1>9. CASE SetupFails(w)
  BY <1>9, EndWithStatus DEF SetupFails, MigrationStatus
<1>10. CASE DsnRaises(w)
  BY <1>10, GiveUpInv DEF DsnRaises
<1>11. QED
  BY <1>1, <1>2, <1>3, <1>4, <1>5, <1>6, <1>7, <1>8, <1>9, <1>10

(* A worker that only moves its control, from one step of its task to      *)
(* another.                                                                *)
LEMMA MoveInv ==
    ASSUME IInv, NEW w \in Workers, NEW step \in WorkerPc \ {"loop"},
           Continue(w, step), UNCHANGED <<storeVars, brokerVars, apiVars>>,
           step \in InTable => cur[w] \in Tables /\ ed[w] \in Editions,
           step \in AfterCopy => <<ed[w], cur[w]>> \in copied
    PROVE  StoreTypeOK' /\ BrokerInv' /\ RequestInv' /\ WorkerInv' /\ Promises'
<1>1. copied \subseteq copied'
  BY DEF Continue
<1>2. QED
  BY <1>1, OnlyWorkers, ContinueInv DEF IInv

(* So does a loop that passes a copied table.                              *)
LEMMA PassTableInv ==
    ASSUME IInv, NEW w \in Workers, NextTable(w),
           UNCHANGED <<storeVars, brokerVars, apiVars>>,
           cur[w] \in Tables, ed[w] \in Editions, <<ed[w], cur[w]>> \in copied
    PROVE  StoreTypeOK' /\ BrokerInv' /\ RequestInv' /\ WorkerInv' /\ Promises'
<1>1. copied \subseteq copied'
  BY DEF NextTable
<1>2. QED
  BY <1>1, OnlyWorkers, NextTableInv DEF IInv

(* A worker marks its current table RUNNING or FAILED.                     *)
LEMMA MarkTableInv ==
    ASSUME IInv, NEW w \in Workers, NEW s \in {"running", "failed"},
           NEW step \in {"preflight", "failed"},
           RowsValid(w), SetTable(w, s), Go(w, step), wpc[w] \in InTable,
           UNCHANGED <<status, taskId, total, processed, rowsTotal, rowsDone,
                       edition, checkpoints, brokerVars, apiVars, job, seen, mem,
                       cur, have, ed, copied>>
    PROVE  StoreTypeOK' /\ BrokerInv' /\ RequestInv' /\ WorkerInv' /\ Promises'
<1> USE DEF IInv
<1>1. cur[w] \in Tables /\ ed[w] \in Editions
  BY DEF WorkerInv, PositionInv
<1>2. s \in TableStatus
  BY DEF TableStatus
<1>3. WorkerInv' /\ tables' \in [Tables -> TableStatus]
  BY <1>1, <1>2, SetTableInv DEF WorkerInv, WorkerTypeOK
<1>4. StoreTypeOK'
  BY <1>3 DEF StoreTypeOK
<1>5. BrokerInv' /\ RequestInv'
  BY UnchangedBroker, UnchangedRequests
<1>6. ClaimsLess
  BY <1>1 DEF ClaimsLess, SetTable, StoreTypeOK
<1>7. Promises'
  BY <1>6, ClaimsLessPromises
<1>8. QED
  BY <1>3, <1>4, <1>5, <1>7

(* The loop, the preparation of a table and the engine.                    *)
LEMMA TableActions ==
    ASSUME IInv, NEW w \in Workers, UNCHANGED apiVars,
           \/ SeesCancelled(w) \/ SkipDone(w) \/ StartTable(w)
           \/ MarkRunning(w) \/ MarkRunningStale(w)
           \/ PreflightOk(w) \/ TargetMissing(w) \/ TableRaises(w) \/ PreflightStale(w)
           \/ CountRows(w) \/ CountFails(w) \/ CountStale(w)
           \/ OutputEnds(w) \/ EngineSucceeds(w) \/ EngineFails(w)
           \/ EngineRaises(w) \/ EngineCancelled(w) \/ EngineStale(w)
    PROVE  StoreTypeOK' /\ BrokerInv' /\ RequestInv' /\ WorkerInv' /\ Promises'
<1> USE DEF IInv
<1>0. wpc[w] \in InTable => cur[w] \in Tables /\ ed[w] \in Editions
  BY DEF WorkerInv, PositionInv
<1>00. wpc[w] = "loop" /\ cur[w] <= NumTables => cur[w] \in Tables /\ ed[w] \in Editions
  BY DEF WorkerInv, PositionInv, WorkerTypeOK
<1>1. CASE SeesCancelled(w)
  BY <1>1, MoveInv DEF SeesCancelled, WorkerPc, InTable, AfterCopy
<1>2. CASE SkipDone(w)
  <2>1. cur[w] \in Tables /\ ed[w] \in Editions
    BY <1>2, <1>00 DEF SkipDone
  <2>2. <<ed[w], cur[w]>> \in copied
    BY <1>2, <2>1 DEF SkipDone, WorkerInv, SessionInv
  <2>3. QED
    BY <1>2, <2>1, <2>2, PassTableInv DEF SkipDone
<1>3. CASE StartTable(w)
  BY <1>3, <1>00, MoveInv DEF StartTable, WorkerPc, InTable, AfterCopy
<1>4. CASE MarkRunning(w)
  <2>1. CASE local[w][cur[w]] = "running"
    <3>1. Continue(w, "preflight") /\ UNCHANGED storeVars
      BY <1>4, <2>1 DEF MarkRunning, Continue, storeVars
    <3>2. cur[w] \in Tables /\ ed[w] \in Editions
      BY <1>4, <1>0 DEF MarkRunning, InTable
    <3>3. QED
      BY <1>4, <3>1, <3>2, MoveInv DEF MarkRunning, WorkerPc, InTable, AfterCopy
  <2>2. CASE local[w][cur[w]] # "running"
    BY <1>4, <2>2, MarkTableInv DEF MarkRunning, InTable
  <2>3. QED
    BY <2>1, <2>2
<1>5. CASE MarkRunningStale(w)
  BY <1>5, GiveUpInv DEF MarkRunningStale
<1>6. CASE PreflightOk(w)
  BY <1>6, <1>0, MoveInv DEF PreflightOk, WorkerPc, InTable, AfterCopy
<1>7. CASE TargetMissing(w)
  BY <1>7, MarkTableInv DEF TargetMissing, InTable
<1>8. CASE TableRaises(w)
  BY <1>8, MoveInv DEF TableRaises, WorkerPc, InTable, AfterCopy
<1>9. CASE PreflightStale(w)
  BY <1>9, GiveUpInv DEF PreflightStale
<1>10. CASE CountRows(w)
  <2>1. cur[w] \in Tables /\ ed[w] \in Editions /\ Rows[cur[w]] \in Nat
    BY <1>10, <1>0 DEF CountRows, InTable
  <2>2. mem[w].total \in Nat /\ mem[w] \in [total : Nat, processed : Nat]
    BY DEF WorkerInv, WorkerTypeOK
  <2>3. StoreTypeOK'
    <3>1. total' \in Nat
      <4>1. total' = IF Rows[cur[w]] # 0 THEN mem[w].total + Rows[cur[w]] ELSE total
        BY <1>10 DEF CountRows
      <4>2. total \in Nat
        BY DEF StoreTypeOK
      <4>3. QED
        BY <2>1, <2>2, <4>1, <4>2
    <3>2. rowsTotal' \in [Tables -> Nat]
      BY <1>10, <2>1 DEF CountRows, StoreTypeOK
    <3>3. QED
      BY <1>10, <3>1, <3>2 DEF CountRows, StoreTypeOK
  <2>4. BrokerInv' /\ RequestInv'
    BY <1>10, UnchangedBroker, UnchangedRequests DEF CountRows
  <2>5. mem' \in [Workers -> [total : Nat, processed : Nat]]
    <3> DEFINE n == [mem[w] EXCEPT !.total = mem[w].total + Rows[cur[w]]]
    <3>1. mem' = [mem EXCEPT ![w] = n]
      BY <1>10 DEF CountRows
    <3>2. n \in [total : Nat, processed : Nat]
      BY <2>1, <2>2, CountsAdd
    <3>3. PICK m \in [total : Nat, processed : Nat] : mem' = [mem EXCEPT ![w] = m]
      BY <3>1, <3>2
    <3>4. WorkerTypeOK
      BY DEF WorkerInv
    <3>5. QED
      BY <3>3, <3>4, MemType
  <2>6. have' \in [Workers -> [Tables -> Nat]]
    BY <1>10, <2>1 DEF CountRows, WorkerInv, WorkerTypeOK
  <2>7. WorkerTypeOK'
    BY <1>10, <2>5, <2>6 DEF CountRows, Go, WorkerInv, WorkerTypeOK, WorkerPc
  <2>8. PositionInv' /\ SessionInv'
    BY <1>10, <2>1 DEF CountRows, Go, WorkerInv, WorkerTypeOK, PositionInv,
       SessionInv, InTable, AfterCopy
  <2>9. ClaimsLess
    BY <1>10 DEF CountRows, ClaimsLess
  <2>10. Promises'
    BY <1>10, <2>9, ClaimsLessPromises DEF CountRows
  <2>11. QED
    BY <2>3, <2>4, <2>7, <2>8, <2>10 DEF WorkerInv
<1>11. CASE CountFails(w)
  BY <1>11, <1>0, MoveInv DEF CountFails, WorkerPc, InTable, AfterCopy
<1>12. CASE CountStale(w)
  BY <1>12, GiveUpInv DEF CountStale
<1>13. CASE EngineSucceeds(w)
  <2>1. cur[w] \in Tables /\ ed[w] \in Editions
    BY <1>13, <1>0 DEF EngineSucceeds, AtEngine, InTable
  <2>2. copied \subseteq copied' /\ <<ed[w], cur[w]>> \in copied'
    BY <1>13 DEF EngineSucceeds
  <2>3. WorkerTypeOK'
    <3>1. copied' \in SUBSET (Editions \X Tables)
      BY <1>13, <2>1 DEF EngineSucceeds, WorkerInv, WorkerTypeOK
    <3>2. wpc' \in [Workers -> WorkerPc]
      BY <1>13 DEF EngineSucceeds, Go, WorkerInv, WorkerTypeOK, WorkerPc
    <3>3. QED
      BY <1>13, <3>1, <3>2 DEF EngineSucceeds, WorkerInv, WorkerTypeOK
  <2>4. PositionInv'
    BY <1>13, <2>1 DEF EngineSucceeds, Go, WorkerInv, WorkerTypeOK, PositionInv,
       InTable, storeVars
  <2>5. SessionInv'
    BY <1>13, <2>2 DEF EngineSucceeds, Go, WorkerInv, WorkerTypeOK, SessionInv, AfterCopy
  <2>6. QED
    BY <1>13, <2>2, <2>3, <2>4, <2>5, OnlyWorkers DEF EngineSucceeds, WorkerInv
<1>14. CASE EngineFails(w)
  BY <1>14, MarkTableInv DEF EngineFails, AtEngine, InTable
<1>15. CASE EngineCancelled(w)
  BY <1>15, MoveInv DEF EngineCancelled, WorkerPc, InTable, AfterCopy
<1>16. CASE EngineStale(w)
  BY <1>16, GiveUpInv DEF EngineStale
<1>17. CASE OutputEnds(w)
  BY <1>17, <1>0, MoveInv DEF OutputEnds, WorkerPc, InTable, AfterCopy
<1>18. CASE EngineRaises(w)
  BY <1>18, MoveInv DEF EngineRaises, WorkerPc, InTable, AfterCopy
<1>19. QED
  BY <1>1, <1>2, <1>3, <1>4, <1>5, <1>6, <1>7, <1>8, <1>9, <1>10, <1>11,
     <1>12, <1>13, <1>14, <1>15, <1>16, <1>17, <1>18

(* Storing DONE, the checkpoint, and the ways the task ends.               *)
LEMMA ResultActions ==
    ASSUME IInv, NEW w \in Workers, UNCHANGED apiVars,
           \/ StoreDone(w) \/ StoreDoneStale(w)
           \/ CheckpointFound(w) \/ CheckpointAbsent(w)
           \/ CheckpointInsert(w) \/ CheckpointRefused(w)
           \/ Complete(w) \/ HandleFailure(w) \/ HandleCancelled(w)
    PROVE  StoreTypeOK' /\ BrokerInv' /\ RequestInv' /\ WorkerInv' /\ Promises'
<1> USE DEF IInv
<1>0. wpc[w] \in AfterCopy => /\ cur[w] \in Tables /\ ed[w] \in Editions
                              /\ <<ed[w], cur[w]>> \in copied
  BY DEF WorkerInv, PositionInv, SessionInv, InTable, AfterCopy
<1>1. CASE StoreDone(w)
  <2>1. cur[w] \in Tables /\ ed[w] \in Editions /\ <<ed[w], cur[w]>> \in copied
    BY <1>1, <1>0 DEF StoreDone, AfterCopy
  <2>2. /\ have[w][cur[w]] \in Nat
        /\ mem[w] \in [total : Nat, processed : Nat] /\ mem[w].processed \in Nat
    BY <2>1 DEF WorkerInv, WorkerTypeOK
  <2>3. mem' \in [Workers -> [total : Nat, processed : Nat]]
    <3> DEFINE n == [mem[w] EXCEPT !.processed = mem[w].processed + have[w][cur[w]]]
    <3>1. mem' = [mem EXCEPT ![w] = n]
      BY <1>1 DEF StoreDone
    <3>2. n \in [total : Nat, processed : Nat]
      BY <2>2, CountsAdd
    <3>3. PICK m \in [total : Nat, processed : Nat] : mem' = [mem EXCEPT ![w] = m]
      BY <3>1, <3>2
    <3>4. WorkerTypeOK
      BY DEF WorkerInv
    <3>5. QED
      BY <3>3, <3>4, MemType
  <2>4. WorkerInv' /\ tables' \in [Tables -> TableStatus]
    BY <1>1, <2>1, <2>3, SetTableInv DEF StoreDone, TableStatus
  <2>5. processed' \in Nat
    <3>1. processed' = IF have[w][cur[w]] # 0
                         THEN mem[w].processed + have[w][cur[w]] ELSE processed
      BY <1>1 DEF StoreDone
    <3>2. processed \in Nat
      BY DEF StoreTypeOK
    <3>3. QED
      BY <2>2, <3>1, <3>2
  <2>6. rowsDone' \in [Tables -> Nat]
    BY <1>1, <2>1, <2>2 DEF StoreDone, StoreTypeOK
  <2>7. StoreTypeOK'
    BY <1>1, <2>4, <2>5, <2>6 DEF StoreDone, StoreTypeOK
  <2>8. BrokerInv' /\ RequestInv'
    BY <1>1, UnchangedBroker, UnchangedRequests DEF StoreDone
  <2>9. DoneIsCopied'
    BY <1>1, <2>1 DEF StoreDone, SetTable, RowsValid, TableRowsExist, Promises,
       DoneIsCopied, StoreTypeOK
  <2>10. CheckpointIsCopied' /\ CompletedIsCopied'
    BY <1>1 DEF StoreDone, Promises, CheckpointIsCopied, CompletedIsCopied
  <2>11. QED
    BY <2>4, <2>7, <2>8, <2>9, <2>10 DEF Promises
<1>2. CASE StoreDoneStale(w)
  BY <1>2, GiveUpInv DEF StoreDoneStale
<1>3. CASE CheckpointFound(w)
  BY <1>3, <1>0, PassTableInv DEF CheckpointFound, AfterCopy
<1>4. CASE CheckpointAbsent(w)
  BY <1>4, <1>0, MoveInv DEF CheckpointAbsent, WorkerPc, InTable, AfterCopy
<1>5. CASE CheckpointInsert(w)
  <2>1. cur[w] \in Tables /\ ed[w] \in Editions /\ <<ed[w], cur[w]>> \in copied
    BY <1>5, <1>0 DEF CheckpointInsert, AfterCopy
  <2>2. WorkerInv'
    BY <1>5, <2>1, NextTableInv DEF CheckpointInsert
  <2>3. StoreTypeOK'
    BY <1>5, <2>1 DEF CheckpointInsert, StoreTypeOK
  <2>4. BrokerInv' /\ RequestInv'
    BY <1>5, UnchangedBroker, UnchangedRequests DEF CheckpointInsert
  <2>5. Promises'
    BY <1>5, <2>1 DEF CheckpointInsert, NextTable, Promises, DoneIsCopied,
       CheckpointIsCopied, CompletedIsCopied
  <2>6. QED
    BY <2>2, <2>3, <2>4, <2>5
<1>6. CASE CheckpointRefused(w)
  BY <1>6, GiveUpInv DEF CheckpointRefused
<1>7. CASE Complete(w)
  <2>1. RowExists => \E e \in Editions : \A t \in Tables : <<e, t>> \in copied
    <3>1. SUFFICES ASSUME RowExists
                   PROVE  ed[w] \in Editions /\ \A t \in Tables : <<ed[w], t>> \in copied
      OBVIOUS
    <3>2. ed[w] # 0 /\ ed[w] \in Editions
      BY <1>7, <3>1 DEF Complete, WorkerInv, PositionInv, WorkerTypeOK
    <3>3. \A t \in Tables : t < cur[w]
      BY <1>7 DEF Complete, WorkerInv, WorkerTypeOK
    <3>4. QED
      BY <3>2, <3>3 DEF WorkerInv, SessionInv
  <2>2. QED
    BY <1>7, <2>1, EndWithStatus DEF Complete, MigrationStatus
<1>8. CASE HandleFailure(w)
  BY <1>8, EndWithStatus DEF HandleFailure, MigrationStatus
<1>9. CASE HandleCancelled(w)
  <2>1. StoreTypeOK' /\ ClaimsLess
    BY <1>9 DEF HandleCancelled, StoreTypeOK, TableStatus, ClaimsLess
  <2>2. BrokerInv' /\ RequestInv'
    BY <1>9, UnchangedBroker, UnchangedRequests DEF HandleCancelled
  <2>3. WorkerInv'
    BY <1>9, CloseSessionInv DEF HandleCancelled, EndTask, WorkerInv, WorkerTypeOK
  <2>4. Promises'
    BY <1>9, <2>1, ClaimsLessPromises DEF HandleCancelled, EndTask, CloseSession
  <2>5. QED
    BY <2>1, <2>2, <2>3, <2>4
<1>10. QED
  BY <1>1, <1>2, <1>3, <1>4, <1>5, <1>6, <1>7, <1>8, <1>9

------------------------------------------------------------------------------
(* The system *)

(* Every step of the system keeps the invariant.                           *)
LEMMA StepInv == IInv /\ [Next]_vars => IInv'
<1> SUFFICES ASSUME IInv, [Next]_vars PROVE IInv'
  OBVIOUS
<1> USE DEF IInv
<1>1. ASSUME NEW r \in Requests, Client(r) \/ Request(r) PROVE IInv'
  <2>1. StoreTypeOK' /\ BrokerInv' /\ RequestInv' /\ ClaimsLess
    BY <1>1, RequestActions DEF Client, Request
  <2>2. UNCHANGED <<workerVars, deaths>>
    BY <1>1 DEF Client, Request
  <2>3. WorkerInv' /\ Promises'
    BY <2>1, <2>2, UnchangedWorkers, ClaimsLessPromises DEF ClaimsLess, workerVars
  <2>4. QED
    BY <2>1, <2>2, <2>3
<1>2. ASSUME NEW r \in Requests, ApiDeath(r) PROVE IInv'
  <2>1. UNCHANGED <<storeVars, brokerVars, workerVars>> /\ EndRequest(r)
    BY <1>2 DEF ApiDeath, ApiCrash
  <2>2. RequestInv'
    BY <2>1, EndRequestInv DEF storeVars
  <2>3. RowExists' => RowExists
    BY <2>1 DEF storeVars
  <2>4. StoreTypeOK' /\ BrokerInv' /\ WorkerInv' /\ Promises'
    BY <2>1, <2>3, UnchangedStore, UnchangedBroker, UnchangedWorkers,
       UnchangedClaimsLess, ClaimsLessPromises DEF workerVars
  <2>5. deaths' \in 0..MaxFaults
    BY <1>2 DEF ApiDeath, Death
  <2>6. QED
    BY <2>2, <2>4, <2>5
<1>3. ASSUME NEW w \in Workers, Task(w) \/ Exit(w) \/ Poll(w) PROVE IInv'
  <2>1. UNCHANGED <<apiVars, deaths>>
    BY <1>3 DEF Task, Exit, Poll
  <2>2. StoreTypeOK' /\ BrokerInv' /\ RequestInv' /\ WorkerInv' /\ Promises'
    BY <1>3, <2>1, ClaimActions, TableActions, ResultActions
       DEF Task, Exit, Poll, TaskStep, EngineExit, EnginePoll
  <2>3. QED
    BY <2>1, <2>2
<1>4. ASSUME NEW w \in Workers, WorkerDeath(w) PROVE IInv'
  <2>1. UNCHANGED <<storeVars, apiVars>> /\ ResetWorker(w) /\ ForgetRevocations(w)
    BY <1>4 DEF WorkerDeath, WorkerCrash
  <2>2. BrokerInv'
    BY <2>1 DEF ForgetRevocations, BrokerInv, BrokerTypeOK
  <2>3. job' \in [Workers -> TaskIdSpace \cup {0}]
    BY <2>1 DEF ResetWorker, WorkerInv, WorkerTypeOK
  <2>4. /\ StoreTypeOK' /\ RequestInv' /\ (RowExists' => RowExists)
    BY <2>1, UnchangedStore, UnchangedRequests DEF storeVars
  <2>5. WorkerInv'
    BY <2>1, <2>3, <2>4, CloseSessionInv DEF ResetWorker
  <2>6. Promises'
    BY <2>1, UnchangedClaimsLess, ClaimsLessPromises DEF ResetWorker, CloseSession
  <2>7. deaths' \in 0..MaxFaults
    BY <1>4 DEF WorkerDeath, Death
  <2>8. QED
    BY <2>2, <2>4, <2>5, <2>6, <2>7
<1>5. CASE Restore
  <2>1. PICK m \in unacked : RestoreUnacked(m) /\ UNCHANGED <<apiVars, deaths>>
    BY <1>5 DEF Restore
  <2>2. m[1] \in TaskIdSpace
    BY DEF BrokerInv
  <2>3. BrokerInv'
    BY <2>1, <2>2 DEF RestoreUnacked, Redeliver, BrokerInv, BrokerTypeOK
  <2>4. StoreTypeOK' /\ RequestInv' /\ (RowExists' => RowExists)
    BY <2>1, UnchangedStore, UnchangedRequests DEF RestoreUnacked, storeVars
  <2>5. WorkerInv' /\ Promises'
    BY <2>1, <2>4, UnchangedWorkers, UnchangedClaimsLess, ClaimsLessPromises
       DEF RestoreUnacked, workerVars
  <2>6. QED
    BY <2>1, <2>3, <2>4, <2>5
<1>6. CASE UNCHANGED vars
  <2>1. UNCHANGED <<storeVars, brokerVars, apiVars, workerVars, deaths>>
    BY <1>6 DEF vars
  <2>2. UNCHANGED edition /\ UNCHANGED copied /\ (RowExists' => RowExists)
    BY <2>1 DEF storeVars, workerVars
  <2>3. QED
    BY <2>1, <2>2, UnchangedStore, UnchangedBroker, UnchangedRequests,
       UnchangedWorkers, UnchangedClaimsLess, ClaimsLessPromises
<1>7. QED
  BY <1>1, <1>2, <1>3, <1>4, <1>5, <1>6 DEF Next

(* The invariant holds in every state of every behaviour: sessions never   *)
(* believe, and rows never say, that a table is finished before it is.     *)
THEOREM Invariance == Spec => []IInv
<1>1. QED
  BY InitInv, StepInv, PTL DEF Spec

(* Every variable of the system keeps its type, for any number of tables,  *)
(* workers and requests.                                                   *)
THEOREM TypeCorrect == Spec => []TypeOK
<1>1. IInv => TypeOK
  BY DEF IInv, TypeOK, BrokerInv, RequestInv, WorkerInv
<1>2. QED
  BY <1>1, Invariance, PTL

(* A table row that says DONE was copied to the end by an engine run.      *)
THEOREM DoneTablesAreCopied == Spec => []DoneIsCopied
<1>1. IInv => DoneIsCopied
  BY DEF IInv, Promises
<1>2. QED
  BY <1>1, Invariance, PTL

(* A checkpoint never runs ahead of the copy.                              *)
THEOREM CheckpointsAreCopied == Spec => []CheckpointIsCopied
<1>1. IInv => CheckpointIsCopied
  BY DEF IInv, Promises
<1>2. QED
  BY <1>1, Invariance, PTL

(* A COMPLETED migration was copied in full.                               *)
THEOREM CompletedJobsAreCopied == Spec => []CompletedIsCopied
<1>1. IInv => CompletedIsCopied
  BY DEF IInv, Promises
<1>2. QED
  BY <1>1, Invariance, PTL

==============================================================================

------------------------------- MODULE Broker -------------------------------
(***************************************************************************)
(* The Celery task queue over Redis, as app/worker/celery_app.py           *)
(* configures it: acks_late (a message is acknowledged when the task ends, *)
(* however it ends), prefetch 1, reject_on_worker_lost, and a visibility   *)
(* timeout after which an unacknowledged message is put back in the queue. *)
(* The broker itself is a library: it is modelled from that configuration  *)
(* and from the calls tasks.py and migration_service.py make.              *)
(***************************************************************************)
EXTENDS Naturals, Sequences, FiniteSets

CONSTANTS Workers    \* Celery worker slots

TaskIds == Nat \ {0}  \* the ids .delay() may return

VARIABLES queue,     \* messages waiting, a sequence of task ids
          unacked,   \* deliveries not yet acknowledged: <<task id, worker>>
          revoked    \* revoked[w]: ids worker w was told to drop (in memory)

brokerVars == <<queue, unacked, revoked>>

BrokerTypeOK ==
    /\ queue \in Seq(TaskIds)
    /\ unacked \in SUBSET (TaskIds \X Workers)
    /\ revoked \in [Workers -> SUBSET TaskIds]

BrokerInit ==
    /\ queue = <<>>
    /\ unacked = {}
    /\ revoked = [w \in Workers |-> {}]

Publish(id) ==
    /\ queue' = Append(queue, id)
    /\ UNCHANGED <<unacked, revoked>>

(* Worker w receives the oldest message and holds its delivery.            *)
Take(w) ==
    /\ queue # <<>>
    /\ Head(queue) \notin revoked[w]
    /\ queue' = Tail(queue)
    /\ unacked' = unacked \cup {<<Head(queue), w>>}
    /\ UNCHANGED revoked

(* A revoked message is acknowledged without running the task.             *)
Discard(w) ==
    /\ queue # <<>>
    /\ Head(queue) \in revoked[w]
    /\ queue' = Tail(queue)
    /\ UNCHANGED <<unacked, revoked>>

(* The acknowledgement removes w's own delivery only: if the message was   *)
(* put back meanwhile and taken by another worker, that delivery stays.    *)
Acknowledge(id, w) ==
    /\ unacked' = unacked \ {<<id, w>>}
    /\ UNCHANGED <<queue, revoked>>

(* Visibility timeout, or requeue after a lost worker: the delivery is     *)
(* withdrawn and the message queued again, behind the others.              *)
Redeliver(delivery) ==
    /\ delivery \in unacked
    /\ unacked' = unacked \ {delivery}
    /\ queue' = Append(queue, delivery[1])
    /\ UNCHANGED revoked

(* control.revoke(id, terminate=False) is a broadcast that only the        *)
(* workers in heard receive, and none of them if the call fails.           *)
RevokeTask(id, heard) ==
    /\ revoked' = [w \in Workers |->
                     IF w \in heard THEN revoked[w] \cup {id} ELSE revoked[w]]
    /\ UNCHANGED <<queue, unacked>>

(* A worker process that dies loses its memory of revocations.             *)
ForgetRevocations(w) ==
    /\ revoked' = [revoked EXCEPT ![w] = {}]
    /\ UNCHANGED <<queue, unacked>>

==============================================================================

------------------------------ MODULE LogStream ------------------------------
(***************************************************************************)
(* The live log of a migration: tasks append rows to migration_logs        *)
(* (app/worker/tasks.py, _log), and each open stream of                    *)
(* app/routers/stream.py tails them by id, reads the status, and ends once *)
(* the status is terminal and no row was new.                              *)
(*                                                                         *)
(* An id is drawn from the sequence when the row is inserted, and the row  *)
(* is visible to others from its commit on.                                *)
(***************************************************************************)
EXTENDS Enums, Naturals, FiniteSets

CONSTANTS Writers,    \* tasks of the migration, one after the other
          Viewers,    \* clients with a page that shows the log
          MaxLogs,    \* bound: log rows inserted
          LogBatch,   \* LOG_BATCH: rows one query returns at most
          MaxStreams, \* settings.max_sse_connections
          Overlap     \* may two tasks of the migration run at once?

ASSUME MaxLogsAssumption == MaxLogs \in Nat
ASSUME LogBatchAssumption == LogBatch \in Nat \ {0}
ASSUME MaxStreamsAssumption == MaxStreams \in Nat
ASSUME OverlapAssumption == Overlap \in BOOLEAN
ASSUME ViewersAssumption == IsFiniteSet(Viewers)

VARIABLES
    status,    \* the committed status, or "deleted"
    lastDrawn, \* the sequence of migration_logs.id
    visible,   \* committed ids
    writerPc,  \* "idle", "working" or "last": a last line after the status
    drawn,     \* the id of the row a task has not committed yet, or 0
    active,    \* _active_streams
    viewerPc,  \* "closed", "admitted", "fetch", "progress", or "ended" by
               \* the server
    unstarted, \* history: admitted streams whose generator never started
    lastId,    \* last_id
    sent,      \* ids sent in this stream
    drained,   \* not logs
    looked     \* history: the ids visible at the last query

dbVars == <<status, lastDrawn, visible>>
writerVars == <<writerPc, drawn>>
streamVars == <<active, viewerPc, unstarted, lastId, sent, drained, looked>>
vars == <<dbVars, writerVars, streamVars>>

Ids == 1..MaxLogs

(* The generator runs; and: a request holds a slot it can give back.       *)
Open(v) == viewerPc[v] \in {"fetch", "progress"}
Holds(v) == viewerPc[v] \in {"admitted", "fetch", "progress"}

TypeOK ==
    /\ status \in MigrationStatus \cup {"deleted"}
    /\ lastDrawn \in 0..MaxLogs
    /\ visible \subseteq Ids
    /\ writerPc \in [Writers -> {"idle", "working", "last"}]
    /\ drawn \in [Writers -> 0..MaxLogs]
    /\ active \in 0..MaxStreams
    /\ viewerPc \in [Viewers -> {"closed", "admitted", "fetch", "progress", "ended"}]
    /\ unstarted \in 0..MaxStreams
    /\ lastId \in [Viewers -> 0..MaxLogs]
    /\ sent \in [Viewers -> SUBSET Ids]
    /\ drained \in [Viewers -> BOOLEAN]
    /\ looked \in [Viewers -> SUBSET Ids]

Init ==
    /\ status = "draft" /\ lastDrawn = 0 /\ visible = {}
    /\ writerPc = [w \in Writers |-> "idle"]
    /\ drawn = [w \in Writers |-> 0]
    /\ active = 0
    /\ viewerPc = [v \in Viewers |-> "closed"]
    /\ unstarted = 0
    /\ lastId = [v \in Viewers |-> 0]
    /\ sent = [v \in Viewers |-> {}]
    /\ drained = [v \in Viewers |-> FALSE]
    /\ looked = [v \in Viewers |-> {}]

------------------------------------------------------------------------------
(* The status, as the API commits it *)

(* A job is queued; it may be started again later.                         *)
Start ==
    /\ status \in STARTABLE_STATUSES
    /\ status' = "pending"
    /\ UNCHANGED <<lastDrawn, visible, writerVars, streamVars>>

(* The status is CANCELLED before the task knows of it.                    *)
Cancel ==
    /\ status \in Active
    /\ status' = "cancelled"
    /\ UNCHANGED <<lastDrawn, visible, writerVars, streamVars>>

(* The log rows go with the migration.                                     *)
Delete ==
    /\ status \in MigrationStatus \ Active
    /\ status' = "deleted"
    /\ visible' = {}
    /\ UNCHANGED <<lastDrawn, writerVars, streamVars>>

------------------------------------------------------------------------------
(* A task *)

(* A task is delivered and finds the job queued, or left behind.  Nothing  *)
(* in the code keeps a second one out: Overlap says whether the broker and *)
(* the clients do.                                                         *)
Claim(w) ==
    /\ writerPc[w] = "idle"
    /\ status \in Active
    /\ Overlap \/ \A x \in Writers : writerPc[x] = "idle"
    /\ status' = "running"
    /\ writerPc' = [writerPc EXCEPT ![w] = "working"]
    /\ UNCHANGED <<lastDrawn, visible, drawn, streamVars>>

(* db.add and the flush of its commit: the row has an id.                  *)
Insert(w) ==
    /\ writerPc[w] # "idle" /\ drawn[w] = 0
    /\ status # "deleted"
    /\ lastDrawn < MaxLogs
    /\ lastDrawn' = lastDrawn + 1
    /\ drawn' = [drawn EXCEPT ![w] = lastDrawn + 1]
    /\ UNCHANGED <<status, visible, writerPc, streamVars>>

(* Others see the row; after its last line a task returns.                 *)
Commit(w) ==
    /\ drawn[w] # 0 /\ status # "deleted"
    /\ visible' = visible \cup {drawn[w]}
    /\ drawn' = [drawn EXCEPT ![w] = 0]
    /\ writerPc' = [writerPc EXCEPT ![w] = IF @ = "last" THEN "idle" ELSE @]
    /\ UNCHANGED <<status, lastDrawn, streamVars>>

(* The terminal status is committed before the line that tells of it.      *)
Finish(w, s) ==
    /\ writerPc[w] = "working" /\ drawn[w] = 0
    /\ status # "deleted"
    /\ status' = s
    /\ writerPc' = [writerPc EXCEPT ![w] = "last"]
    /\ UNCHANGED <<lastDrawn, visible, drawn, streamVars>>

(* It sees the cancellation, and says so in a last line.                   *)
Stop(w) ==
    /\ writerPc[w] = "working" /\ drawn[w] = 0
    /\ status = "cancelled"
    /\ writerPc' = [writerPc EXCEPT ![w] = "last"]
    /\ UNCHANGED <<dbVars, drawn, streamVars>>

(* It dies, or it cannot write any more: what it inserted is rolled back.  *)
Abort(w) ==
    /\ writerPc[w] # "idle"
    /\ writerPc' = [writerPc EXCEPT ![w] = "idle"]
    /\ drawn' = [drawn EXCEPT ![w] = 0]
    /\ UNCHANGED <<dbVars, streamVars>>

------------------------------------------------------------------------------
(* A stream *)

(* Mutant of Subscribe: the slots are counted and not limited.             *)
SubscribeAnyway(v) ==
    /\ ~Holds(v)
    /\ status # "deleted"
    /\ active' = active + 1
    /\ viewerPc' = [viewerPc EXCEPT ![v] = "admitted"]
    /\ UNCHANGED <<dbVars, writerVars, unstarted, lastId, sent, drained, looked>>

(* A client asks for the stream; 503 without a slot.  The slot is taken    *)
(* here, and given back in the finally block of a generator that the       *)
(* response has yet to start.                                              *)
Subscribe(v) ==
    /\ ~Holds(v)
    /\ status # "deleted"
    /\ active < MaxStreams
    /\ active' = active + 1
    /\ viewerPc' = [viewerPc EXCEPT ![v] = "admitted"]
    /\ UNCHANGED <<dbVars, writerVars, unstarted, lastId, sent, drained, looked>>

(* The generator enters its try block: the log is sent from its first line *)
(* on.                                                                     *)
Begin(v) ==
    /\ viewerPc[v] = "admitted"
    /\ viewerPc' = [viewerPc EXCEPT ![v] = "fetch"]
    /\ lastId' = [lastId EXCEPT ![v] = 0]
    /\ sent' = [sent EXCEPT ![v] = {}]
    /\ looked' = [looked EXCEPT ![v] = {}]
    /\ drained' = [drained EXCEPT ![v] = FALSE]
    /\ UNCHANGED <<dbVars, writerVars, active, unstarted>>

(* The request ends first: its commit fails or its client is gone.  A      *)
(* generator that was never started has no finally block to run, so the    *)
(* slot is lost until the process restarts.                                *)
NeverBegins(v) ==
    /\ viewerPc[v] = "admitted"
    /\ viewerPc' = [viewerPc EXCEPT ![v] = "closed"]
    /\ unstarted' = unstarted + 1
    /\ UNCHANGED <<dbVars, writerVars, active, lastId, sent, drained, looked>>

(* The finally block of the generator.                                     *)
Close(v, pc) ==
    /\ active' = active - 1
    /\ viewerPc' = [viewerPc EXCEPT ![v] = pc]

(* The client leaves, or a query fails, at any await.                      *)
Disconnect(v) ==
    /\ Open(v)
    /\ Close(v, "closed")
    /\ UNCHANGED <<dbVars, writerVars, unstarted, lastId, sent, drained, looked>>

(* Rows after the last one that was sent.                                  *)
Unsent(v) == {i \in visible : i > lastId[v]}

(* Mutant of Batch: the newest rows come first.                            *)
NewestBatch(v) == {i \in Unsent(v) : Cardinality({j \in Unsent(v) : j > i}) < LogBatch}

(* _fetch_logs: the first of them.                                         *)
Batch(v) == {i \in Unsent(v) : Cardinality({j \in Unsent(v) : j < i}) < LogBatch}

(* Mutant of Fetch: last_id stays where it is.                             *)
FetchAgain(v) ==
    /\ viewerPc[v] = "fetch"
    /\ sent' = [sent EXCEPT ![v] = @ \cup Batch(v)]
    /\ drained' = [drained EXCEPT ![v] = Batch(v) = {}]
    /\ looked' = [looked EXCEPT ![v] = visible]
    /\ viewerPc' = [viewerPc EXCEPT ![v] = "progress"]
    /\ UNCHANGED <<dbVars, writerVars, active, unstarted, lastId>>

(* A round of the loop: the rows are read, and sent one by one.            *)
Fetch(v) ==
    /\ viewerPc[v] = "fetch"
    /\ \E last \in Batch(v) \cup {lastId[v]} :
          /\ \A i \in Batch(v) : i <= last
          /\ lastId' = [lastId EXCEPT ![v] = last]
    /\ sent' = [sent EXCEPT ![v] = @ \cup Batch(v)]
    /\ drained' = [drained EXCEPT ![v] = Batch(v) = {}]
    /\ looked' = [looked EXCEPT ![v] = visible]
    /\ viewerPc' = [viewerPc EXCEPT ![v] = "progress"]
    /\ UNCHANGED <<dbVars, writerVars, active, unstarted>>

(* Mutant of Progress: a terminal status alone ends the stream.            *)
ProgressEndsEarly(v) ==
    /\ viewerPc[v] = "progress"
    /\ IF status = "deleted" THEN Close(v, "closed")
       ELSE IF status \in TERMINAL_STATUSES THEN Close(v, "ended")
       ELSE viewerPc' = [viewerPc EXCEPT ![v] = "fetch"] /\ UNCHANGED active
    /\ UNCHANGED <<dbVars, writerVars, unstarted, lastId, sent, drained, looked>>

(* Mutant of Progress: the slot is given back after the "end" event only.  *)
ProgressKeepsSlot(v) ==
    /\ viewerPc[v] = "progress"
    /\ IF status = "deleted"
         THEN viewerPc' = [viewerPc EXCEPT ![v] = "closed"] /\ UNCHANGED active
       ELSE IF status \in TERMINAL_STATUSES /\ drained[v] THEN Close(v, "ended")
       ELSE viewerPc' = [viewerPc EXCEPT ![v] = "fetch"] /\ UNCHANGED active
    /\ UNCHANGED <<dbVars, writerVars, unstarted, lastId, sent, drained, looked>>

(* _fetch_progress, in a session of its own, and the end condition.        *)
Progress(v) ==
    /\ viewerPc[v] = "progress"
    /\ IF status = "deleted" THEN Close(v, "closed")
       ELSE IF status \in TERMINAL_STATUSES /\ drained[v] THEN Close(v, "ended")
       ELSE viewerPc' = [viewerPc EXCEPT ![v] = "fetch"] /\ UNCHANGED active
    /\ UNCHANGED <<dbVars, writerVars, unstarted, lastId, sent, drained, looked>>

------------------------------------------------------------------------------
Api == Start \/ Cancel \/ Delete

Writer(w) ==
    \/ Claim(w) \/ Insert(w) \/ Commit(w) \/ Stop(w) \/ Abort(w)
    \/ \E s \in {"completed", "failed"} : Finish(w, s)

Stream(v) == Fetch(v) \/ Progress(v)

Next ==
    \/ Api
    \/ \E w \in Writers : Writer(w)
    \/ \E v \in Viewers :
          Subscribe(v) \/ Begin(v) \/ NeverBegins(v) \/ Disconnect(v) \/ Stream(v)

Spec == Init /\ [][Next]_vars

(* The event loop runs every open stream; nobody else has to do anything.  *)
FairSpec == Spec /\ \A v \in Viewers : WF_vars(Stream(v))

------------------------------------------------------------------------------
(* The tail by id skips no line: what was sent is all there is up to       *)
(* last_id (docstring of models/migration_log.py), if tasks do not         *)
(* overlap.                                                                *)
NoGap ==
    status # "deleted" =>
        \A v \in Viewers : Open(v) => sent[v] = {i \in visible : i <= lastId[v]}

(* A stream the server ends has sent all that its last query could see,    *)
(* however many batches that took.                                         *)
EndedIsDrained ==
    \A v \in Viewers : viewerPc[v] = "ended" => looked[v] \subseteq sent[v]

(* A generator that started gives its slot back once, whichever way it     *)
(* ends: the slots in use are those of requests under way and of streams   *)
(* that are open, and besides only those lost to generators that never     *)
(* started.                                                                *)
SlotsAreFreed == active = Cardinality({v \in Viewers : Holds(v)}) + unstarted

(* A line that is visible while a stream is open is sent, unless the       *)
(* stream closes first.                                                    *)
LinesArrive ==
    \A v \in Viewers, i \in Ids :
        i \in visible /\ Open(v) ~> i \in sent[v] \/ ~Open(v) \/ status = "deleted"

(* When the job is over for good, or deleted, no stream stays open.        *)
StreamsClose ==
    \A v \in Viewers :
        <>[](status \in TERMINAL_STATUSES \cup {"deleted"}) => []<>(~Open(v))

(* What the page is promised (useMigrationStream.ts): all logs, then the   *)
(* end.  It fails: rows committed between the last query of the logs and   *)
(* the query of the status are never sent, not even those of a job that    *)
(* completed or failed only after them.                                    *)
EndedIsComplete ==
    [][\A v \in Viewers :
          Open(v) /\ viewerPc'[v] = "ended" /\ status \in {"completed", "failed"}
              => visible \subseteq sent[v]]_vars

==============================================================================

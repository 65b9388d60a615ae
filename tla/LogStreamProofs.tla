---------------------------- MODULE LogStreamProofs ----------------------------
(***************************************************************************)
(* Proofs about LogStream, for any number of tasks, clients, rows and      *)
(* slots and any batch size: the tail by id skips no row as long as tasks  *)
(* do not overlap, and no started stream loses its slot in either case.    *)
(***************************************************************************)
EXTENDS LogStream, FiniteSetTheorems, WellFoundedInduction, TLAPS

USE MaxLogsAssumption, LogBatchAssumption, MaxStreamsAssumption,
    OverlapAssumption, ViewersAssumption

(* Tasks do not overlap, so at most one row is inserted and not committed, *)
(* and its id is the highest there is.                                     *)
OneAtATime ==
    ~Overlap =>
        /\ \A w, x \in Writers :
              writerPc[w] # "idle" /\ writerPc[x] # "idle" => w = x
        /\ \A w \in Writers :
              drawn[w] # 0 => writerPc[w] # "idle" /\ \A i \in visible : i < drawn[w]

(* Ids come from the sequence.                                             *)
SequenceInv ==
    /\ \A i \in visible : i <= lastDrawn
    /\ \A w \in Writers : drawn[w] <= lastDrawn

(* last_id is an id that was sent, and with it every smaller one.          *)
CursorInv ==
    ~Overlap /\ status # "deleted" =>
        \A v \in Viewers : Open(v) =>
            /\ lastId[v] \in visible \cup {0}
            /\ sent[v] = {i \in visible : i <= lastId[v]}

(* A query that found nothing new found everything sent.                   *)
DrainedInv ==
    ~Overlap => \A v \in Viewers :
        viewerPc[v] = "ended" \/ (viewerPc[v] = "progress" /\ drained[v])
            => looked[v] \subseteq sent[v]

DeletedInv == status = "deleted" => visible = {}

LogIInv ==
    /\ TypeOK /\ SlotsAreFreed
    /\ OneAtATime /\ SequenceInv /\ CursorInv /\ DrainedInv /\ DeletedInv

------------------------------------------------------------------------------
(* Slots *)

Holders == {v \in Viewers : Holds(v)}

(* An admitted request takes one slot.                                     *)
LEMMA AdmitCounts ==
    ASSUME TypeOK, SlotsAreFreed, NEW v \in Viewers, ~Holds(v),
           viewerPc' = [viewerPc EXCEPT ![v] = "admitted"], active' = active + 1,
           unstarted' = unstarted
    PROVE  SlotsAreFreed'
<1>1. Holders' = Holders \cup {v}
  BY DEF Holders, Holds, TypeOK
<1>2. IsFiniteSet(Holders)
  BY FS_Subset DEF Holders
<1>3. v \notin Holders
  BY DEF Holders
<1>4. Cardinality(Holders') = Cardinality(Holders) + 1
  BY <1>1, <1>2, <1>3, FS_AddElement
<1>5. Cardinality(Holders) \in Nat /\ unstarted \in Nat
  BY <1>2, FS_CardinalityType DEF TypeOK
<1>6. QED
  BY <1>4, <1>5 DEF SlotsAreFreed, Holders

(* One that lets go of its slot gives it back, or it is lost for good; in  *)
(* either case the counter stays within its limit.                         *)
LEMMA LeaveCounts ==
    ASSUME TypeOK, SlotsAreFreed, NEW v \in Viewers, Holds(v),
           NEW pc \in {"closed", "ended"}, viewerPc' = [viewerPc EXCEPT ![v] = pc],
           \/ active' = active - 1 /\ unstarted' = unstarted
           \/ active' = active /\ unstarted' = unstarted + 1
    PROVE  SlotsAreFreed' /\ active' \in 0..MaxStreams /\ unstarted' \in 0..MaxStreams
<1>1. Holders' = Holders \ {v}
  BY DEF Holders, Holds, TypeOK
<1>2. IsFiniteSet(Holders) /\ v \in Holders
  BY FS_Subset DEF Holders
<1>3. Cardinality(Holders') = Cardinality(Holders) - 1
  BY <1>1, <1>2, FS_RemoveElement
<1>4. Cardinality(Holders') \in Nat
  BY <1>1, <1>2, FS_RemoveElement, FS_CardinalityType
<1>5. active = Cardinality(Holders) + unstarted
  BY DEF SlotsAreFreed, Holders
<1>6. active \in 0..MaxStreams /\ unstarted \in 0..MaxStreams
  BY DEF TypeOK
<1>7. Cardinality(Holders) \in Nat
  BY <1>2, FS_CardinalityType
<1>8. active' \in 0..MaxStreams /\ unstarted' \in 0..MaxStreams
  BY <1>3, <1>4, <1>5, <1>6, <1>7
<1>9. active' = Cardinality(Holders') + unstarted'
  BY <1>3, <1>5, <1>6, <1>7
<1>10. QED
  BY <1>8, <1>9 DEF SlotsAreFreed, Holders

(* A stream that goes on keeps its slot.                                   *)
LEMMA RoundCounts ==
    ASSUME TypeOK, SlotsAreFreed, NEW v \in Viewers, Holds(v),
           NEW pc \in {"fetch", "progress"},
           viewerPc' = [viewerPc EXCEPT ![v] = pc],
           UNCHANGED <<active, unstarted>>
    PROVE  SlotsAreFreed'
<1>1. Holders' = Holders
  BY DEF Holders, Holds, TypeOK
<1>2. QED
  BY <1>1 DEF SlotsAreFreed, Holders

(* So does everybody else's step.                                          *)
LEMMA SlotsFrame ==
    ASSUME SlotsAreFreed, UNCHANGED <<active, unstarted, viewerPc>>
    PROVE  SlotsAreFreed'
<1>1. Holders' = Holders
  BY DEF Holders, Holds
<1>2. QED
  BY <1>1 DEF SlotsAreFreed, Holders

------------------------------------------------------------------------------
(* Types *)

(* Every variable keeps its type; _active_streams stays within its limit   *)
(* because no stream closes twice.                                         *)
LEMMA LogTypeStep == LogIInv /\ [Next]_vars => TypeOK' /\ SlotsAreFreed'
<1> SUFFICES ASSUME LogIInv, [Next]_vars PROVE TypeOK' /\ SlotsAreFreed'
  OBVIOUS
<1>0. TypeOK /\ SlotsAreFreed
  BY DEF LogIInv
<1> USE DEF dbVars, writerVars, streamVars
<1>1. CASE Api
  <2>1. TypeOK'
    BY <1>0, <1>1 DEF TypeOK, Api, Start, Cancel, Delete, MigrationStatus,
       STARTABLE_STATUSES, Active
  <2>2. QED
    BY <1>0, <1>1, <2>1, SlotsFrame DEF Api, Start, Cancel, Delete
<1>2. ASSUME NEW w \in Writers, Writer(w) PROVE TypeOK' /\ SlotsAreFreed'
  <2>1. CASE Claim(w)
    BY <1>0, <2>1, SlotsFrame DEF TypeOK, Claim, MigrationStatus
  <2>2. CASE Insert(w)
    BY <1>0, <2>2, SlotsFrame DEF TypeOK, Insert
  <2>3. CASE Commit(w)
    <3>1. drawn[w] \in Ids
      BY <1>0, <2>3 DEF TypeOK, Commit, Ids
    <3>2. TypeOK'
      BY <1>0, <2>3, <3>1 DEF TypeOK, Commit
    <3>3. QED
      BY <1>0, <2>3, <3>2, SlotsFrame DEF Commit
  <2>4. CASE Stop(w)
    BY <1>0, <2>4, SlotsFrame DEF TypeOK, Stop
  <2>5. CASE Abort(w)
    BY <1>0, <2>5, SlotsFrame DEF TypeOK, Abort
  <2>6. CASE \E s \in {"completed", "failed"} : Finish(w, s)
    BY <1>0, <2>6, SlotsFrame DEF TypeOK, Finish, MigrationStatus
  <2>7. QED
    BY <1>2, <2>1, <2>2, <2>3, <2>4, <2>5, <2>6 DEF Writer
<1>3. ASSUME NEW v \in Viewers, Subscribe(v) PROVE TypeOK' /\ SlotsAreFreed'
  <2>1. TypeOK'
    BY <1>0, <1>3 DEF TypeOK, Subscribe
  <2>2. QED
    BY <1>0, <1>3, <2>1, AdmitCounts DEF Subscribe
<1>8. ASSUME NEW v \in Viewers, Begin(v) PROVE TypeOK' /\ SlotsAreFreed'
  <2>1. TypeOK'
    BY <1>0, <1>8 DEF TypeOK, Begin
  <2>2. QED
    BY <1>0, <1>8, <2>1, RoundCounts DEF Begin, Holds
<1>9. ASSUME NEW v \in Viewers, NeverBegins(v) PROVE TypeOK' /\ SlotsAreFreed'
  <2>1. SlotsAreFreed' /\ active' \in 0..MaxStreams /\ unstarted' \in 0..MaxStreams
    BY <1>0, <1>9, LeaveCounts DEF NeverBegins, Holds
  <2>2. QED
    BY <1>0, <1>9, <2>1 DEF TypeOK, NeverBegins
<1>4. ASSUME NEW v \in Viewers, Disconnect(v) PROVE TypeOK' /\ SlotsAreFreed'
  <2>1. SlotsAreFreed' /\ active' \in 0..MaxStreams
    BY <1>0, <1>4, LeaveCounts DEF Disconnect, Close, Open, Holds
  <2>2. QED
    BY <1>0, <1>4, <2>1 DEF TypeOK, Disconnect, Close
<1>5. ASSUME NEW v \in Viewers, Fetch(v) PROVE TypeOK' /\ SlotsAreFreed'
  <2>1. Batch(v) \subseteq Ids
    BY <1>0 DEF TypeOK, Batch, Unsent
  <2>2. PICK last \in Batch(v) \cup {lastId[v]} :
            lastId' = [lastId EXCEPT ![v] = last]
    BY <1>5 DEF Fetch
  <2>3. last \in 0..MaxLogs
    BY <1>0, <2>1, <2>2 DEF TypeOK, Ids
  <2>4. lastId' \in [Viewers -> 0..MaxLogs]
    BY <1>0, <2>2, <2>3 DEF TypeOK
  <2>5. TypeOK'
    BY <1>0, <1>5, <2>1, <2>4 DEF TypeOK, Fetch
  <2>6. QED
    BY <1>0, <1>5, <2>5, RoundCounts DEF Fetch, Holds
<1>6. ASSUME NEW v \in Viewers, Progress(v) PROVE TypeOK' /\ SlotsAreFreed'
  <2>1. Holds(v) /\ unstarted' = unstarted
    BY <1>6 DEF Progress, Holds
  <2>2. CASE Close(v, "closed") \/ Close(v, "ended")
    <3>1. SlotsAreFreed' /\ active' \in 0..MaxStreams
      BY <1>0, <2>1, <2>2, LeaveCounts DEF Close
    <3>2. QED
      BY <1>0, <1>6, <2>2, <3>1 DEF TypeOK, Progress, Close
  <2>3. CASE viewerPc' = [viewerPc EXCEPT ![v] = "fetch"] /\ UNCHANGED active
    <3>1. TypeOK'
      BY <1>0, <1>6, <2>3 DEF TypeOK, Progress
    <3>2. QED
      BY <1>0, <2>1, <2>3, <3>1, RoundCounts
  <2>4. QED
    BY <1>6, <2>2, <2>3 DEF Progress
<1>7. CASE UNCHANGED vars
  BY <1>0, <1>7, SlotsFrame DEF TypeOK, vars
<1>10. QED
  BY <1>1, <1>2, <1>3, <1>4, <1>5, <1>6, <1>7, <1>8, <1>9 DEF Next, Stream

------------------------------------------------------------------------------
(* The batch of a query *)

(* There is a smallest unsent row, if there is any.                        *)
LEMMA SmallestUnsent ==
    ASSUME TypeOK, NEW v \in Viewers, Unsent(v) # {}
    PROVE  \E i \in Unsent(v) : \A j \in Unsent(v) : ~(j < i)
<1>1. Unsent(v) \subseteq Nat
  <2>1. \A i \in Unsent(v) : i \in 1..MaxLogs
    BY DEF TypeOK, Unsent, Ids
  <2>2. \A i \in 1..MaxLogs : i \in Nat
    OBVIOUS
  <2>3. QED
    BY <2>1, <2>2
<1>2. PICK i \in Unsent(v) :
          \A j \in Unsent(v) : ~(<<j, i>> \in OpToRel(<, Nat))
  BY <1>1, NatLessThanWellFounded, WFMin
<1>3. QED
  BY <1>1, <1>2 DEF OpToRel

(* A query that returns nothing had nothing to return.                     *)
LEMMA EmptyBatch ==
    ASSUME TypeOK, NEW v \in Viewers, Batch(v) = {}
    PROVE  Unsent(v) = {}
<1> SUFFICES ASSUME Unsent(v) # {} PROVE FALSE
  OBVIOUS
<1>1. PICK i \in Unsent(v) : \A j \in Unsent(v) : ~(j < i)
  BY SmallestUnsent
<1>2. {j \in Unsent(v) : j < i} = {}
  BY <1>1
<1>3. Cardinality({j \in Unsent(v) : j < i}) = 0
  BY <1>2, FS_EmptySet
<1>4. QED
  BY <1>3 DEF Batch

(* A query skips nothing: with a row it returns every unsent smaller one.  *)
LEMMA BatchSkipsNothing ==
    ASSUME TypeOK, NEW v \in Viewers, NEW i \in Batch(v), NEW j \in Unsent(v), j <= i
    PROVE  j \in Batch(v)
<1> DEFINE Below(n) == {k \in Unsent(v) : k < n}
<1>1. Unsent(v) \subseteq 1..MaxLogs /\ i \in Unsent(v)
  BY DEF TypeOK, Unsent, Ids, Batch
<1>2. IsFiniteSet(1..MaxLogs)
  BY FS_Interval
<1>3. IsFiniteSet(Below(i)) /\ IsFiniteSet(Below(j))
  BY <1>1, <1>2, FS_Subset
<1>4. Below(j) \subseteq Below(i)
  BY <1>1
<1>5. Cardinality(Below(j)) <= Cardinality(Below(i))
  BY <1>3, <1>4, FS_Subset
<1>6. Cardinality(Below(i)) < LogBatch
  BY DEF Batch
<1>7. Cardinality(Below(i)) \in Nat /\ Cardinality(Below(j)) \in Nat
  BY <1>3, FS_CardinalityType
<1>8. QED
  BY <1>5, <1>6, <1>7 DEF Batch

------------------------------------------------------------------------------
(* The order of the rows *)

(* A step that inserts and commits nothing and claims no job.              *)
LEMMA OneAtATimeFrame ==
    ASSUME OneAtATime, UNCHANGED drawn, visible' \subseteq visible,
           \A w \in Writers : writerPc'[w] # "idle" <=> writerPc[w] # "idle"
    PROVE  OneAtATime'
  BY DEF OneAtATime

(* What the invariant of the rows depends on.                              *)
LEMMA SequenceFrame ==
    ASSUME SequenceInv, UNCHANGED <<drawn, lastDrawn>>, visible' \subseteq visible
    PROVE  SequenceInv'
  BY DEF SequenceInv

(* The database's clients: no two of them hold an uncommitted row.         *)
LEMMA OrderStep ==
    LogIInv /\ [Next]_vars => OneAtATime' /\ SequenceInv' /\ DeletedInv'
<1> SUFFICES ASSUME LogIInv, [Next]_vars
             PROVE  OneAtATime' /\ SequenceInv' /\ DeletedInv'
  OBVIOUS
<1>0. TypeOK /\ OneAtATime /\ SequenceInv /\ DeletedInv
  BY DEF LogIInv
<1> USE DEF dbVars, writerVars, streamVars
<1>1. CASE Api
  <2>1. OneAtATime' /\ SequenceInv'
    BY <1>0, <1>1, OneAtATimeFrame, SequenceFrame DEF Api, Start, Cancel, Delete
  <2>2. DeletedInv'
    BY <1>0, <1>1 DEF DeletedInv, Api, Start, Cancel, Delete
  <2>3. QED
    BY <2>1, <2>2
<1>2. ASSUME NEW w \in Writers, Claim(w)
      PROVE  OneAtATime' /\ SequenceInv' /\ DeletedInv'
  <2>1. OneAtATime'
    BY <1>0, <1>2 DEF OneAtATime, Claim, TypeOK
  <2>2. QED
    BY <1>0, <1>2, <2>1, SequenceFrame DEF Claim, DeletedInv
<1>3. ASSUME NEW w \in Writers, Insert(w)
      PROVE  OneAtATime' /\ SequenceInv' /\ DeletedInv'
  <2>1. /\ lastDrawn \in Nat /\ lastDrawn' = lastDrawn + 1
        /\ \A x \in Writers :
              drawn'[x] = IF x = w THEN lastDrawn + 1 ELSE drawn[x]
        /\ UNCHANGED <<status, visible, writerPc>> /\ writerPc[w] # "idle"
    BY <1>0, <1>3 DEF Insert, TypeOK
  <2>2. \A i \in visible : i \in Nat
    BY <1>0 DEF TypeOK, Ids
  <2>3. \A x \in Writers : drawn[x] \in Nat
    BY <1>0 DEF TypeOK
  <2>4. OneAtATime'
    BY <1>0, <2>1, <2>2 DEF OneAtATime, SequenceInv
  <2>5. SequenceInv'
    BY <1>0, <2>1, <2>2, <2>3 DEF SequenceInv
  <2>6. QED
    BY <1>0, <2>1, <2>4, <2>5 DEF DeletedInv
<1>4. ASSUME NEW w \in Writers, Commit(w)
      PROVE  OneAtATime' /\ SequenceInv' /\ DeletedInv'
  <2>1. /\ visible' = visible \cup {drawn[w]} /\ drawn[w] # 0
        /\ \A x \in Writers : drawn'[x] = IF x = w THEN 0 ELSE drawn[x]
        /\ \A x \in Writers :
              writerPc'[x] = IF x = w /\ writerPc[w] = "last" THEN "idle" ELSE writerPc[x]
        /\ UNCHANGED <<lastDrawn, status>> /\ status # "deleted"
    BY <1>0, <1>4 DEF Commit, TypeOK
  <2>2. OneAtATime'
    BY <1>0, <2>1 DEF OneAtATime
  <2>3. lastDrawn \in Nat
    BY <1>0 DEF TypeOK
  <2>4. SequenceInv'
    BY <1>0, <2>1, <2>3 DEF SequenceInv
  <2>5. QED
    BY <2>1, <2>2, <2>4 DEF DeletedInv
<1>5. ASSUME NEW w \in Writers, Stop(w) \/ \E s \in {"completed", "failed"} : Finish(w, s)
      PROVE  OneAtATime' /\ SequenceInv' /\ DeletedInv'
  <2>1. /\ \A x \in Writers : writerPc'[x] # "idle" <=> writerPc[x] # "idle"
        /\ UNCHANGED <<drawn, lastDrawn, visible>> /\ (status' = "deleted" => status = "deleted")
    BY <1>0, <1>5 DEF Stop, Finish, TypeOK
  <2>2. QED
    BY <1>0, <2>1, OneAtATimeFrame, SequenceFrame DEF DeletedInv
<1>6. ASSUME NEW w \in Writers, Abort(w)
      PROVE  OneAtATime' /\ SequenceInv' /\ DeletedInv'
  <2>1. /\ \A x \in Writers : drawn'[x] = IF x = w THEN 0 ELSE drawn[x]
        /\ \A x \in Writers : writerPc'[x] = IF x = w THEN "idle" ELSE writerPc[x]
        /\ UNCHANGED dbVars
    BY <1>0, <1>6 DEF Abort, TypeOK
  <2>2. OneAtATime'
    BY <1>0, <2>1 DEF OneAtATime
  <2>3. lastDrawn \in Nat
    BY <1>0 DEF TypeOK
  <2>4. QED
    BY <1>0, <2>1, <2>2, <2>3 DEF SequenceInv, DeletedInv
<1>7. ASSUME NEW v \in Viewers,
             Subscribe(v) \/ Begin(v) \/ NeverBegins(v) \/ Disconnect(v) \/ Stream(v)
      PROVE  OneAtATime' /\ SequenceInv' /\ DeletedInv'
  <2>1. UNCHANGED <<dbVars, writerVars>>
    BY <1>7 DEF Subscribe, Begin, NeverBegins, Disconnect, Stream, Fetch, Progress
  <2>2. QED
    BY <1>0, <2>1, OneAtATimeFrame, SequenceFrame DEF DeletedInv
<1>8. CASE UNCHANGED vars
  BY <1>0, <1>8, OneAtATimeFrame, SequenceFrame DEF vars, DeletedInv
<1>9. QED
  BY <1>1, <1>2, <1>3, <1>4, <1>5, <1>6, <1>7, <1>8 DEF Next, Writer

------------------------------------------------------------------------------
(* The cursor of a stream *)

(* A step that neither moves a stream nor adds a row behind its cursor.    *)
LEMMA CursorFrame ==
    ASSUME CursorInv, DrainedInv, UNCHANGED streamVars,
           \/ UNCHANGED visible
           \/ status' = "deleted",
           status' # "deleted" => status # "deleted"
    PROVE  CursorInv' /\ DrainedInv'
<1>1. CursorInv'
  BY DEF CursorInv, streamVars, Open
<1>2. DrainedInv'
  BY DEF DrainedInv, streamVars
<1>3. QED
  BY <1>1, <1>2

(* A commit adds an id above every cursor.                                 *)
LEMMA CommitCursor ==
    ASSUME LogIInv, NEW w \in Writers, Commit(w)
    PROVE  CursorInv' /\ DrainedInv'
<1>1. TypeOK /\ OneAtATime /\ CursorInv /\ DrainedInv
  BY DEF LogIInv
<1>2. /\ visible' = visible \cup {drawn[w]} /\ drawn[w] # 0
      /\ UNCHANGED streamVars /\ status # "deleted" /\ status' = status
  BY DEF Commit
<1>3. DrainedInv'
  BY <1>1, <1>2 DEF DrainedInv, streamVars
<1>4. CursorInv'
  <2> SUFFICES ASSUME ~Overlap, NEW v \in Viewers, Open(v)
               PROVE  /\ lastId[v] \in visible' \cup {0}
                      /\ sent[v] = {i \in visible' : i <= lastId[v]}
    BY <1>2 DEF CursorInv, streamVars, Open
  <2>1. lastId[v] \in visible \cup {0} /\ sent[v] = {i \in visible : i <= lastId[v]}
    BY <1>1, <1>2 DEF CursorInv
  <2>2. drawn[w] \in Nat \ {0} /\ lastId[v] \in Nat
    BY <1>1, <1>2 DEF TypeOK
  <2>3. lastId[v] < drawn[w]
    BY <1>1, <1>2, <2>1, <2>2 DEF OneAtATime
  <2>4. ~(drawn[w] <= lastId[v])
    BY <2>2, <2>3
  <2>5. QED
    BY <1>2, <2>1, <2>4
<1>5. QED
  BY <1>3, <1>4

(* A query moves the cursor over what it returns.                          *)
LEMMA FetchCursor ==
    ASSUME LogIInv, NEW v \in Viewers, Fetch(v)
    PROVE  CursorInv' /\ DrainedInv'
<1>1. TypeOK /\ CursorInv /\ DrainedInv /\ DeletedInv
  BY DEF LogIInv
<1>2. PICK last \in Batch(v) \cup {lastId[v]} :
          /\ \A i \in Batch(v) : i <= last
          /\ lastId' = [lastId EXCEPT ![v] = last]
  BY DEF Fetch
<1>3. /\ viewerPc[v] = "fetch" /\ UNCHANGED <<status, visible>>
      /\ viewerPc' = [viewerPc EXCEPT ![v] = "progress"]
      /\ sent' = [sent EXCEPT ![v] = @ \cup Batch(v)]
      /\ drained' = [drained EXCEPT ![v] = Batch(v) = {}]
      /\ looked' = [looked EXCEPT ![v] = visible]
  BY DEF Fetch, dbVars
<1>4. /\ \A x \in Viewers : viewerPc'[x] = IF x = v THEN "progress" ELSE viewerPc[x]
      /\ \A x \in Viewers : lastId'[x] = IF x = v THEN last ELSE lastId[x]
      /\ \A x \in Viewers : sent'[x] = IF x = v THEN sent[x] \cup Batch(v) ELSE sent[x]
      /\ \A x \in Viewers : drained'[x] = IF x = v THEN Batch(v) = {} ELSE drained[x]
      /\ \A x \in Viewers : looked'[x] = IF x = v THEN visible ELSE looked[x]
  BY <1>1, <1>2, <1>3 DEF TypeOK
<1>5. /\ lastId[v] \in Nat /\ \A i \in visible : i \in Nat
      /\ \A i \in Batch(v) : i \in visible /\ i > lastId[v]
  <2>1. lastId[v] \in 0..MaxLogs /\ \A i \in visible : i \in 1..MaxLogs
    BY <1>1 DEF TypeOK, Ids
  <2>2. \A i \in 1..MaxLogs : i \in Nat
    OBVIOUS
  <2>3. QED
    BY <2>1, <2>2 DEF Batch, Unsent
<1>6. ASSUME ~Overlap, status # "deleted"
      PROVE  /\ last \in visible \cup {0}
             /\ sent[v] \cup Batch(v) = {i \in visible : i <= last}
  <2>1. lastId[v] \in visible \cup {0} /\ sent[v] = {i \in visible : i <= lastId[v]}
    BY <1>1, <1>3, <1>6 DEF CursorInv, Open
  <2>2. last \in Nat /\ lastId[v] <= last
    <3>1. CASE last = lastId[v]
      BY <1>5, <3>1
    <3>2. CASE last \in Batch(v)
      BY <1>5, <3>2
    <3>3. QED
      BY <1>2, <3>1, <3>2
  <2>3. ASSUME NEW i \in visible, i <= last PROVE i \in sent[v] \cup Batch(v)
    <3>1. CASE i <= lastId[v]
      BY <2>1, <3>1
    <3>2. CASE ~(i <= lastId[v])
      <4>1. i > lastId[v]
        BY <1>5, <3>2
      <4>2. i \in Unsent(v)
        BY <4>1 DEF Unsent
      <4>3. last \in Batch(v)
        BY <1>2, <2>3, <3>2
      <4>4. QED
        BY <1>1, <2>3, <4>2, <4>3, BatchSkipsNothing
    <3>3. QED
      BY <3>1, <3>2
  <2>4. ASSUME NEW i \in sent[v] \cup Batch(v) PROVE i \in visible /\ i <= last
    <3>1. CASE i \in Batch(v)
      BY <1>2, <1>5, <3>1
    <3>2. CASE i \in sent[v]
      <4>1. i \in visible /\ i <= lastId[v] /\ i \in Nat
        BY <1>5, <2>1, <3>2
      <4>2. QED
        BY <1>5, <2>2, <4>1
    <3>3. QED
      BY <3>1, <3>2
  <2>5. QED
    BY <1>2, <1>5, <2>1, <2>3, <2>4
<1>7. CursorInv'
  <2> SUFFICES ASSUME ~Overlap, status # "deleted", NEW x \in Viewers, Open(x)'
               PROVE  /\ lastId'[x] \in visible \cup {0}
                      /\ sent'[x] = {i \in visible : i <= lastId'[x]}
    BY <1>3 DEF CursorInv
  <2>1. CASE x = v
    BY <1>4, <1>6, <2>1
  <2>2. CASE x # v
    BY <1>1, <1>4, <2>2 DEF CursorInv, Open
  <2>3. QED
    BY <2>1, <2>2
<1>8. DrainedInv'
  <2> SUFFICES ASSUME ~Overlap, NEW x \in Viewers,
                      viewerPc'[x] = "ended" \/ (viewerPc'[x] = "progress" /\ drained'[x])
               PROVE  looked'[x] \subseteq sent'[x]
    BY DEF DrainedInv
  <2>1. CASE x # v
    BY <1>1, <1>4, <2>1 DEF DrainedInv
  <2>2. CASE x = v /\ status = "deleted"
    BY <1>1, <1>4, <2>2 DEF DeletedInv
  <2>3. CASE x = v /\ status # "deleted"
    <3>1. Unsent(v) = {}
      BY <1>1, <1>4, <2>3, EmptyBatch
    <3>2. ASSUME NEW i \in visible PROVE i <= lastId[v]
      <4>1. ~(i > lastId[v])
        BY <3>1 DEF Unsent
      <4>2. QED
        BY <1>5, <4>1
    <3>3. sent[v] = {i \in visible : i <= lastId[v]}
      BY <1>1, <1>3, <2>3 DEF CursorInv, Open
    <3>4. QED
      BY <1>4, <2>3, <3>2, <3>3
  <2>4. QED
    BY <2>1, <2>2, <2>3
<1>9. QED
  BY <1>7, <1>8

(* No step leaves a row behind a cursor.                                   *)
LEMMA CursorStep == LogIInv /\ [Next]_vars => CursorInv' /\ DrainedInv'
<1> SUFFICES ASSUME LogIInv, [Next]_vars PROVE CursorInv' /\ DrainedInv'
  OBVIOUS
<1>0. TypeOK /\ CursorInv /\ DrainedInv
  BY DEF LogIInv
<1>1. CASE Api
  BY <1>0, <1>1, CursorFrame DEF Api, Start, Cancel, Delete, MigrationStatus, Active,
     STARTABLE_STATUSES
<1>2. ASSUME NEW w \in Writers, Writer(w) PROVE CursorInv' /\ DrainedInv'
  <2>1. CASE Commit(w)
    BY <2>1, CommitCursor
  <2>2. CASE Claim(w)
    BY <1>0, <2>2, CursorFrame DEF Claim, Active
  <2>3. CASE Insert(w)
    BY <1>0, <2>3, CursorFrame DEF Insert
  <2>4. CASE Stop(w) \/ Abort(w)
    BY <1>0, <2>4, CursorFrame DEF Stop, Abort, dbVars
  <2>5. CASE \E s \in {"completed", "failed"} : Finish(w, s)
    BY <1>0, <2>5, CursorFrame DEF Finish
  <2>6. QED
    BY <1>2, <2>1, <2>2, <2>3, <2>4, <2>5 DEF Writer
<1>8. ASSUME NEW v \in Viewers, Subscribe(v) \/ NeverBegins(v)
      PROVE  CursorInv' /\ DrainedInv'
  <2>1. /\ UNCHANGED <<status, visible, lastId, sent, drained, looked>>
        /\ \A x \in Viewers \ {v} : viewerPc'[x] = viewerPc[x]
        /\ viewerPc'[v] \in {"admitted", "closed"}
    BY <1>0, <1>8 DEF Subscribe, NeverBegins, TypeOK, dbVars
  <2>2. CursorInv'
    BY <1>0, <2>1 DEF CursorInv, Open
  <2>3. DrainedInv'
    BY <1>0, <2>1 DEF DrainedInv
  <2>4. QED
    BY <2>2, <2>3
<1>3. ASSUME NEW v \in Viewers, Begin(v) PROVE CursorInv' /\ DrainedInv'
  <2>1. /\ UNCHANGED <<status, visible>>
        /\ \A x \in Viewers :
              /\ viewerPc'[x] = IF x = v THEN "fetch" ELSE viewerPc[x]
              /\ lastId'[x] = IF x = v THEN 0 ELSE lastId[x]
              /\ sent'[x] = IF x = v THEN {} ELSE sent[x]
              /\ looked'[x] = IF x = v THEN {} ELSE looked[x]
              /\ x # v => drained'[x] = drained[x]
    BY <1>0, <1>3 DEF Begin, TypeOK, dbVars
  <2>2. \A i \in visible : ~(i <= 0)
    BY <1>0 DEF TypeOK, Ids
  <2>3. CursorInv'
    BY <1>0, <2>1, <2>2 DEF CursorInv, Open
  <2>4. DrainedInv'
    BY <1>0, <2>1 DEF DrainedInv
  <2>5. QED
    BY <2>3, <2>4
<1>4. ASSUME NEW v \in Viewers, Disconnect(v) \/ Progress(v)
      PROVE  CursorInv' /\ DrainedInv'
  <2>1. /\ UNCHANGED <<status, visible, lastId, sent, drained, looked>>
        /\ \A x \in Viewers \ {v} : viewerPc'[x] = viewerPc[x]
        /\ Open(v)
        /\ viewerPc'[v] = "ended" => viewerPc[v] = "progress" /\ drained[v]
        /\ viewerPc'[v] # "progress"
    BY <1>0, <1>4 DEF Disconnect, Progress, Close, Open, TypeOK, dbVars
  <2>2. CursorInv'
    BY <1>0, <2>1 DEF CursorInv, Open
  <2>3. DrainedInv'
    BY <1>0, <2>1 DEF DrainedInv
  <2>4. QED
    BY <2>2, <2>3
<1>5. ASSUME NEW v \in Viewers, Fetch(v) PROVE CursorInv' /\ DrainedInv'
  BY <1>5, FetchCursor
<1>6. CASE UNCHANGED vars
  BY <1>0, <1>6, CursorFrame DEF vars, dbVars
<1>7. QED
  BY <1>1, <1>2, <1>3, <1>4, <1>5, <1>6, <1>8 DEF Next, Stream

------------------------------------------------------------------------------
(* The theorems *)

(* A draft without rows, and no stream.                                    *)
LEMMA InitLog == Init => LogIInv
<1> SUFFICES ASSUME Init PROVE LogIInv
  OBVIOUS
<1> USE DEF Init
<1>1. TypeOK
  BY DEF TypeOK, MigrationStatus
<1>2. {v \in Viewers : Holds(v)} = {}
  BY DEF Holds
<1>3. SlotsAreFreed
  <2>1. Cardinality({v \in Viewers : Holds(v)}) = 0
    BY <1>2, FS_EmptySet
  <2>2. active = 0 /\ unstarted = 0
    OBVIOUS
  <2>3. QED
    BY <2>1, <2>2 DEF SlotsAreFreed
<1>4. OneAtATime /\ SequenceInv /\ CursorInv /\ DrainedInv /\ DeletedInv
  BY DEF OneAtATime, SequenceInv, CursorInv, DrainedInv, DeletedInv, Open
<1>5. QED
  BY <1>1, <1>3, <1>4 DEF LogIInv

(* The inductive invariant: ids become visible in the order they are       *)
(* drawn, and every stream has sent a prefix of them.                      *)
THEOREM LogInvariance == Spec => []LogIInv
<1>1. LogIInv /\ [Next]_vars => LogIInv'
  BY LogTypeStep, OrderStep, CursorStep DEF LogIInv
<1>2. QED
  BY <1>1, InitLog, PTL DEF Spec

(* Every variable keeps its type; the limit of open streams is kept.       *)
THEOREM LogTypeCorrect == Spec => []TypeOK
<1>1. LogIInv => TypeOK
  BY DEF LogIInv
<1>2. QED
  BY <1>1, LogInvariance, PTL

(* Each path out of a generator of stream.py that was started gives the    *)
(* slot back, once; a slot is lost only to a generator that never started. *)
THEOREM SlotsAreCounted == Spec => []SlotsAreFreed
<1>1. LogIInv => SlotsAreFreed
  BY DEF LogIInv
<1>2. QED
  BY <1>1, LogInvariance, PTL

(* The tail by id of stream.py skips no row, as long as tasks of the       *)
(* migration do not overlap.                                               *)
THEOREM TailSkipsNothing == Spec => [](~Overlap => NoGap)
<1>1. LogIInv => (~Overlap => NoGap)
  BY DEF LogIInv, CursorInv, NoGap
<1>2. QED
  BY <1>1, LogInvariance, PTL

(* The end event of stream.py follows everything its last query could see. *)
THEOREM EndedStreamsAreDrained == Spec => [](~Overlap => EndedIsDrained)
<1>1. LogIInv => (~Overlap => EndedIsDrained)
  BY DEF LogIInv, DrainedInv, EndedIsDrained
<1>2. QED
  BY <1>1, LogInvariance, PTL

===============================================================================

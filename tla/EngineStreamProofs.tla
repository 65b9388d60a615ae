-------------------------- MODULE EngineStreamProofs --------------------------
(***************************************************************************)
(* Proofs about EngineStream, for engines of any length and pipes of any   *)
(* size: its types, the end of the child, the line order behind the        *)
(* reported error, and the refinement of EngineRun.                        *)
(***************************************************************************)
EXTENDS EngineStream, TLAPS

(* Where the task is, and what it has already decided.                     *)
ControlInv ==
    /\ (result = "none") <=> (pc \in {"get", "poll", "terminate", "wait"})
    /\ pc \in {"get", "poll", "wait"} => signal = "none"
    /\ result = "exit" => proc # "running" /\ signal = "none"
    /\ proc # "running" => output = "closed"
    /\ NoOrphan

(* The lines are numbered in the order they were written.                  *)
Numbered == \A i \in 1..Len(emitted) : emitted[i][1] = i

(* "line" is the last of the first n lines whose level is in L.            *)
IsLastOf(line, n, L) ==
    \/ line = NoLine /\ \A j \in 1..n : emitted[j][2] \notin L
    \/ \E i \in 1..n :
          /\ line = emitted[i] /\ emitted[i][2] \in L
          /\ \A j \in 1..n : emitted[j][2] \in L => j <= i

Remembers(n) ==
    /\ IsLastOf(lastLine, n, {"info", "error"})
    /\ IsLastOf(lastError, n, {"error"})

(* The first lines written are the n taken in and the q queued, in this    *)
(* order, and until the reader fails the rest is in the pipe.  The queue   *)
(* ends with the sentinel once the reader has ended.                       *)
Conveyed(n, q) ==
    /\ n + q <= Len(emitted)
    /\ Len(lineQueue) = IF reader = "reading" THEN q ELSE q + 1
    /\ \A i \in 1..q : lineQueue[i] = emitted[n + i]
    /\ reader # "failed" =>
          /\ Len(emitted) = n + q + Len(pipe)
          /\ \A i \in 1..Len(pipe) : pipe[i] = emitted[n + q + i]
    /\ reader # "reading" => lineQueue[q + 1] = Eof
    /\ reader = "done" => pipe = <<>> /\ output = "closed"
    /\ Remembers(n)

(* All lines were taken in, or those before the reader failed.             *)
TakenIn(n) == Remembers(n) /\ (reader # "failed" => n = Len(emitted))

StreamInv ==
    /\ Numbered
    /\ pc \in {"get", "poll"} => \E n, q \in 0..Len(emitted) : Conveyed(n, q)
    /\ pc = "wait" => (reader = "done" => output = "closed")
    /\ pc = "wait" \/ result = "exit" =>
          reader # "reading" /\ \E n \in 0..Len(emitted) : TakenIn(n)

------------------------------------------------------------------------------
(* Types *)

USE MaxLinesAssumption, PipeSizeAssumption

(* What the task takes from the queue is a line, or the sentinel.          *)
LEMMA HeadIsLine ==
    ASSUME TypeOK, lineQueue # <<>>, Head(lineQueue) # Eof
    PROVE  Head(lineQueue) \in Line
  BY DEF TypeOK

(* Nothing but lines passes through the pipe and the queue.                *)
LEMMA TypeStep == TypeOK /\ [Next]_vars => TypeOK'
<1> SUFFICES ASSUME TypeOK, [Next]_vars PROVE TypeOK'
  OBVIOUS
<1> USE DEF TypeOK, engineVars, readerVars, taskVars
<1>1. ASSUME NEW level \in Levels, Emit(level) PROVE TypeOK'
  <2>1. <<Len(emitted) + 1, level>> \in Line
    BY <1>1 DEF Emit, Line
  <2>2. QED
    BY <1>1, <2>1 DEF Emit
<1>2. ASSUME NEW how \in {"ok", "error"}, Exit(how) PROVE TypeOK'
  BY <1>2 DEF Exit
<1>3. CASE CloseOutput
  BY <1>3 DEF CloseOutput
<1>4. CASE Dies
  BY <1>4 DEF Dies
<1>5. CASE Read
  BY <1>5 DEF Read
<1>6. CASE ReadEof
  BY <1>6 DEF ReadEof
<1>22. CASE ReadFails
  <2>1. PICK lost \in 1..Len(pipe) : pipe' = SubSeq(pipe, lost + 1, Len(pipe))
    BY <1>22 DEF ReadFails
  <2>2. pipe' \in Seq(Line)
    BY <2>1
  <2>3. lineQueue' \in Seq(Line \cup {Eof})
    BY <1>22 DEF ReadFails
  <2>4. QED
    BY <1>22, <2>2, <2>3 DEF ReadFails
<1>7. CASE GetLine
  BY <1>7, HeadIsLine DEF GetLine, Remember
<1>8. CASE LogFails
  BY <1>8, HeadIsLine DEF LogFails, Remember
<1>9. CASE GetEof
  BY <1>9 DEF GetEof
<1>10. CASE GetTimesOut
  BY <1>10 DEF GetTimesOut
<1>11. CASE Poll
  BY <1>11 DEF Poll
<1>12. CASE PollFails
  BY <1>12 DEF PollFails
<1>13. CASE Terminated
  BY <1>13 DEF Terminated
<1>14. CASE TerminateTimesOut
  BY <1>14 DEF TerminateTimesOut
<1>15. CASE WaitForExit
  BY <1>15 DEF WaitForExit
<1>16. CASE Finally
  BY <1>16 DEF Finally
<1>17. CASE Reap
  BY <1>17 DEF Reap
<1>18. CASE Join
  BY <1>18 DEF Join
<1>19. CASE Flip
  BY <1>19 DEF Flip
<1>20. CASE UNCHANGED vars
  BY <1>20 DEF vars
<1>21. QED
  BY <1>1, <1>2, <1>3, <1>4, <1>5, <1>6, <1>7, <1>8, <1>9, <1>10, <1>11, <1>12,
     <1>13, <1>14, <1>15, <1>16, <1>17, <1>18, <1>19, <1>20, <1>22
     DEF Next, Engine, Reader, Task

------------------------------------------------------------------------------
(* The child and the end of the call *)

(* The child is dead when the call ends, and unsignalled until a poll      *)
(* finds the migration cancelled.                                          *)
LEMMA ControlStep == TypeOK /\ ControlInv /\ [Next]_vars => ControlInv'
<1> SUFFICES ASSUME TypeOK, ControlInv, [Next]_vars PROVE ControlInv'
  OBVIOUS
<1> USE DEF TypeOK, ControlInv, NoOrphan, engineVars, readerVars, taskVars
<1>1. CASE \E level \in Levels : Emit(level)
  BY <1>1 DEF Emit
<1>2. CASE (\E how \in {"ok", "error"} : Exit(how)) \/ CloseOutput \/ Dies
  BY <1>2 DEF Exit, CloseOutput, Dies
<1>3. CASE Reader \/ ReadFails
  BY <1>3 DEF Reader, Read, ReadEof, ReadFails
<1>4. CASE GetLine \/ LogFails
  BY <1>4 DEF GetLine, LogFails
<1>5. CASE GetEof
  BY <1>5 DEF GetEof
<1>6. CASE GetTimesOut \/ Poll \/ PollFails
  BY <1>6 DEF GetTimesOut, Poll, PollFails
<1>7. CASE Terminated \/ TerminateTimesOut \/ WaitForExit
  BY <1>7 DEF Terminated, TerminateTimesOut, WaitForExit
<1>8. CASE Finally \/ Reap \/ Join
  BY <1>8 DEF Finally, Reap, Join
<1>9. CASE Flip \/ UNCHANGED vars
  BY <1>9 DEF Flip, vars
<1>10. QED
  BY <1>1, <1>2, <1>3, <1>4, <1>5, <1>6, <1>7, <1>8, <1>9
     DEF Next, Engine, Task

------------------------------------------------------------------------------
(* What the task remembers *)

(* A line that is appended behind the first n leaves their last ones.      *)
LEMMA IsLastOfFrame ==
    ASSUME NEW line, NEW L, NEW n \in Nat, n <= Len(emitted),
           IsLastOf(line, n, L),
           \A j \in 1..n : emitted'[j] = emitted[j]
    PROVE  IsLastOf(line, n, L)'
  BY DEF IsLastOf, NoLine

(* The next line replaces the last one if its level is in L.               *)
LEMMA IsLastOfNext ==
    ASSUME NEW line, NEW L, NEW n \in Nat, IsLastOf(line, n, L)
    PROVE  IsLastOf(IF emitted[n + 1][2] \in L THEN emitted[n + 1] ELSE line,
                    n + 1, L)
<1>1. 1..(n + 1) = 1..n \cup {n + 1}
  OBVIOUS
<1>2. CASE emitted[n + 1][2] \in L
  BY <1>1, <1>2 DEF IsLastOf
<1>3. CASE emitted[n + 1][2] \notin L
  BY <1>1, <1>3 DEF IsLastOf
<1>4. QED
  BY <1>2, <1>3

(* A step that touches neither the lines written nor what the task         *)
(* remembers of them keeps it remembered.                                  *)
LEMMA RemembersFrame ==
    ASSUME NEW n \in Nat, Remembers(n), UNCHANGED <<emitted, lastLine, lastError>>
    PROVE  Remembers(n)'
  BY DEF Remembers, IsLastOf

(* Nor does one of a reader that has ended already.                        *)
LEMMA TakenInFrame ==
    ASSUME TypeOK, StreamInv, pc = "wait" \/ result = "exit",
           UNCHANGED <<emitted, reader, lastLine, lastError>>
    PROVE  (reader # "reading" /\ \E n \in 0..Len(emitted) : TakenIn(n))'
<1>1. PICK n \in 0..Len(emitted) : TakenIn(n)
  BY DEF StreamInv
<1>2. Remembers(n)'
  BY <1>1, RemembersFrame DEF TakenIn
<1>3. TakenIn(n)' /\ n \in 0..Len(emitted')
  BY <1>1, <1>2 DEF TakenIn
<1>4. QED
  BY <1>3 DEF StreamInv

------------------------------------------------------------------------------
(* The order of the lines *)

(* A step of a task that neither takes a line nor begins to wait, while    *)
(* the lines stay where they are.                                          *)
LEMMA StreamFrame ==
    ASSUME StreamInv, ControlInv, TypeOK,
           UNCHANGED <<emitted, pipe, readerVars, lastLine, lastError>>,
           pc' \in {"get", "poll"} => pc \in {"get", "poll"},
           pc' = "wait" => pc = "wait",
           result' = "exit" => pc = "wait" \/ result = "exit",
           output' = output \/ output' = "closed"
    PROVE  StreamInv'
<1> USE DEF readerVars
<1>1. Numbered'
  BY DEF StreamInv, Numbered
<1>2. ASSUME pc' \in {"get", "poll"}
      PROVE  \E n, q \in 0..Len(emitted') : Conveyed(n, q)'
  <2>1. PICK n, q \in 0..Len(emitted) : Conveyed(n, q)
    BY <1>2 DEF StreamInv
  <2>2. Remembers(n)'
    BY <2>1, RemembersFrame DEF Conveyed
  <2>3. Conveyed(n, q)'
    BY <2>1, <2>2 DEF Conveyed
  <2>4. QED
    BY <2>1, <2>3
<1>3. pc' = "wait" => (reader' = "done" => output' = "closed")
  BY DEF StreamInv
<1>4. ASSUME pc' = "wait" \/ result' = "exit"
      PROVE  (reader # "reading" /\ \E n \in 0..Len(emitted) : TakenIn(n))'
  BY <1>4, TakenInFrame
<1>5. QED
  BY <1>1, <1>2, <1>3, <1>4 DEF StreamInv

(* The engine writes a line: it joins the pipe.                            *)
LEMMA EmitStream ==
    ASSUME TypeOK, ControlInv, StreamInv, NEW level \in Levels, Emit(level)
    PROVE  StreamInv'
<1> DEFINE line == <<Len(emitted) + 1, level>>
<1>1. /\ emitted' = Append(emitted, line) /\ pipe' = Append(pipe, line)
      /\ UNCHANGED <<proc, signal, output, readerVars, taskVars>>
      /\ proc = "running" /\ output = "open"
  BY DEF Emit
<1>2. /\ emitted \in Seq(Line) /\ pipe \in Seq(Line)
      /\ Len(emitted) \in Nat /\ Len(pipe) \in Nat
      /\ Len(emitted') = Len(emitted) + 1 /\ Len(pipe') = Len(pipe) + 1
  BY <1>1 DEF TypeOK
<1>3. /\ \A j \in 1..Len(emitted) : emitted'[j] = emitted[j]
      /\ emitted'[Len(emitted) + 1] = line
  BY <1>1, <1>2
<1>4. /\ \A j \in 1..Len(pipe) : pipe'[j] = pipe[j]
      /\ pipe'[Len(pipe) + 1] = line
  BY <1>1, <1>2
<1>5. Numbered'
  BY <1>2, <1>3 DEF StreamInv, Numbered
<1>6. ASSUME pc' \in {"get", "poll"}
      PROVE  \E n, q \in 0..Len(emitted') : Conveyed(n, q)'
  <2>1. PICK n, q \in 0..Len(emitted) : Conveyed(n, q)
    BY <1>1, <1>6 DEF StreamInv, taskVars
  <2>2. Remembers(n)'
    BY <1>1, <1>2, <1>3, <2>1, IsLastOfFrame DEF Conveyed, Remembers, taskVars
  <2>3. Conveyed(n, q)'
    <3>1. /\ n + q <= Len(emitted')
          /\ reader # "failed" => /\ Len(emitted') = n + q + Len(pipe')
                                  /\ n + q + (Len(pipe) + 1) = Len(emitted) + 1
      BY <1>1, <1>2, <2>1 DEF Conveyed
    <3>2. ASSUME NEW i \in 1..q PROVE lineQueue'[i] = emitted'[n + i]
      <4>1. n + i \in 1..Len(emitted)
        BY <1>2, <2>1 DEF Conveyed
      <4>2. QED
        BY <1>1, <1>3, <2>1, <4>1 DEF Conveyed, readerVars
    <3>3. ASSUME NEW i \in 1..Len(pipe'), reader # "failed"
          PROVE  pipe'[i] = emitted'[n + q + i]
      <4>1. CASE i = Len(pipe) + 1
        BY <1>3, <1>4, <3>1, <3>3, <4>1
      <4>2. CASE i # Len(pipe) + 1
        <5>1. i \in 1..Len(pipe) /\ n + q + i \in 1..Len(emitted)
          BY <1>2, <2>1, <3>3, <4>2 DEF Conveyed
        <5>2. QED
          BY <1>3, <1>4, <2>1, <3>3, <5>1 DEF Conveyed
      <4>3. QED
        BY <4>1, <4>2
    <3>4. reader' # "done"
      BY <1>1, <2>1 DEF Conveyed, readerVars
    <3>5. QED
      BY <1>1, <2>1, <2>2, <3>1, <3>2, <3>3, <3>4 DEF Conveyed, readerVars
  <2>4. QED
    BY <1>2, <2>1, <2>3
<1>7. ASSUME pc' = "wait" \/ result' = "exit"
      PROVE  /\ reader' = "failed"
             /\ \E n \in 0..Len(emitted') : TakenIn(n)'
  <2>1. pc = "wait" /\ reader = "failed"
    BY <1>1, <1>7 DEF StreamInv, ControlInv, TypeOK, taskVars
  <2>2. PICK n \in 0..Len(emitted) : Remembers(n)
    BY <2>1 DEF StreamInv, TakenIn
  <2>3. Remembers(n)'
    BY <1>1, <1>2, <1>3, <2>2, IsLastOfFrame DEF Remembers, taskVars
  <2>4. reader' = "failed" /\ n \in 0..Len(emitted')
    BY <1>1, <1>2, <2>1, <2>2 DEF readerVars
  <2>5. QED
    BY <2>3, <2>4 DEF TakenIn
<1>8. QED
  BY <1>5, <1>6, <1>7 DEF StreamInv

(* The reader moves a line from the head of the pipe to the end of the     *)
(* queue.                                                                  *)
LEMMA ReadStream ==
    ASSUME TypeOK, ControlInv, StreamInv, Read
    PROVE  StreamInv'
<1>1. /\ pipe' = Tail(pipe) /\ lineQueue' = Append(lineQueue, Head(pipe))
      /\ UNCHANGED <<output, emitted, reader, taskVars>>
      /\ reader = "reading" /\ pipe # <<>>
  BY DEF Read
<1>2. /\ pipe \in Seq(Line) /\ lineQueue \in Seq(Line \cup {Eof})
      /\ Len(pipe) \in Nat \ {0} /\ Len(lineQueue) \in Nat
      /\ Len(pipe') = Len(pipe) - 1 /\ Len(lineQueue') = Len(lineQueue) + 1
      /\ Len(emitted) \in Nat
  BY <1>1 DEF TypeOK
<1>3. /\ \A j \in 1..Len(lineQueue) : lineQueue'[j] = lineQueue[j]
      /\ lineQueue'[Len(lineQueue) + 1] = pipe[1]
  BY <1>1, <1>2
<1>4. \A j \in 1..(Len(pipe) - 1) : pipe'[j] = pipe[j + 1]
  BY <1>1, <1>2
<1>5. Numbered'
  BY <1>1 DEF StreamInv, Numbered
<1>6. ASSUME pc' \in {"get", "poll"}
      PROVE  \E n, q \in 0..Len(emitted') : Conveyed(n, q)'
  <2>1. PICK n, q \in 0..Len(emitted) : Conveyed(n, q)
    BY <1>1, <1>6 DEF StreamInv, taskVars
  <2>2. Remembers(n)'
    BY <1>1, <1>2, <2>1, RemembersFrame DEF Conveyed, taskVars
  <2>3. q + 1 \in 0..Len(emitted)
    BY <1>1, <1>2, <2>1 DEF Conveyed
  <2>4. Conveyed(n, q + 1)'
    <3>1. /\ Len(emitted') = n + (q + 1) + Len(pipe')
          /\ Len(lineQueue) = q /\ Len(lineQueue') = q + 1
      BY <1>1, <1>2, <2>1 DEF Conveyed
    <3>2. pipe[1] = emitted[n + q + 1]
      BY <1>1, <1>2, <2>1 DEF Conveyed
    <3>3. ASSUME NEW i \in 1..(q + 1) PROVE lineQueue'[i] = emitted'[n + i]
      <4>1. CASE i = q + 1
        <5>1. n + i = n + q + 1
          BY <1>2, <4>1
        <5>2. QED
          BY <1>1, <1>3, <3>1, <3>2, <4>1, <5>1
      <4>2. CASE i # q + 1
        <5>1. i \in 1..q
          BY <4>2
        <5>2. QED
          BY <1>1, <1>3, <2>1, <3>1, <5>1 DEF Conveyed
      <4>3. QED
        BY <4>1, <4>2
    <3>4. ASSUME NEW i \in 1..Len(pipe')
          PROVE  pipe'[i] = emitted'[n + (q + 1) + i]
      <4>1. i \in 1..(Len(pipe) - 1) /\ i + 1 \in 1..Len(pipe)
        BY <1>2
      <4>2. pipe[i + 1] = emitted[n + q + (i + 1)]
        BY <1>1, <2>1, <4>1 DEF Conveyed
      <4>3. n + q + (i + 1) = n + (q + 1) + i
        BY <1>2, <4>1
      <4>4. QED
        BY <1>1, <1>4, <4>1, <4>2, <4>3
    <3>5. QED
      BY <1>1, <2>2, <3>1, <3>3, <3>4 DEF Conveyed
  <2>5. QED
    BY <1>1, <2>1, <2>3, <2>4
<1>7. ~(pc' = "wait" \/ result' = "exit")
  BY <1>1 DEF StreamInv, taskVars
<1>8. QED
  BY <1>5, <1>6, <1>7 DEF StreamInv

(* The reader finds the closed pipe empty and puts the sentinel.           *)
LEMMA ReadEofStream ==
    ASSUME TypeOK, ControlInv, StreamInv, ReadEof
    PROVE  StreamInv'
<1>1. /\ lineQueue' = Append(lineQueue, Eof) /\ reader' = "done"
      /\ UNCHANGED <<output, pipe, emitted, taskVars>>
      /\ reader = "reading" /\ pipe = <<>> /\ output = "closed"
  BY DEF ReadEof, engineVars
<1>2. /\ lineQueue \in Seq(Line \cup {Eof}) /\ Len(lineQueue) \in Nat
      /\ Len(lineQueue') = Len(lineQueue) + 1
      /\ Len(emitted) \in Nat
  BY <1>1 DEF TypeOK
<1>3. /\ \A j \in 1..Len(lineQueue) : lineQueue'[j] = lineQueue[j]
      /\ lineQueue'[Len(lineQueue) + 1] = Eof
  BY <1>1, <1>2
<1>4. Numbered'
  BY <1>1 DEF StreamInv, Numbered
<1>5. ASSUME pc' \in {"get", "poll"}
      PROVE  \E n, q \in 0..Len(emitted') : Conveyed(n, q)'
  <2>1. PICK n, q \in 0..Len(emitted) : Conveyed(n, q)
    BY <1>1, <1>5 DEF StreamInv, taskVars
  <2>2. Remembers(n)'
    BY <1>1, <2>1, RemembersFrame DEF Conveyed, taskVars
  <2>3. Conveyed(n, q)'
    BY <1>1, <1>2, <1>3, <2>1, <2>2 DEF Conveyed
  <2>4. QED
    BY <1>1, <2>1, <2>3
<1>6. ~(pc' = "wait" \/ result' = "exit")
  BY <1>1 DEF StreamInv, taskVars
<1>7. QED
  BY <1>4, <1>5, <1>6 DEF StreamInv

(* The reader fails and puts the sentinel: what it queued before stays.    *)
LEMMA ReadFailsStream ==
    ASSUME TypeOK, ControlInv, StreamInv, ReadFails
    PROVE  StreamInv'
<1>1. /\ lineQueue' = Append(lineQueue, Eof) /\ reader' = "failed"
      /\ UNCHANGED <<output, emitted, taskVars>>
      /\ reader = "reading"
  BY DEF ReadFails
<1>2. /\ lineQueue \in Seq(Line \cup {Eof}) /\ Len(lineQueue) \in Nat
      /\ Len(lineQueue') = Len(lineQueue) + 1
      /\ Len(emitted) \in Nat
  BY <1>1 DEF TypeOK
<1>3. /\ \A j \in 1..Len(lineQueue) : lineQueue'[j] = lineQueue[j]
      /\ lineQueue'[Len(lineQueue) + 1] = Eof
  BY <1>1, <1>2
<1>4. Numbered'
  BY <1>1 DEF StreamInv, Numbered
<1>5. ASSUME pc' \in {"get", "poll"}
      PROVE  \E n, q \in 0..Len(emitted') : Conveyed(n, q)'
  <2>1. PICK n, q \in 0..Len(emitted) : Conveyed(n, q)
    BY <1>1, <1>5 DEF StreamInv, taskVars
  <2>2. Remembers(n)'
    BY <1>1, <2>1, RemembersFrame DEF Conveyed, taskVars
  <2>3. Conveyed(n, q)'
    BY <1>1, <1>2, <1>3, <2>1, <2>2 DEF Conveyed
  <2>4. QED
    BY <1>1, <2>1, <2>3
<1>6. ~(pc' = "wait" \/ result' = "exit")
  BY <1>1 DEF StreamInv, taskVars
<1>7. QED
  BY <1>4, <1>5, <1>6 DEF StreamInv

(* Where the head of the queue stands among the lines written.             *)
LEMMA HeadIsNext ==
    ASSUME TypeOK, NEW n \in 0..Len(emitted), NEW q \in 0..Len(emitted),
           Conveyed(n, q), lineQueue # <<>>
    PROVE  IF Head(lineQueue) = Eof
             THEN /\ reader # "reading"
                  /\ reader = "done" => n = Len(emitted) /\ output = "closed"
             ELSE q > 0 /\ n + 1 <= Len(emitted) /\ Head(lineQueue) = emitted[n + 1]
<1>1. /\ Len(lineQueue) \in Nat \ {0} /\ Head(lineQueue) = lineQueue[1]
      /\ Len(pipe) \in Nat /\ Len(emitted) \in Nat
  BY DEF TypeOK
<1>2. CASE q > 0
  <2>1. Head(lineQueue) = emitted[n + 1] /\ n + 1 \in 1..Len(emitted)
    BY <1>1, <1>2 DEF Conveyed
  <2>2. emitted[n + 1] \in Line
    BY <2>1 DEF TypeOK
  <2>3. emitted[n + 1] # Eof
    BY <2>2 DEF Line, Levels, Eof
  <2>4. QED
    BY <1>2, <2>1, <2>3
<1>3. CASE q = 0
  <2>1. /\ reader # "reading" /\ lineQueue[1] = Eof
        /\ reader = "done" => pipe = <<>> /\ output = "closed"
    BY <1>1, <1>3 DEF Conveyed, TypeOK
  <2>2. reader = "done" => Len(emitted) = n
    BY <1>1, <1>3, <2>1 DEF Conveyed
  <2>3. QED
    BY <1>1, <2>1, <2>2
<1>4. QED
  BY <1>1, <1>2, <1>3

(* The task takes a line: it is the one after those it took before.        *)
LEMMA GetLineStream ==
    ASSUME TypeOK, ControlInv, StreamInv, GetLine
    PROVE  StreamInv'
<1>1. /\ pc = "get" /\ pc' \in {"get", "poll"} /\ lineQueue # <<>>
      /\ Head(lineQueue) # Eof /\ lineQueue' = Tail(lineQueue)
      /\ UNCHANGED <<output, pipe, emitted, reader, result>>
  BY DEF GetLine, engineVars
<1>2. /\ lineQueue \in Seq(Line \cup {Eof}) /\ Len(lineQueue) \in Nat \ {0}
      /\ Len(lineQueue') = Len(lineQueue) - 1
      /\ \A j \in 1..(Len(lineQueue) - 1) : lineQueue'[j] = lineQueue[j + 1]
      /\ Len(emitted) \in Nat /\ Len(pipe) \in Nat
  BY <1>1 DEF TypeOK
<1>3. PICK n, q \in 0..Len(emitted) : Conveyed(n, q)
  BY <1>1 DEF StreamInv
<1>4. q > 0 /\ n + 1 <= Len(emitted) /\ Head(lineQueue) = emitted[n + 1]
  BY <1>1, <1>3, HeadIsNext
<1>5. Remembers(n + 1)'
  <2>1. emitted[n + 1][2] \in Levels
    BY <1>1, <1>4, HeadIsLine DEF Line
  <2>2. /\ lastLine' = IF emitted[n + 1][2] \in {"info", "error"}
                         THEN emitted[n + 1] ELSE lastLine
        /\ lastError' = IF emitted[n + 1][2] \in {"error"}
                          THEN emitted[n + 1] ELSE lastError
    BY <1>4, <2>1 DEF GetLine, Remember, Levels
  <2>3. n \in Nat /\ Remembers(n)
    BY <1>2, <1>3 DEF Conveyed
  <2>4. IsLastOf(lastLine', n + 1, {"info", "error"})
    BY <2>2, <2>3, IsLastOfNext DEF Remembers
  <2>5. IsLastOf(lastError', n + 1, {"error"})
    BY <2>2, <2>3, IsLastOfNext DEF Remembers
  <2>6. QED
    BY <1>1, <2>4, <2>5 DEF Remembers, IsLastOf
<1>6. Conveyed(n + 1, q - 1)'
  <2>1. /\ (n + 1) + (q - 1) <= Len(emitted')
        /\ reader' # "failed" => Len(emitted') = (n + 1) + (q - 1) + Len(pipe')
        /\ Len(lineQueue') = IF reader' = "reading" THEN q - 1 ELSE (q - 1) + 1
    <3>1. (n + 1) + (q - 1) = n + q /\ (q - 1) + 1 = q
      BY <1>2, <1>3
    <3>2. /\ n + q <= Len(emitted)
          /\ reader # "failed" => Len(emitted) = n + q + Len(pipe)
          /\ Len(lineQueue) = IF reader = "reading" THEN q ELSE q + 1
      BY <1>3 DEF Conveyed
    <3>3. Len(lineQueue') = IF reader = "reading" THEN q - 1 ELSE q
      BY <1>2, <1>3, <3>2
    <3>4. QED
      BY <1>1, <3>1, <3>2, <3>3
  <2>2. ASSUME NEW i \in 1..(q - 1)
        PROVE  lineQueue'[i] = emitted'[(n + 1) + i]
    <3>1. i \in 1..(Len(lineQueue) - 1) /\ i + 1 \in 1..q
      BY <1>2, <1>3 DEF Conveyed
    <3>2. lineQueue[i + 1] = emitted[n + (i + 1)] /\ n + (i + 1) = (n + 1) + i
      BY <1>3, <3>1 DEF Conveyed
    <3>3. QED
      BY <1>1, <1>2, <3>1, <3>2
  <2>3. ASSUME NEW i \in 1..Len(pipe'), reader' # "failed"
        PROVE  pipe'[i] = emitted'[(n + 1) + (q - 1) + i]
    <3>1. pipe[i] = emitted[n + q + i] /\ n + q + i = (n + 1) + (q - 1) + i
      BY <1>1, <1>2, <1>3, <2>3 DEF Conveyed
    <3>2. QED
      BY <1>1, <3>1
  <2>4. ASSUME reader' # "reading"
        PROVE  /\ reader' = "done" => pipe' = <<>> /\ output' = "closed"
               /\ lineQueue'[(q - 1) + 1] = Eof
    <3>1. /\ reader = "done" => pipe = <<>> /\ output = "closed"
          /\ lineQueue[q + 1] = Eof
      BY <1>1, <1>3, <2>4 DEF Conveyed
    <3>2. Len(lineQueue) = q + 1 /\ q \in 1..(Len(lineQueue) - 1) /\ (q - 1) + 1 = q
      BY <1>1, <1>3, <1>4, <2>4 DEF Conveyed
    <3>3. QED
      BY <1>1, <1>2, <3>1, <3>2
  <2>5. QED
    BY <1>5, <2>1, <2>2, <2>3, <2>4 DEF Conveyed
<1>7. n + 1 \in 0..Len(emitted') /\ q - 1 \in 0..Len(emitted')
  BY <1>1, <1>2, <1>4
<1>8. Numbered'
  BY <1>1 DEF StreamInv, Numbered
<1>9. pc' # "wait" /\ result' # "exit"
  BY <1>1 DEF ControlInv
<1>10. QED
  BY <1>6, <1>7, <1>8, <1>9 DEF StreamInv

(* The task meets the sentinel: every line the reader queued was taken in  *)
(* before it.                                                              *)
LEMMA GetEofStream ==
    ASSUME TypeOK, ControlInv, StreamInv, GetEof
    PROVE  StreamInv'
<1>1. /\ pc = "get" /\ pc' = "wait" /\ lineQueue # <<>> /\ Head(lineQueue) = Eof
      /\ UNCHANGED <<output, emitted, reader, lastLine, lastError>>
  BY DEF GetEof, engineVars
<1>2. PICK n, q \in 0..Len(emitted) : Conveyed(n, q)
  BY <1>1 DEF StreamInv
<1>3. /\ reader # "reading" /\ reader \in {"reading", "done", "failed"}
      /\ reader = "done" => n = Len(emitted) /\ output = "closed"
  BY <1>1, <1>2, HeadIsNext DEF TypeOK
<1>4. n \in Nat /\ Remembers(n)
  BY <1>2, <1>3 DEF Conveyed, TypeOK
<1>5. TakenIn(n)' /\ n \in 0..Len(emitted')
  <2>1. Remembers(n)'
    BY <1>1, <1>4, RemembersFrame
  <2>2. QED
    BY <1>1, <1>2, <1>3, <2>1 DEF TakenIn
<1>6. Numbered'
  BY <1>1 DEF StreamInv, Numbered
<1>7. QED
  BY <1>1, <1>3, <1>5, <1>6 DEF StreamInv

(* A step that leaves the loop without reporting an exit code promises     *)
(* nothing about the lines.                                                *)
LEMMA LeaveStream ==
    ASSUME StreamInv, UNCHANGED emitted, pc' \notin {"get", "poll", "wait"},
           result' = "exit" => /\ result = "exit"
                               /\ UNCHANGED <<reader, lastLine, lastError>>,
           TypeOK
    PROVE  StreamInv'
<1>1. Numbered'
  BY DEF StreamInv, Numbered
<1>2. result' = "exit" =>
        (reader # "reading" /\ \E n \in 0..Len(emitted) : TakenIn(n))'
  BY TakenInFrame
<1>3. QED
  BY <1>1, <1>2 DEF StreamInv

(* No step loses, repeats or reorders a line on its way to the task.       *)
LEMMA StreamStep ==
    TypeOK /\ ControlInv /\ StreamInv /\ [Next]_vars => StreamInv'
<1> SUFFICES ASSUME TypeOK, ControlInv, StreamInv, [Next]_vars PROVE StreamInv'
  OBVIOUS
<1>1. CASE \E level \in Levels : Emit(level)
  BY <1>1, EmitStream
<1>2. CASE (\E how \in {"ok", "error"} : Exit(how)) \/ CloseOutput \/ Dies
  BY <1>2, StreamFrame DEF Exit, CloseOutput, Dies, taskVars
<1>3. CASE Reader \/ ReadFails
  BY <1>3, ReadStream, ReadEofStream, ReadFailsStream DEF Reader
<1>4. CASE GetLine
  BY <1>4, GetLineStream
<1>5. CASE GetEof
  BY <1>5, GetEofStream
<1>6. CASE GetTimesOut
  BY <1>6, StreamFrame DEF GetTimesOut, engineVars
<1>7. CASE Poll
  BY <1>7, StreamFrame DEF Poll
<1>8. CASE LogFails
  BY <1>8, LeaveStream DEF LogFails, engineVars, readerVars
<1>9. CASE PollFails \/ Terminated
  BY <1>9, LeaveStream DEF PollFails, Terminated, engineVars, readerVars
<1>10. CASE TerminateTimesOut
  BY <1>10, LeaveStream DEF TerminateTimesOut, readerVars
<1>11. CASE WaitForExit
  BY <1>11, StreamFrame DEF WaitForExit, engineVars
<1>12. CASE Finally \/ Reap \/ Join
  BY <1>12, LeaveStream DEF Finally, Reap, Join, engineVars, readerVars
<1>13. CASE Flip \/ UNCHANGED vars
  BY <1>13, StreamFrame DEF Flip, vars, engineVars, taskVars
<1>14. QED
  BY <1>1, <1>2, <1>3, <1>4, <1>5, <1>6, <1>7, <1>8, <1>9, <1>10, <1>11, <1>12,
     <1>13 DEF Next, Engine, Task

------------------------------------------------------------------------------
(* The theorems *)

StreamIInv == TypeOK /\ ControlInv /\ StreamInv

(* The engine has just been started and nothing was written.               *)
LEMMA InitStream == Init => StreamIInv
<1> SUFFICES ASSUME Init PROVE StreamIInv
  OBVIOUS
<1> USE DEF Init
<1>1. TypeOK
  <2>1. /\ <<>> \in Seq(Line) /\ <<>> \in Seq(Line \cup {Eof})
        /\ NoLine \in Line \cup {NoLine}
    OBVIOUS
  <2>2. QED
    BY <2>1 DEF TypeOK
<1>2. ControlInv
  BY DEF ControlInv, NoOrphan
<1>3. Numbered /\ Len(emitted) = 0
  BY DEF Numbered
<1>4. Conveyed(0, 0)
  BY DEF Conveyed, Remembers, IsLastOf
<1>5. QED
  BY <1>1, <1>2, <1>3, <1>4 DEF StreamIInv, StreamInv

(* The inductive invariant: the lines written are those taken in, those    *)
(* queued and those in the pipe, whatever the engine and the faults do.    *)
THEOREM StreamInvariance == Spec => []StreamIInv
<1>1. StreamIInv /\ [Next]_vars => StreamIInv'
  BY TypeStep, ControlStep, StreamStep DEF StreamIInv
<1>2. QED
  BY <1>1, InitStream, PTL DEF Spec

(* Every variable of a call keeps its type, for any length and any pipe.   *)
THEOREM StreamTypeCorrect == Spec => []TypeOK
<1>1. StreamIInv => TypeOK
  BY DEF StreamIInv
<1>2. QED
  BY <1>1, StreamInvariance, PTL

(* The finally block of _stream_engine leaves no child behind.             *)
THEOREM NoEngineIsOrphaned == Spec => []NoOrphan
<1>1. StreamIInv => NoOrphan
  BY DEF StreamIInv, ControlInv
<1>2. QED
  BY <1>1, StreamInvariance, PTL

(* The line the task remembers is the one LastOf names.                    *)
LEMMA LastIsUnique ==
    ASSUME TypeOK, NEW n \in 0..Len(emitted), NEW line, NEW L, IsLastOf(line, n, L)
    PROVE  line = LastOf({i \in 1..n : emitted[i][2] \in L})
<1> DEFINE S == {i \in 1..n : emitted[i][2] \in L}
<1>1. Len(emitted) \in Nat
  BY DEF TypeOK
<1>2. CASE line = NoLine /\ \A j \in 1..n : emitted[j][2] \notin L
  <2>1. S = {}
    BY <1>1, <1>2
  <2>2. QED
    BY <1>2, <2>1 DEF LastOf
<1>3. CASE \E i \in 1..n :
              /\ line = emitted[i] /\ emitted[i][2] \in L
              /\ \A j \in 1..n : emitted[j][2] \in L => j <= i
  <2>1. PICK i \in S : line = emitted[i] /\ \A j \in S : j <= i
    BY <1>1, <1>3
  <2>2. \A k \in S : (\A j \in S : j <= k) => k = i
    BY <1>1, <2>1
  <2>3. (CHOOSE k \in S : \A j \in S : j <= k) = i
    BY <2>1, <2>2
  <2>4. S # {} /\ LastOf(S) = emitted[i]
    BY <2>1, <2>3 DEF LastOf
  <2>5. QED
    BY <2>1, <2>4
<1>4. QED
  BY <1>2, <1>3 DEF IsLastOf

(* What the task remembers of the first n lines is what Heard says.        *)
LEMMA RemembersIsHeard ==
    ASSUME TypeOK, NEW n \in 0..Len(emitted), Remembers(n)
    PROVE  Heard(n)
<1>1. \A i \in 1..n : emitted[i][2] \in Levels
  BY DEF TypeOK, Line
<1>2. /\ {i \in 1..n : emitted[i][2] # "blank"}
           = {i \in 1..n : emitted[i][2] \in {"info", "error"}}
      /\ {i \in 1..n : emitted[i][2] = "error"}
           = {i \in 1..n : emitted[i][2] \in {"error"}}
  BY <1>1 DEF Levels
<1>3. QED
  BY <1>2, LastIsUnique DEF Remembers, Heard

(* The exit code comes with the engine's last words, all of them unless    *)
(* the reader failed, and the code is the engine's own.                    *)
THEOREM ExitCodeComesLast == Spec => []ExitIsTheWholeStory
<1>1. StreamIInv => ExitIsTheWholeStory
  <2> SUFFICES ASSUME StreamIInv, result = "exit"
               PROVE  /\ signal = "none"
                      /\ IF reader = "failed"
                           THEN \E n \in 0..Len(emitted) : Heard(n)
                           ELSE Heard(Len(emitted))
    BY DEF ExitIsTheWholeStory
  <2>1. signal = "none" /\ TypeOK
    BY DEF StreamIInv, ControlInv
  <2>2. PICK n \in 0..Len(emitted) : TakenIn(n)
    BY DEF StreamIInv, StreamInv
  <2>3. Heard(n)
    BY <2>1, <2>2, RemembersIsHeard DEF TakenIn
  <2>4. QED
    BY <2>1, <2>2, <2>3 DEF TakenIn
<1>2. QED
  BY <1>1, StreamInvariance, PTL

------------------------------------------------------------------------------
(* The refinement *)

USE DEF Run!Next, Run!Flip, Run!Exits, Run!Cancels, Run!Raises, Run!runVars

(* A step that decides nothing.                                            *)
LEMMA SameOutcome ==
    ASSUME UNCHANGED <<Outcome, cancelled>>
    PROVE  [Run!Next]_(Run!runVars)
  OBVIOUS

(* Every step of a call is one of EngineRun, or invisible to its caller.   *)
LEMMA RunStep == TypeOK /\ ControlInv /\ [Next]_vars => [Run!Next]_(Run!runVars)
<1> SUFFICES ASSUME TypeOK, ControlInv, [Next]_vars
             PROVE  [Run!Next]_(Run!runVars)
  OBVIOUS
<1> USE DEF TypeOK, ControlInv, Outcome, engineVars, readerVars, taskVars
<1>1. CASE \E level \in Levels : Emit(level)
  BY <1>1 DEF Emit
<1>2. CASE (\E how \in {"ok", "error"} : Exit(how)) \/ CloseOutput \/ Dies
  BY <1>2 DEF Exit, CloseOutput, Dies
<1>3. CASE Reader \/ ReadFails
  BY <1>3 DEF Reader, Read, ReadEof, ReadFails
<1>4. CASE GetLine \/ GetEof \/ GetTimesOut
  BY <1>4 DEF GetLine, GetEof, GetTimesOut
<1>5. CASE LogFails \/ PollFails
  BY <1>5 DEF LogFails, PollFails
<1>6. CASE Poll
  BY <1>6 DEF Poll
<1>7. CASE Terminated \/ TerminateTimesOut
  BY <1>7 DEF Terminated, TerminateTimesOut
<1>8. CASE WaitForExit
  BY <1>8 DEF WaitForExit
<1>9. CASE Finally \/ Reap \/ Join
  BY <1>9 DEF Finally, Reap, Join
<1>10. CASE Flip
  BY <1>10 DEF Flip
<1>11. CASE UNCHANGED vars
  BY <1>11 DEF vars
<1>12. QED
  BY <1>1, <1>2, <1>3, <1>4, <1>5, <1>6, <1>7, <1>8, <1>9, <1>10, <1>11
     DEF Next, Engine, Task

(* _stream_engine tells _run_table what EngineRun allows: success only of  *)
(* an engine that succeeded, "cancelled" only of a cancelled migration.    *)
THEOREM CallImplementsEngineRun == Spec => ImplementsEngineRun
<1>1. Init => Run!Init
  BY DEF Init, Run!Init, Outcome
<1>2. StreamIInv /\ [Next]_vars => [Run!Next]_(Run!runVars)
  BY RunStep DEF StreamIInv
<1>3. QED
  BY <1>1, <1>2, StreamInvariance, PTL DEF Spec, ImplementsEngineRun, Run!Spec

==============================================================================

----------------------------- MODULE EngineStream -----------------------------
(***************************************************************************)
(* One call of _stream_engine in app/worker/tasks.py: the engine process,  *)
(* its output pipe, the reader thread that moves lines into a queue, and   *)
(* the loop of the task that stores them, polls for a cancellation and     *)
(* takes the engine down.                                                  *)
(***************************************************************************)
EXTENDS Naturals, Sequences

CONSTANTS MaxLines,     \* bound: lines the engine writes
          PipeSize,     \* lines the pipe holds before the engine blocks
          EngineFaults  \* what an engine or the database may do wrong

ASSUME MaxLinesAssumption == MaxLines \in Nat
ASSUME PipeSizeAssumption == PipeSize \in Nat \ {0}

VARIABLES
    proc,       \* "running", or how the engine ended
    signal,     \* the strongest signal it was sent
    output,     \* its end of the pipe: "open" or "closed"
    pipe,       \* lines written and not yet read
    emitted,    \* history: all lines written
    reader,     \* the reader thread: "reading", "done" at the end of the
                \* pipe, or "failed" on output it cannot decode
    lineQueue,  \* line_queue: lines, and Eof at the end
    pc,         \* where the task is
    lastLine,   \* last_line
    lastError,  \* last_error
    result,     \* how the call ends: "none" yet, "exit", "cancelled", "raised"
    cancelled   \* the migration's committed status is CANCELLED

engineVars == <<proc, signal, output, pipe, emitted>>
readerVars == <<reader, lineQueue>>
taskVars == <<pc, lastLine, lastError, result>>
vars == <<engineVars, readerVars, taskVars, cancelled>>

(* A line is its number and its level; an empty line is stored nowhere.    *)
Levels == {"info", "error", "blank"}
Line == (1..MaxLines) \X Levels
NoLine == <<0, "blank">>
Eof == <<0, "eof">>

TypeOK ==
    /\ proc \in {"running", "ok", "error", "killed"}
    /\ signal \in {"none", "term", "kill"}
    /\ output \in {"open", "closed"}
    /\ pipe \in Seq(Line)
    /\ emitted \in Seq(Line)
    /\ reader \in {"reading", "done", "failed"}
    /\ lineQueue \in Seq(Line \cup {Eof})
    /\ pc \in {"get", "poll", "terminate", "wait", "finally", "reap", "join",
               "returned"}
    /\ lastLine \in Line \cup {NoLine}
    /\ lastError \in Line \cup {NoLine}
    /\ result \in {"none", "exit", "cancelled", "raised"}
    /\ cancelled \in BOOLEAN

Init ==
    /\ proc = "running" /\ signal = "none" /\ output = "open"
    /\ pipe = <<>> /\ emitted = <<>>
    /\ reader = "reading" /\ lineQueue = <<>>
    /\ pc = "get" /\ lastLine = NoLine /\ lastError = NoLine
    /\ result = "none"
    /\ cancelled = FALSE

------------------------------------------------------------------------------
(* The engine *)

(* It blocks while the pipe is full.                                       *)
Emit(level) ==
    /\ proc = "running" /\ output = "open"
    /\ Len(pipe) < PipeSize
    /\ Len(emitted) < MaxLines
    /\ LET line == <<Len(emitted) + 1, level>> IN
       /\ pipe' = Append(pipe, line)
       /\ emitted' = Append(emitted, line)
    /\ UNCHANGED <<proc, signal, output, readerVars, taskVars, cancelled>>

(* It closes its output and goes on working.                               *)
CloseOutput ==
    /\ "closes_output" \in EngineFaults
    /\ proc = "running" /\ output = "open"
    /\ output' = "closed"
    /\ UNCHANGED <<proc, signal, pipe, emitted, readerVars, taskVars, cancelled>>

(* It ends by itself, or because it was asked to terminate.                *)
Exit(how) ==
    /\ proc = "running"
    /\ proc' = how
    /\ output' = "closed"
    /\ UNCHANGED <<signal, pipe, emitted, readerVars, taskVars, cancelled>>

(* A SIGKILL takes effect some time after it was sent.                     *)
Dies ==
    /\ proc = "running" /\ signal = "kill"
    /\ proc' = "killed"
    /\ output' = "closed"
    /\ UNCHANGED <<signal, pipe, emitted, readerVars, taskVars, cancelled>>

------------------------------------------------------------------------------
(* The reader thread *)

(* A line moves from the pipe to the queue, which has no bound.            *)
Read ==
    /\ reader = "reading"
    /\ pipe # <<>>
    /\ pipe' = Tail(pipe)
    /\ lineQueue' = Append(lineQueue, Head(pipe))
    /\ UNCHANGED <<proc, signal, output, emitted, reader, taskVars, cancelled>>

(* Mutant of ReadEof: the sentinel overtakes the lines still in the pipe.  *)
ReadEofEarly ==
    /\ reader = "reading"
    /\ output = "closed"
    /\ reader' = "done"
    /\ lineQueue' = Append(lineQueue, Eof)
    /\ UNCHANGED <<engineVars, taskVars, cancelled>>

(* The pipe is at its end: the finally block puts the sentinel.            *)
ReadEof ==
    /\ reader = "reading"
    /\ pipe = <<>> /\ output = "closed"
    /\ reader' = "done"
    /\ lineQueue' = Append(lineQueue, Eof)
    /\ UNCHANGED <<engineVars, taskVars, cancelled>>

(* The text of some lines cannot be decoded, which text=True makes an      *)
(* exception: those lines are lost, and the same finally block puts the    *)
(* sentinel.  The pipe is open, and nobody reads it any more.              *)
ReadFails ==
    /\ "undecodable" \in EngineFaults
    /\ reader = "reading"
    /\ \E lost \in 1..Len(pipe) : pipe' = SubSeq(pipe, lost + 1, Len(pipe))
    /\ reader' = "failed"
    /\ lineQueue' = Append(lineQueue, Eof)
    /\ UNCHANGED <<proc, signal, output, emitted, taskVars, cancelled>>

------------------------------------------------------------------------------
(* The loop of the task *)

(* What the task remembers of a line: nothing of an empty one.             *)
Remember(line) ==
    /\ lastLine' = IF line[2] = "blank" THEN lastLine ELSE line
    /\ lastError' = IF line[2] = "error" THEN line ELSE lastError

(* The line is stored; the status is polled if two seconds have passed     *)
(* since the last poll.                                                    *)
GetLine ==
    /\ pc = "get"
    /\ lineQueue # <<>> /\ Head(lineQueue) # Eof
    /\ lineQueue' = Tail(lineQueue)
    /\ Remember(Head(lineQueue))
    /\ pc' \in {"get", "poll"}
    /\ UNCHANGED <<engineVars, reader, result, cancelled>>

(* The row is gone, the database fails, or _parse_log_line raises because  *)
(* the line is JSON and not an object.                                     *)
LogFails ==
    /\ "database_fails" \in EngineFaults
    /\ pc = "get"
    /\ lineQueue # <<>> /\ Head(lineQueue) # Eof
    /\ Head(lineQueue)[2] # "blank"
    /\ lineQueue' = Tail(lineQueue)
    /\ Remember(Head(lineQueue))
    /\ pc' = "finally"
    /\ result' = "raised"
    /\ UNCHANGED <<engineVars, reader, cancelled>>

(* Mutant of GetEof: the sentinel is taken for a line.                     *)
GetEofAsLine ==
    /\ pc = "get"
    /\ lineQueue # <<>> /\ Head(lineQueue) = Eof
    /\ lineQueue' = Tail(lineQueue)
    /\ Remember(Head(lineQueue))
    /\ UNCHANGED <<engineVars, reader, pc, result, cancelled>>

(* The sentinel: the loop takes the stream for closed.                     *)
GetEof ==
    /\ pc = "get"
    /\ lineQueue # <<>> /\ Head(lineQueue) = Eof
    /\ lineQueue' = Tail(lineQueue)
    /\ pc' = "wait"
    /\ UNCHANGED <<engineVars, reader, lastLine, lastError, result, cancelled>>

(* Mutant of GetTimesOut: an idle tick goes back to the queue.             *)
GetAgain ==
    /\ pc = "get"
    /\ lineQueue = <<>>
    /\ UNCHANGED vars

(* Two seconds without a line: that is always time for a poll.             *)
GetTimesOut ==
    /\ pc = "get"
    /\ lineQueue = <<>>
    /\ pc' = "poll"
    /\ UNCHANGED <<engineVars, readerVars, lastLine, lastError, result, cancelled>>

(* The status cannot be read.                                              *)
PollFails ==
    /\ "database_fails" \in EngineFaults
    /\ pc = "poll"
    /\ pc' = "finally"
    /\ result' = "raised"
    /\ UNCHANGED <<engineVars, readerVars, lastLine, lastError, cancelled>>

(* Mutant of Poll: the answer of an earlier poll, or none, is used.        *)
PollUnchecked ==
    /\ pc = "poll"
    /\ pc' = "terminate"
    /\ signal' = "term"
    /\ UNCHANGED <<proc, output, pipe, emitted, readerVars, lastLine, lastError,
                   result, cancelled>>

(* The status is read in a fresh session.                                  *)
Poll ==
    /\ pc = "poll"
    /\ IF cancelled
         THEN pc' = "terminate" /\ signal' = "term"
         ELSE pc' = "get" /\ UNCHANGED signal
    /\ UNCHANGED <<proc, output, pipe, emitted, readerVars, lastLine, lastError,
                   result, cancelled>>

(* It terminates within ten seconds.                                       *)
Terminated ==
    /\ pc = "terminate"
    /\ proc # "running"
    /\ pc' = "finally"
    /\ result' = "cancelled"
    /\ UNCHANGED <<engineVars, readerVars, lastLine, lastError, cancelled>>

(* It does not, and is killed; nobody waits for that to happen here.       *)
TerminateTimesOut ==
    /\ pc = "terminate"
    /\ proc = "running"
    /\ signal' = "kill"
    /\ pc' = "finally"
    /\ result' = "cancelled"
    /\ UNCHANGED <<proc, output, pipe, emitted, readerVars, lastLine, lastError,
                   cancelled>>

(* The task waits for the exit code, without a timeout and without looking *)
(* at the status again.                                                    *)
WaitForExit ==
    /\ pc = "wait"
    /\ proc # "running"
    /\ pc' = "finally"
    /\ result' = "exit"
    /\ UNCHANGED <<engineVars, readerVars, lastLine, lastError, cancelled>>

(* Mutant of Finally: only the pipe is released.                           *)
FinallyForgets ==
    /\ pc = "finally"
    /\ pc' = "join"
    /\ UNCHANGED <<engineVars, readerVars, lastLine, lastError, result, cancelled>>

(* The finally block, whichever way the loop ended.                        *)
Finally ==
    /\ pc = "finally"
    /\ IF proc = "running"
         THEN pc' = "reap" /\ signal' = "kill"
         ELSE pc' = "join" /\ UNCHANGED signal
    /\ UNCHANGED <<proc, output, pipe, emitted, readerVars, lastLine, lastError,
                   result, cancelled>>

Reap ==
    /\ pc = "reap"
    /\ proc # "running"
    /\ pc' = "join"
    /\ UNCHANGED <<engineVars, readerVars, lastLine, lastError, result, cancelled>>

(* The pipe is closed under the reader; the call returns when the reader   *)
(* has ended, or five seconds later anyway.                                *)
Join ==
    /\ pc = "join"
    /\ pipe' = <<>>
    /\ output' = "closed"
    /\ pc' = "returned"
    /\ UNCHANGED <<proc, signal, emitted, readerVars, lastLine, lastError, result,
                   cancelled>>

------------------------------------------------------------------------------
(* The API cancels the migration, or starts a cancelled one again.         *)
Flip ==
    /\ pc # "returned"
    /\ cancelled' = ~cancelled
    /\ UNCHANGED <<engineVars, readerVars, taskVars>>

Engine ==
    \/ \E level \in Levels : Emit(level)
    \/ \E how \in {"ok", "error"} : Exit(how)
    \/ CloseOutput

Reader == Read \/ ReadEof

Task ==
    \/ GetLine \/ LogFails \/ GetEof \/ GetTimesOut \/ Poll \/ PollFails
    \/ Terminated \/ TerminateTimesOut \/ WaitForExit
    \/ Finally \/ Reap \/ Join

Next == Engine \/ Dies \/ Reader \/ ReadFails \/ Task \/ Flip

Spec == Init /\ [][Next]_vars

(* The threads of the worker run and a SIGKILL is delivered; the engine    *)
(* need not do anything.                                                   *)
FairSpec == Spec /\ WF_vars(Task) /\ WF_vars(Reader) /\ WF_vars(Dies)

------------------------------------------------------------------------------
(* The engine does not outlive the call, whichever way the call ends: the  *)
(* finally block of tasks.py reaps it.                                     *)
NoOrphan == pc \in {"join", "returned"} => proc # "running"

LastOf(S) == IF S = {} THEN NoLine ELSE emitted[CHOOSE i \in S : \A j \in S : j <= i]

(* last_line and last_error are the engine's last words, as far as its     *)
(* first n lines go.                                                       *)
Heard(n) ==
    /\ lastLine = LastOf({i \in 1..n : emitted[i][2] # "blank"})
    /\ lastError = LastOf({i \in 1..n : emitted[i][2] = "error"})

(* The exit code is reported only after every line was taken in, in the    *)
(* order it was written, unless the reader thread failed on some line:     *)
(* then the report knows the lines before some point and none after it.    *)
(* Nobody has signalled the engine, so the code is its own.                *)
ExitIsTheWholeStory ==
    result = "exit" =>
        /\ signal = "none"
        /\ IF reader = "failed" THEN \E n \in 0..Len(emitted) : Heard(n)
                                ELSE Heard(Len(emitted))

(* The call is one step of the worker: it reports success only of an       *)
(* engine that succeeded, and "cancelled" only if a poll found the         *)
(* migration cancelled.                                                    *)
Outcome ==
    CASE result = "cancelled" \/ pc = "terminate" -> "cancelled"
      [] result = "raised" -> "raised"
      [] result = "exit" /\ proc = "ok" -> "succeeded"
      [] result = "exit" /\ proc # "ok" -> "failed"
      [] OTHER -> "running"

Run == INSTANCE EngineRun WITH outcome <- Outcome
ImplementsEngineRun == Run!Spec

(* A cancellation that stands ends the call, however silent or stubborn    *)
(* the engine is: the loop polls on the clock (docstring of                *)
(* _stream_engine).  It does not once the engine closed its output, or the *)
(* reader failed on it, and the engine runs on, be it because the pipe is  *)
(* full: the task then waits for the exit code and polls no more.          *)
CancelEndsCall ==
    []([]cancelled => <>(pc = "returned" \/ (pc = "wait" /\ proc = "running")))

==============================================================================

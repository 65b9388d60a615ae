------------------------------ MODULE EngineRun ------------------------------
(***************************************************************************)
(* What _run_table is told about one engine run: the single engine state   *)
(* of MigrationWorker, with the outcomes it distinguishes there.           *)
(***************************************************************************)

VARIABLES outcome,   \* what the call will report, once it is decided
          cancelled  \* the migration's committed status is CANCELLED

runVars == <<outcome, cancelled>>

Init == outcome = "running" /\ cancelled = FALSE

(* The API cancels the migration, or starts a cancelled one again.         *)
Flip ==
    /\ cancelled' \in BOOLEAN
    /\ UNCHANGED outcome

(* The engine exited by itself, with or without an error.                  *)
Exits ==
    /\ outcome = "running"
    /\ outcome' \in {"succeeded", "failed"}
    /\ UNCHANGED cancelled

(* Only a migration that is cancelled at that moment is given up.          *)
Cancels ==
    /\ outcome = "running"
    /\ cancelled
    /\ outcome' = "cancelled"
    /\ UNCHANGED cancelled

(* A log line could not be stored.                                         *)
Raises ==
    /\ outcome = "running"
    /\ outcome' = "raised"
    /\ UNCHANGED cancelled

Next == Flip \/ Exits \/ Cancels \/ Raises

Spec == Init /\ [][Next]_runVars

==============================================================================

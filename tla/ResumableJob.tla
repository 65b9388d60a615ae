---------------------------- MODULE ResumableJob ----------------------------
(***************************************************************************)
(* What the migration lifecycle promises its clients: the state machine    *)
(* drawn in app/models/enums.py over a set of finished tables that only    *)
(* grows, so that a restart resumes and a completed job is a whole one.    *)
(***************************************************************************)
EXTENDS Enums, Naturals

CONSTANT NumTables

VARIABLES status,  \* as the API shows it
          done     \* the tables that are finished

jobVars == <<status, done>>

JobTables == 1..NumTables

Init == status = "draft" /\ done = {}

Start ==
    /\ status \in STARTABLE_STATUSES
    /\ status' = "pending"
    /\ UNCHANGED done

(* The task could not be queued.                                           *)
Withdraw ==
    /\ status = "pending"
    /\ status' = "failed"
    /\ UNCHANGED done

Begin ==
    /\ status = "pending"
    /\ status' = "running"
    /\ UNCHANGED done

FinishTable(t) ==
    /\ status = "running"
    /\ t \notin done
    /\ done' = done \cup {t}
    /\ UNCHANGED status

Complete ==
    /\ status = "running"
    /\ done = JobTables
    /\ status' = "completed"
    /\ UNCHANGED done

Fail ==
    /\ status = "running"
    /\ status' = "failed"
    /\ UNCHANGED done

Next ==
    \/ Start \/ Withdraw \/ Begin \/ Complete \/ Fail
    \/ \E t \in JobTables : FinishTable(t)

Spec == Init /\ [][Next]_jobVars

==============================================================================

\* One worker, as backend/README.md runs it, and two requests at a time that
\* start, cancel and delete. No death of the API process and no build_dsn that
\* raises: each of them does strand a job (see the README).
SPECIFICATION FairSpec
CONSTANTS
  NumTables = 1
  Rows <- NoRowsCounted
  MaxStarts = 2
  MaxEdits = 0
  MaxFaults = 0
  Workers = {w1}
  Requests = {r1, r2}
  Ops = {"start", "cancel", "delete"}
  Faults = {"enqueue_fails", "enqueue_reply_lost", "setup_fails", "table_raises", "engine_fails", "output_ends"}
INVARIANTS
  NoStrandedJob
PROPERTIES
  EverySubmissionSettles
  CancelStopsEngine
CHECK_DEADLOCK FALSE

\* One worker, one request at a time, only starts and retries; every fault of
\* a worker and its surroundings. Clients may stop
\* calling, so the system may come to a stop.
SPECIFICATION FairSpec
CONSTANTS
  NumTables = 2
  Rows <- SomeRowsCounted
  MaxStarts = 3
  MaxEdits = 0
  MaxFaults = 2
  Workers = {w1}
  Requests = {r1}
  Ops = {"start"}
  Faults = {"worker_crash", "setup_fails", "target_missing", "table_raises", "count_fails", "engine_fails", "output_ends"}
INVARIANTS
  CompletedMeansDone
  ProcessedAddsUp
  ProcessedWithinTotal
PROPERTIES
  DoneNeverUndone
  ImplementsJob
  EverySubmissionSettles
CHECK_DEADLOCK FALSE

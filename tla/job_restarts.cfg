\* Two workers and a restart: one request at a time starts and cancels, the
\* broker redelivers messages of tasks that are still running. Clients
\* may stop calling, so the system may come to a stop.
SPECIFICATION Spec
CONSTANTS
  NumTables = 1
  Rows <- NoRowsCounted
  MaxStarts = 2
  MaxEdits = 0
  MaxFaults = 0
  Workers = {w1, w2}
  Requests = {r1}
  Ops = {"start", "cancel"}
  Faults = {"engine_fails"}
SYMMETRY Symmetry
INVARIANTS
  DoneIsCopied
  CompletedIsCopied
CHECK_DEADLOCK FALSE

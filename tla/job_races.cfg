\* Two workers, two requests at a time, every endpoint. Clients
\* may stop calling, so the system may come to a stop.
SPECIFICATION Spec
CONSTANTS
  NumTables = 1
  Rows <- NoRowsCounted
  MaxStarts = 1
  MaxEdits = 1
  MaxFaults = 1
  Workers = {w1, w2}
  Requests = {r1, r2}
  Ops = {"start", "cancel", "delete", "update"}
  Faults = {"api_crash", "enqueue_reply_lost", "dsn_raises", "target_missing"}
SYMMETRY Symmetry
INVARIANTS
  TypeOK
  DoneIsCopied
  CheckpointIsCopied
  CompletedIsCopied
CHECK_DEADLOCK FALSE

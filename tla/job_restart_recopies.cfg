\* One worker, one request at a time, no fault: a job is cancelled and restarted.
SPECIFICATION Spec
CONSTANTS
  NumTables = 1
  Rows <- NoRowsCounted
  MaxStarts = 2
  MaxEdits = 0
  MaxFaults = 0
  Workers = {w1}
  Requests = {r1}
  Ops = {"start", "cancel"}
  Faults = {}
PROPERTY DoneNeverUndone
CHECK_DEADLOCK FALSE

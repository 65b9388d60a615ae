\* One worker, one request at a time, no fault: a cancel meets the running job.
SPECIFICATION Spec
CONSTANTS
  NumTables = 1
  Rows <- NoRowsCounted
  MaxStarts = 2
  MaxEdits = 0
  MaxFaults = 0
  Workers = {w1}
  Requests = {r1}
  Ops = {"start", "cancel"}
  Faults = {}
PROPERTY CancelledStands
CHECK_DEADLOCK FALSE

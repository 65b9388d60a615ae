\* One task and one client: is everything sent when the server ends the stream?
SPECIFICATION Spec
CONSTANTS
  Writers = {w1}
  Viewers = {v1}
  MaxLogs = 2
  LogBatch = 2
  MaxStreams = 1
  Overlap = FALSE
PROPERTIES
  EndedIsComplete
CHECK_DEADLOCK FALSE

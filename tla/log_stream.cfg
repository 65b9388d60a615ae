\* Two tasks one after the other and two clients, two slots that can be lost, three log
\* rows in batches of two. Deletion stops everything, so the system may stop.
SPECIFICATION FairSpec
CONSTANTS
  Writers = {w1, w2}
  Viewers = {v1, v2}
  MaxLogs = 3
  LogBatch = 2
  MaxStreams = 2
  Overlap = FALSE
INVARIANTS
  TypeOK
  NoGap
  EndedIsDrained
  SlotsAreFreed
PROPERTIES
  LinesArrive
  StreamsClose
CHECK_DEADLOCK FALSE

\* An engine that writes up to four lines through a pipe of two, ignores
\* SIGTERM if it likes, may close its output early and may write what cannot
\* be decoded, and a database that may fail. The call returns once and for all, so the system stops.
SPECIFICATION FairSpec
CONSTANTS
  MaxLines = 4
  PipeSize = 2
  EngineFaults = {"database_fails", "closes_output", "undecodable"}
INVARIANTS
  TypeOK
  NoOrphan
  ExitIsTheWholeStory
PROPERTIES
  ImplementsEngineRun
  CancelEndsCall
CHECK_DEADLOCK FALSE

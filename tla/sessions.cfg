SPECIFICATION Spec
CONSTANTS
  Requests = {r1, r2}
  MaxToken = 6
  Tabs = {t1, t2}
  Calls = {"me", "job"}
  MaxEvents = 3
  MaxFaults = 1
CHECK_DEADLOCK FALSE
INVARIANTS
  TypeOK
  OneHead
  ClosedForGood
  StaysSignedIn
PROPERTIES
  CallsSettle

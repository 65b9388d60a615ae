SPECIFICATION Spec
CONSTANTS
  Jobs <- MCJobs
  Text <- MCText
  Dotted = {"s.t", "x.y"}
  Spaced = {"a b"}
  SampleSize = 1
  Folded = {"Name"}
  Reserved = {"order"}
  Altered = 9
  MaxAlters = 1
CHECK_DEADLOCK FALSE
INVARIANTS
  TypeOK
  CountIsTheCopy
  
  AllColumnsArrive
  

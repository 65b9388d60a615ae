SPECIFICATION Spec
CONSTANTS
  ann = ann
  bob = bob
  cyd = cyd
  c1 = c1
  c2 = c2
  r1 = r1
  r2 = r2
  Users = {ann, bob, cyd}
  Staff <- MCStaff
  Verdicts = {"approved", "disabled"}
  Requests = {r1, r2}
  MaxRequests = 3
  Nobody = Nobody
  Conns = {c1, c2}
  Jobs = {j1}
SYMMETRY Symmetry
CHECK_DEADLOCK FALSE
INVARIANTS TypeOK AdminRemains UsesAreEntitled
PROPERTIES JobsOutlast

CONSTANTS
  Conn = {k1, k2}
  Type = {"heartbeat"}
  Call = {l1}
  Role = {"planner", "vision"}
  Routed = {"planner"}
  Time <- MCTime
  MaxNo = 3
  MaxIndex = 6
  MaxLost = 1
SPECIFICATION Spec
INVARIANT ReplayReadsTheFile
SYMMETRY Sessions
CHECK_DEADLOCK FALSE

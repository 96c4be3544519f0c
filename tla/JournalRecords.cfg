CONSTANTS
  Conn = {k1, k2}
  Type = {"heartbeat"}
  Call = {l1}
  Role = {"planner", "vision"}
  Routed = {"planner"}
  Time <- MCTime
  MaxNo = 3
  MaxIndex = 5
  MaxLost = 2
SPECIFICATION Spec
INVARIANTS TypeOK ReplayKeepsOrder RecordIsTheWire CallsLogged
SYMMETRY Sessions
CHECK_DEADLOCK FALSE

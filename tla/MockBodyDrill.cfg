CONSTANTS
  Clears = {c1, c2}
  Drives = {d1, d2}
  Unwanted = {c2}
  Span <- MCSpan
  CommandOf <- ClearsAndDrives
  MaxVelocity = 1
  Lease = 1
  MaxInbox = 1
  Harness = "drill"
SPECIFICATION Spec
INVARIANTS MotionPermissioned OneTerminalResult EndedSpansAnswered LatchOwnsInFlight
           ReportsOwed
PROPERTY ClimbsByAuthorisation
SYMMETRY MCSymmetry

CONSTANTS
  Clears = {c1}
  Drives = {d1}
  Unwanted = {}
  Span <- MCSpan
  CommandOf <- ClearsAndDrives
  MaxVelocity = 1
  Lease = 1
  MaxInbox = 1
  Harness = "run"
SPECIFICATION FairSpec
PROPERTIES DeadSocketStops
CHECK_DEADLOCK FALSE

CONSTANTS
  Clears = {}
  Drives = {}
  Unwanted = {}
  Span <- MCOddSpan
  CommandOf <- Odd
  MaxVelocity = 1
  Lease = 1
  MaxInbox = 2
  Harness = "run"
SPECIFICATION FairSpec
INVARIANT TypeOK
PROPERTIES LeaseMissLatches EstopActedOn BegunCommandsEnd
CHECK_DEADLOCK FALSE

CONSTANTS
  Span <- MCSpan
  Lease = 1
  MaxInbox = 1
SPECIFICATION Spec
INVARIANTS LostBodyHoldsNoSpan
CHECK_DEADLOCK FALSE

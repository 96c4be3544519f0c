CONSTANTS
  Span <- MCSpan
  CommandOf <- MCCommandOf
  MaxVelocity = 1
  Lease = 1
  MaxInbox = 1
SPECIFICATION FairSpec
PROPERTIES LivesASpan AskedSpansEnd
CHECK_DEADLOCK FALSE

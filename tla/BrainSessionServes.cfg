CONSTANTS
  Span <- MCSpan
  Lease = 2
  MaxInbox = 2
SPECIFICATION FairSpec
INVARIANTS TypeOK OneOutcomePerSpan LossesAlternate OpenSessionsWatched
PROPERTIES SilentBodyFound HeardBodyLives ClosedSocketEndsSession
CHECK_DEADLOCK FALSE

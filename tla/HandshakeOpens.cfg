CONSTANTS
  Conn = {k1, k2}
  Version <- MCVersion
  Supported <- MCSupported
  None = None
  CallerFrame <- MCCallerFrame
  MaxSeq = 4
  MaxInFlight = 2
SPECIFICATION FairSpec
INVARIANTS TypeOK TokenGuards EndsAgree NoForgottenSession HonestFramesInOrder NumbersAddUp
PROPERTIES DialAnswered WelcomedIsServed
CHECK_DEADLOCK FALSE

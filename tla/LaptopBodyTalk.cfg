CONSTANTS
  Span <- TalkSpan
  CommandOf <- Talk
  Devices = {"cam0", "mic0", "spk0"}
  MaxInbox = 1
  NoSpan = NoSpan
SPECIFICATION FairSpec
INVARIANTS TypeOK AnswersInOrder VoicesOwned StoppedIsOwed
PROPERTIES LatchesQuiet EstopGetsThrough DeadSocketEndsRun
CHECK_DEADLOCK FALSE

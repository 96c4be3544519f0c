CONSTANTS
  Span <- ErrandSpan
  CommandOf <- Errands
  Devices = {"cam0", "mic0", "spk0"}
  MaxInbox = 1
  NoSpan = NoSpan
SPECIFICATION Spec
INVARIANT ChunksNameTheirCapture
PROPERTY LatchesQuiet
CHECK_DEADLOCK FALSE

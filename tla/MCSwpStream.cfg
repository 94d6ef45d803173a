CONSTANTS
  WINDOW_SIZE = 2
  MAX_FRAME_INDEX = 4
  NumFrames = 4
  WireCap = 2
  NoFrame = NoFrame
  Scripts <- AllScripts
  TIMEOUT = 3
  SETTLE = 3
  RTO = 2
  MaxLostFrames = 1
  MaxLostSacks = 2
  MaxResets = 1
SPECIFICATION StreamSpec
INVARIANTS
  StreamTypeOK
  SuccessIsComplete
  FailsOnlyLate
  CleanClose
PROPERTIES
  Terminates
  CompletionSucceeds

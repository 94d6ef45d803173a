CONSTANTS
  WINDOW_SIZE = 2
  MAX_FRAME_INDEX = 4
  NumFrames = 4
  WireCap = 2
  NoFrame = NoFrame
  Scripts <- SomeScripts
  CAPACITY = 3
  TIMEOUT = 3
  WORD = 4
  RTO = 2
  MaxPreempt = 2
  MaxLost = 1
  MaxResets = 1
SPECIFICATION ReceiveSpec
INVARIANTS
  ReceiveTypeOK
  ReturnsTheAnswer
  FailsForAReason
  AnswerIsConfirmed
  ReturnsUnlessHeldUp
  LostRequestIsRepeated
PROPERTIES
  ImplementsRestartable
  Terminates

CONSTANTS
  WINDOW_SIZE = 2
  MAX_FRAME_INDEX = 4
  NumFrames = 6
  WireCap = 3
  NoFrame = NoFrame
SPECIFICATION Spec
INVARIANTS
  InOrder
  AckedIsHeld
  IInv
PROPERTY ImplementsDelivery
CHECK_DEADLOCK FALSE

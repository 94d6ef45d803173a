CONSTANTS
  WINDOW_SIZE = 2
  MAX_FRAME_INDEX = 4
  NumFrames = 4
  WireCap = 2
  NoFrame = NoFrame
  Scripts <- BadScripts
  TIMEOUT = 3
  SETTLE = 3
  RTO = 2
  MaxLostFrames = 1
  MaxLostSacks = 2
  MaxResets = 0
SPECIFICATION StreamSpec
INVARIANT ClassesInOrder

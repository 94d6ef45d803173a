CONSTANTS
  WINDOW_SIZE = 4
  MAX_FRAME_INDEX = 11
  SmallFrame = 4
  Requests <- SomeRequests
  MaxCount = 2
  MaxSessions = 2
  MaxLost = 1
  MaxFailed = 1
SPECIFICATION Spec
INVARIANTS
  FaultTypeOK
  FaultsHitFirstCopies
  DeviceTakesTrueFrames
  PausesAfterSmallFrames

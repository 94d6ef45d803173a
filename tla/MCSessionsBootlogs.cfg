CONSTANTS
  MaxRuns = 2
  MaxLate = 1
  MaxLost = 0
  MaxWriteErrors = 0
  MaxLateErrors = 0
SPECIFICATION Spec
INVARIANTS
  LogsAreBootlogs
CHECK_DEADLOCK FALSE

CONSTANTS
  MaxRuns = 3
  MaxLate = 1
  MaxLost = 1
  MaxWriteErrors = 1
  MaxLateErrors = 1
SPECIFICATION Spec
INVARIANTS
  SessionsTypeOK
  OutcomeIsTheDevices
  LogsAreData
PROPERTY ImplementsLog
CHECK_DEADLOCK FALSE

CONSTANTS
  writer = writer
  reader = reader
  Slots = {writer, reader}
  Program <- OneWriter
  MaxSessions = 2
  MaxRuns = 2
  MaxKills = 1
  MaxLate = 1
SPECIFICATION Spec
INVARIANT AttestationIsKept
CHECK_DEADLOCK FALSE

CONSTANTS
  writer = writer
  reader = reader
  Slots = {writer, reader}
  Program <- OneWriter
  MaxSessions = 2
  MaxRuns = 4
  MaxKills = 1
  MaxLate = 1
SPECIFICATION Spec
INVARIANTS
  ArtifactsTypeOK
  AttestationKeptIfFlushed
  EndorsementIsKept
  ProofIsAboutTheTree
  VerifiedWereTogether
CHECK_DEADLOCK FALSE

CONSTANTS
  x = x
  y = y
  otherWord = otherWord
  otherOid = otherOid
  DefaultOid = DefaultOid
  KnownOids = {DefaultOid, otherOid}
  IndexSpace = 2
  MaxKeys = 2
  MaxSignatures = 3
  MaxAnswers = 2
  Runs <- MCRuns
  Files <- MCFiles
  Disks <- MCDisks
  NotGiven = NotGiven
  Empty = Empty
  Torn <- MCTorn
  ExampleSources <- MCExampleSources
  Time = 1
  orgId = orgId
  orgPk = orgPk
  Devices <- MCDevices
SPECIFICATION AttestSpec
INVARIANTS
  OneTimeKeysOnce
  AttestTypeOK
  AsksWhatItVerifies
  PassIsOneAnswer
  PassBindsItems
  GenuinePasses
  EndorsementsFit
CHECK_DEADLOCK FALSE

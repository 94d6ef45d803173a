CONSTANTS
  Unset = Unset
  NoFile = NoFile
  Ignored = Ignored
  CommandLines <- MCCommandLines
  Environments <- MCEnvironments
  Disks <- MCDisks
  Defaults <- MCDefaults
  Number <- MCNumber
SPECIFICATION Spec
INVARIANTS
  ConfigTypeOK
  OptionsFirst
CHECK_DEADLOCK FALSE

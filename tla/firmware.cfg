SPECIFICATION FairSpec
CONSTANTS
  Slaves = {hub, arm}
  Hub = hub
  None = none
  Looks = 2
  Waits = 2
  MaxSets = 2
INVARIANTS
  TypeOK
  PreopVerdict
  RestoreKnown
  ExitClean
PROPERTIES
  ProgramsTarget
  CheckEnds
CHECK_DEADLOCK FALSE

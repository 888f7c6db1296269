\* Three commands over the data link, or two log sessions read back.
SPECIFICATION Spec
CONSTANTS
  Comps = {c1, c2}
  MaxSteps = 3
  MaxFit = 1
  MayDie = TRUE
  Logs = {la, lb}
  LogComps = {c1}
  PageSizes = {1, 2}
  MaxIdx = 3
  MaxSessions = 2
  PathIsList = FALSE
  CallsMayFail = TRUE
  NoLog = nolog
INVARIANTS
  TypeOK
  LockStep
  SampleOfLog
PROPERTIES
  StepEnds
CHECK_DEADLOCK FALSE

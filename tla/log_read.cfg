\* One log session, and a client that reads it back.
SPECIFICATION Spec
CONSTANTS
  Comps = {c1}
  MaxSteps = 1
  MaxFit = 1
  MayDie = FALSE
  Logs = {la}
  LogComps = {c1}
  PageSizes = {2}
  MaxIdx = 3
  MaxSessions = 1
  PathIsList = TRUE
  CallsMayFail = FALSE
  NoLog = nolog
PROPERTIES
  LoadsWhatIsThere
CHECK_DEADLOCK FALSE

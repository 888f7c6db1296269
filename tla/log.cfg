\* A log session with a failing disk and a removal, until the bound is reached.
SPECIFICATION FairSpec
CONSTANTS
  NumPages = 3
  PageSize = 2
  DownsampleRate = 1
  MayFail = TRUE
  MayRemove = TRUE
  MaxEntry = 10
INVARIANTS
  TypeOK
  NoGap
PROPERTIES
  OrderedLog
  KeptUpWritten
  RemovalReturns
CHECK_DEADLOCK FALSE

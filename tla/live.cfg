\* What must eventually happen, with errors and a stop but no state call.
SPECIFICATION FairSpec
CONSTANTS
  e1 = e1
  e2 = e2
  r1 = r1
  r2 = r2
  EcComps = {e1}
  RtComps = {r1}
  VirtualComps = {}
  Faulty = {e1}
  Values = {v1}
  Zero = 0
  KernelSync = TRUE
  MinTrials = 1
  MaxOverrun = 0
  Services = {d1}
  Published = {e1}
  RpcOps = {}
  FaultySlaves = {}
  Responding = 1
  NumEcDomain = 1
  MayDrop = FALSE
  MayStop = TRUE
  MaxSync = 1
  Drives <- MCDrives
  Priority <- MCPriority
  Position <- MCPosition
  Sidx <- MCSidx
PROPERTIES
  ErrorIsFinal
  ErrorStopsSlave
  RequestAnswered
  StopCompletes

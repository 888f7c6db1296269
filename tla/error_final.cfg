\* A state call races an error.
SPECIFICATION Spec
CONSTANTS
  e1 = e1
  e2 = e2
  r1 = r1
  r2 = r2
  EcComps = {e1}
  RtComps = {r1}
  VirtualComps = {}
  Faulty = {r1}
  Values = {v1}
  Zero = 0
  KernelSync = TRUE
  MinTrials = 1
  MaxOverrun = 0
  Services = {d1}
  Published = {r1}
  RpcOps = {"SafeOp"}
  FaultySlaves = {}
  Responding = 1
  NumEcDomain = 1
  MayDrop = FALSE
  MayStop = FALSE
  MaxSync = 1
  Drives <- MCDrives
  Priority <- MCPriority
  Position <- MCPosition
  Sidx <- MCSidx
PROPERTIES
  ErrorIsFinal

\* The build without kernel synchronisation, calls that change states, a slave that drops.
SPECIFICATION Spec
CONSTANTS
  e1 = e1
  e2 = e2
  r1 = r1
  r2 = r2
  EcComps = {e1, e2}
  RtComps = {r1}
  VirtualComps = {}
  Faulty = {}
  Values = {v1, v2}
  Zero = 0
  KernelSync = FALSE
  MinTrials = 1
  MaxOverrun = 0
  Services = {d1}
  Published = {r1}
  RpcOps = {"OpAll"}
  FaultySlaves = {}
  Responding = 2
  NumEcDomain = 1
  MayDrop = TRUE
  MayStop = FALSE
  MaxSync = 1
  Drives <- MCDrives
  Priority <- MCPriority
  Position <- MCPosition
  Sidx <- MCSidx
SYMMETRY Symmetry
INVARIANTS
  ShmExclusive
  DomainSnapshot
CHECK_DEADLOCK FALSE

\* A slave under a chain of two components, with the dry run and every lock.
SPECIFICATION Spec
CONSTANTS
  e1 = e1
  e2 = e2
  r1 = r1
  r2 = r2
  EcComps = {e1}
  RtComps = {r1, r2}
  VirtualComps = {}
  Faulty = {e1}
  Values = {v1, v2}
  Zero = 0
  KernelSync = TRUE
  MinTrials = 1
  MaxOverrun = 0
  Services = {d1}
  Published = {r2}
  RpcOps = {"Op"}
  FaultySlaves = {}
  Responding = 1
  NumEcDomain = 1
  MayDrop = FALSE
  MayStop = FALSE
  MaxSync = 1
  Drives <- MCDrives
  Priority <- MCPriority
  Position <- MCPosition
  Sidx <- MCSidx
SYMMETRY Symmetry
INVARIANTS
  TypeOK
  ExtExclusive
  ErrorLatched
  CommandOfThisCycle
  ReplyOfOneCycle
PROPERTIES
  SafeopLatched

\* Two clients outside of the server, each with a data service; whatever may go
\* wrong in the process does.
SPECIFICATION FairSpec
CONSTANTS
  Clients = {c1, c2}
  Server = srv
  DataClients = {c1, c2}
  Publishers = {c1}
  Loggers = {c2}
  FirstPort = 1
  MayFail = {c2}
  Faults = {"misstart", "block", "hang", "die"}
  MaxStray = 1
INVARIANTS
  TypeOK
  OneRemoval
  CountIsHolders
  LeftAtExit
PROPERTIES
  OwnsOneSystem
  SystemKept
  ServiceKept
  ServerExits
CHECK_DEADLOCK FALSE

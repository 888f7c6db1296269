\* A client's data service fails, or its client is killed, while the server's own
\* client is attached, too.
SPECIFICATION Spec
CONSTANTS
  Clients = {c1}
  Server = srv
  DataClients = {c1}
  Publishers = {c1}
  Loggers = {}
  FirstPort = 1
  MayFail = {c1}
  Faults = {}
  MaxStray = 0
INVARIANTS
  DroppedStopsSystem
CHECK_DEADLOCK FALSE

SPECIFICATION ServerFairSpec
CONSTANTS
  Callers = {"s1", "s2"}
  MaxCalls = 2
  Depth = 1
  Serial = FALSE
  Out = {"response"}
  None = None
INVARIANT
  ServerTypeOK
PROPERTIES
  ServersShareBridge
  NoOrphanLoop
  ServerStarts
CHECK_DEADLOCK FALSE

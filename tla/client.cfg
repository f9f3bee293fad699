SPECIFICATION FairSpec
CONSTANTS
  Apps = {"a", "b", "c"}
  MaxRequests = 1
  ClientDepth = 1
  ResolverDepth = 2
  Servers = {"s1", "s2"}
  Stops = TRUE
  JoinFails = TRUE
  None = None
INVARIANTS
  ResolverInv
  WireUnderstood
PROPERTIES
  ClientIsBridge
  AnsweredUnlessWedged
CHECK_DEADLOCK FALSE

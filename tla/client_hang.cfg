SPECIFICATION FairSpec
CONSTANTS
  Apps = {"a", "b"}
  MaxRequests = 1
  ClientDepth = 1
  ResolverDepth = 2
  Servers = {"s1"}
  Stops = TRUE
  JoinFails = FALSE
  None = None
PROPERTY
  LookupEnds
CHECK_DEADLOCK FALSE

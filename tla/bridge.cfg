SPECIFICATION FairSpec
CONSTANTS
  Callers = {"a", "b", "c"}
  MaxCalls = 2
  Depth = 2
  Serial = FALSE
  Out = {"ok"}
  None = None
INVARIANT
  TypeOK
PROPERTIES
  Implements
  Answered
CHECK_DEADLOCK FALSE

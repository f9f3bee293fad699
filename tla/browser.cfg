SPECIFICATION BrowserFairSpec
CONSTANTS
  Hosts = {"h1", "h2"}
  Interval = 3
  Depth = 2
  SocketDepth = 2
  MaxChatter = 4
  MaxLost = 1
  BindFails = TRUE
  Chatter = "chatter"
  Unspecified = Unspecified
  AnyAddress = AnyAddress
INVARIANT
  BrowserInv
PROPERTY
  AllFound
CHECK_DEADLOCK FALSE

SPECIFICATION FairSpec
CONSTANTS
  ChannelDepth = 2
  MaxIn = 3
  MaxOut = 3
  Close = Close
  Error = Error
INVARIANT
  Faithful
PROPERTIES
  ConnectEnds
  StreamEnds
  SendEnds
CHECK_DEADLOCK FALSE

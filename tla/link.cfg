SPECIFICATION FairSpec
CONSTANTS
  Slots = {"drive", "leds"}
  Values = {"rest", "on"}
  Rest = "rest"
  Blackened <- MCBlackened
  None = None
  Depth = 2
  InitSeq <- MCInitSeq
  TxFails = TRUE
INVARIANTS
  TypeOK
  InSync
PROPERTIES
  ErrorResets
  Converges

SPECIFICATION Spec
CONSTANTS
  Byte = {1, 2, 35, 65}
  START = 65
  END = 35
  Crc <- MCCrc
  PayloadMax = 1
  Cap = 7
  ReadMax = 2
  MaxStream = 10
INVARIANTS
  TypeOK
  NeverOverflows
  NoFrameSkipped
  ChunkingIndependent
  CodecFaithful
CHECK_DEADLOCK FALSE

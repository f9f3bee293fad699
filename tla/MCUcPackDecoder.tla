--------------------------- MODULE MCUcPackDecoder ---------------------------
(* TLC instance of UcPackDecoder: four byte values, of which two are possible *)
(* lengths, and a checksum that lands in them.  The real bytes and checksum   *)
(* are UcPackCodec's.                                                         *)
EXTENDS UcPackDecoder, UcPackCodec

MCCrc(s) == 1 + (FoldSeq(LAMBDA b, sum : b + sum, 0, s) % 2)

\* Whatever the driver drains, the real bytes are decoded as they were encoded: a
\* flipped bit of a command frame costs that frame and not the next one, and the
\* fields of a status are those that were packed.
CodecFaithful == pc = "drain" => FlipCostsOneFrame /\ StatusDecoded
=============================================================================

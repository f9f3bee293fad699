--------------------------- MODULE MCClientResolver ---------------------------
(* TLC instance of ClientResolver, whose lookups travel in the packets of     *)
(* MdnsWire.                                                                  *)
EXTENDS ClientResolver, MdnsWire

\* While the driver waits for a lookup, the packets that arrive are understood: an
\* answer is found among other records exactly when it is there, a query for this
\* host likewise, and a packet that is cut short misleads neither scanner.
WireUnderstood ==
  driver = "resolving" => ScannersAgree /\ CutsAreHarmless /\ PeersUnderstand
=============================================================================

---------------------------- MODULE SocketConnection ----------------------------
(***************************************************************************)
(* One WebSocket connection of src/src/net/socket_client.rs: esp_connect   *)
(* waits for the dial and the handshake, drive_connection then pumps       *)
(* frames between the wire and the two channels of the Socket, and its end *)
(* drops the inbound sender, which ends the Socket's stream.               *)
(*                                                                         *)
(* Messages are numbered in sending order in each direction; Close is the  *)
(* Close frame and Error an Err item on the stream.  A read returns some   *)
(* of the bytes in flight; only whole frames matter, an incomplete one     *)
(* stays in decode_buf.  The peer is external: it sends what it likes and  *)
(* ends the stream with a Close frame, end of file or a reset, or never.   *)
(* The socket itself ends a stream on which nothing arrives for 30 s.      *)
(***************************************************************************)
EXTENDS Naturals, Sequences, SequencesExt

CONSTANTS
  ChannelDepth,   \* CHANNEL_DEPTH (8)
  MaxIn, MaxOut,  \* bounds on the messages of each direction
  Close, Error

ASSUME ConnectionAssumption ==
  /\ ChannelDepth \in Nat \ {0} /\ MaxIn \in Nat /\ MaxOut \in Nat
  /\ Close \notin Nat /\ Error \notin Nat /\ Close # Error

InFrame == 1..MaxIn \cup {Close}
OutFrame == 1..MaxOut \cup {Close}

VARIABLES
  world,     \* the ECS side: "dialling", "open", "failed" or "gone"
  reply,     \* the Reply of the connect: "none", "ok" or "error"
  driver,    \* where drive_connection is
  peer,      \* the peer's stream: "sending", "eof" or "reset"
  upgrade,   \* its answer to the upgrade: "none", "accepted" or "refused"
  nextIn,    \* number of the peer's next message
  netIn,     \* frames that have arrived and are not read yet
  inbound,   \* everything put on the inbound channel
  ended,     \* the inbound sender is dropped
  nextOut,   \* number of the world's next message
  sending,   \* messages whose send waits for room in the channel
  outbound,  \* the outbound channel
  writing,   \* the frame being written: none or one
  wireOut,   \* frames written to the wire
  got        \* history: everything read from the wire

vars == <<world, reply, driver, peer, upgrade, nextIn, netIn, inbound, ended, nextOut,
          sending, outbound, writing, wireOut, got>>
peerVars == <<peer, upgrade, nextIn>>
worldVars == <<world, nextOut, sending>>

Init ==
  /\ world = "dialling" /\ reply = "none" /\ driver = "dial"
  /\ peer = "sending" /\ upgrade = "none" /\ nextIn = 1 /\ netIn = <<>>
  /\ inbound = <<>> /\ ended = FALSE
  /\ nextOut = 1 /\ sending = <<>> /\ outbound = <<>> /\ writing = <<>>
  /\ wireOut = <<>> /\ got = <<>>

-----------------------------------------------------------------------------
(* The peer, once the TCP connection is up. *)

PeerAnswers ==
  /\ driver = "handshake" /\ peer = "sending" /\ upgrade = "none"
  /\ upgrade' \in {"accepted", "refused"}
  /\ UNCHANGED <<worldVars, reply, driver, peer, nextIn, netIn, inbound, ended,
                 outbound, writing, wireOut, got>>

PeerSends ==
  /\ upgrade = "accepted" /\ peer = "sending"
  /\ \/ nextIn <= MaxIn /\ netIn' = Append(netIn, nextIn)
        /\ nextIn' = nextIn + 1 /\ UNCHANGED peer
     \/ netIn' = Append(netIn, Close) /\ peer' = "eof" /\ UNCHANGED nextIn
  /\ UNCHANGED <<worldVars, reply, driver, upgrade, inbound, ended, outbound,
                 writing, wireOut, got>>

\* A reset stands for whatever makes a read or write fail: a malformed frame, the
\* connection reset.
PeerEnds ==
  /\ driver # "dial"
  /\ \/ peer = "sending" /\ peer' = "eof"
     \/ peer # "reset" /\ peer' = "reset"
  /\ UNCHANGED <<worldVars, reply, driver, upgrade, nextIn, netIn, inbound, ended,
                 outbound, writing, wireOut, got>>

\* What set_timeout waits for has not come: an answer to the upgrade, or, later, a
\* frame that is not read yet.
Awaited == peer = "sending" /\ netIn = <<>> /\ (driver = "handshake" => upgrade = "none")

\* Mutant of Inactivity: the timeout covers writes, but not a read that waits.
InactivityOfWrites ==
  /\ driver = "writing" /\ Awaited
  /\ peer' = "reset"
  /\ UNCHANGED <<worldVars, reply, driver, upgrade, nextIn, netIn, inbound, ended,
                 outbound, writing, wireOut, got>>

\* Nothing has arrived for the 30 s of set_timeout: the stack closes the socket,
\* and the read or write that waits fails.
Inactivity ==
  /\ driver \in {"handshake", "pump", "writing"} /\ Awaited
  /\ peer' = "reset"
  /\ UNCHANGED <<worldVars, reply, driver, upgrade, nextIn, netIn, inbound, ended,
                 outbound, writing, wireOut, got>>

-----------------------------------------------------------------------------
(* drive_connection. *)

\* It returns: an unsent reply gets the outcome, a used one leaves the error to
\* the stream, and the job is dropped with its inbound sender.
End(failed) ==
  /\ driver' = "ended" /\ ended' = TRUE
  /\ writing' = <<>>
  /\ reply' = IF reply # "none" THEN reply ELSE IF failed THEN "error" ELSE "ok"

\* DNS or the TCP connect fails, the latter after 10 s at the latest.
DialFails ==
  /\ driver = "dial"
  /\ End(TRUE)
  /\ UNCHANGED <<worldVars, peerVars, netIn, inbound, outbound, wireOut, got>>

\* TCP (and, for wss, TLS) is up: the upgrade request is sent.
DialSucceeds ==
  /\ driver = "dial"
  /\ driver' = "handshake"
  /\ UNCHANGED <<worldVars, peerVars, reply, netIn, inbound, ended, outbound,
                 writing, wireOut, got>>

\* A refused upgrade, or the stream ends before the response is complete.  The reads
\* of the handshake have no timeout of their own; that of the socket ends them.
Unanswered == upgrade = "refused" \/ peer = "reset" \/ (peer = "eof" /\ upgrade = "none")

HandshakeFails ==
  /\ driver = "handshake" /\ Unanswered
  /\ End(TRUE)
  /\ UNCHANGED <<worldVars, peerVars, netIn, inbound, outbound, wireOut, got>>

\* The frames of fs up to and including the first Close.
UpToClose(fs) ==
  IF \E i \in DOMAIN fs : fs[i] = Close
  THEN SubSeq(fs, 1, CHOOSE i \in DOMAIN fs :
                       fs[i] = Close /\ \A j \in 1..i-1 : fs[j] # Close)
  ELSE fs

\* The decode loop at the top of run_duplex: every whole frame goes to the
\* stream, and a Close ends the connection.
Decoded(fs) == inbound' = inbound \o UpToClose(fs)

\* Mutant of HandshakeSucceeds: the bytes behind the response are discarded.
HandshakeDropsLeftover(k) ==
  /\ driver = "handshake" /\ upgrade = "accepted" /\ k \in 0..Len(netIn)
  /\ reply' = "ok" /\ driver' = "pump"
  /\ got' = SubSeq(netIn, 1, k) /\ netIn' = SubSeq(netIn, k + 1, Len(netIn))
  /\ UNCHANGED <<worldVars, peerVars, inbound, ended, outbound, writing,
                 wireOut>>

\* The 101 arrives, with k frames behind it in the same reads (leftover).  The
\* connect is answered and the frames are decoded before anything is awaited.
HandshakeSucceeds(k) ==
  LET fs == SubSeq(netIn, 1, k) IN
  /\ driver = "handshake" /\ upgrade = "accepted" /\ k \in 0..Len(netIn)
  /\ got' = fs /\ netIn' = SubSeq(netIn, k + 1, Len(netIn))
  /\ Decoded(fs)
  /\ reply' = "ok"
  /\ IF Contains(fs, Close)
     THEN driver' = "ended" /\ ended' = TRUE
     ELSE driver' = "pump" /\ UNCHANGED ended
  /\ UNCHANGED <<worldVars, peerVars, outbound, writing, wireOut>>

\* select polls the read first: a read with data wins.
Read(k) ==
  LET fs == SubSeq(netIn, 1, k) IN
  /\ driver = "pump" /\ k \in 1..Len(netIn)
  /\ got' = got \o fs /\ netIn' = SubSeq(netIn, k + 1, Len(netIn))
  /\ Decoded(fs)
  /\ IF Contains(fs, Close) THEN End(FALSE)
     ELSE UNCHANGED <<driver, ended, writing, reply>>
  /\ UNCHANGED <<worldVars, peerVars, outbound, wireOut>>

\* read returns 0 bytes.
ReadEof ==
  /\ driver = "pump" /\ netIn = <<>> /\ peer = "eof"
  /\ End(FALSE)
  /\ UNCHANGED <<worldVars, peerVars, netIn, inbound, outbound, wireOut, got>>

\* A failed read or write puts the error on the stream and ends it; a reset may
\* overtake frames in flight.
Fail ==
  /\ driver \in {"pump", "writing"} /\ peer = "reset"
  /\ inbound' = Append(inbound, Error)
  /\ End(TRUE)
  /\ UNCHANGED <<worldVars, peerVars, netIn, outbound, wireOut, got>>

\* Mutant of TakeOutbound: nothing is sent before the peer has sent something.
TakeAfterRead ==
  /\ driver = "pump" /\ netIn = <<>> /\ peer = "sending" /\ outbound # <<>>
  /\ got # <<>>
  /\ writing' = <<Head(outbound)>> /\ outbound' = Tail(outbound)
  /\ driver' = "writing"
  /\ UNCHANGED <<worldVars, peerVars, reply, netIn, inbound, ended, wireOut, got>>

\* Only a pending read lets select look at the outbound channel.
TakeOutbound ==
  /\ driver = "pump" /\ netIn = <<>> /\ peer = "sending" /\ outbound # <<>>
  /\ writing' = <<Head(outbound)>> /\ outbound' = Tail(outbound)
  /\ driver' = "writing"
  /\ UNCHANGED <<worldVars, peerVars, reply, netIn, inbound, ended, wireOut, got>>

\* Mutant of Written: the driver does not stop after writing a Close frame.
WrittenKeepsPumping ==
  /\ driver = "writing"
  /\ wireOut' = wireOut \o writing
  /\ driver' = "pump" /\ writing' = <<>>
  /\ UNCHANGED <<worldVars, peerVars, netIn, inbound, outbound, got, ended,
                 reply>>

\* write_all and flush complete; our own Close frame ends the connection.
Written ==
  /\ driver = "writing"
  /\ wireOut' = wireOut \o writing
  /\ IF writing = <<Close>> THEN End(FALSE)
     ELSE /\ driver' = "pump" /\ writing' = <<>>
          /\ UNCHANGED <<ended, reply>>
  /\ UNCHANGED <<worldVars, peerVars, netIn, inbound, outbound, got>>

-----------------------------------------------------------------------------
(* The ECS side. *)

\* esp_connect returns the Socket or the error.
ConnectReturns ==
  /\ world = "dialling" /\ reply # "none"
  /\ world' = IF reply = "ok" THEN "open" ELSE "failed"
  /\ UNCHANGED <<peerVars, nextOut, sending, reply, driver, netIn, inbound, ended,
                 outbound, writing, wireOut, got>>

\* A send or close on the Socket, nothing after a close; it resolves when the
\* channel has room.
WorldSends ==
  /\ world = "open" /\ sending = <<>>
  /\ \/ nextOut <= MaxOut /\ sending' = <<nextOut>> /\ nextOut' = nextOut + 1
     \/ nextOut <= MaxOut + 1 /\ sending' = <<Close>> /\ nextOut' = MaxOut + 2
  /\ UNCHANGED <<peerVars, world, reply, driver, netIn, inbound, ended, outbound,
                 writing, wireOut, got>>

SendResolves ==
  /\ sending # <<>> /\ Len(outbound) < ChannelDepth
  /\ outbound' = outbound \o sending /\ sending' = <<>>
  /\ UNCHANGED <<peerVars, world, nextOut, reply, driver, netIn, inbound, ended,
                 writing, wireOut, got>>

\* The connecting task or the Socket is dropped; the driver keeps its channel.
Abandon ==
  /\ world \in {"dialling", "open"}
  /\ world' = "gone" /\ sending' = <<>>
  /\ UNCHANGED <<peerVars, nextOut, reply, driver, netIn, inbound, ended, outbound,
                 writing, wireOut, got>>

Driver ==
  \/ DialFails \/ DialSucceeds
  \/ HandshakeFails
  \/ \E k \in 0..MaxIn + 1 : HandshakeSucceeds(k)
  \/ \E k \in 1..MaxIn + 1 : Read(k)
  \/ ReadEof \/ Fail
  \/ TakeOutbound \/ Written

Next ==
  \/ PeerAnswers \/ PeerSends \/ PeerEnds \/ Inactivity
  \/ Driver
  \/ ConnectReturns \/ WorldSends \/ SendResolves \/ Abandon

Spec == Init /\ [][Next]_vars

\* The executors poll woken tasks, and the peer's window opens for a write.  The
\* peer need not answer, send or end.  One that never answers the upgrade runs into
\* the socket's timeout (one that sends its answer byte by byte for ever does not,
\* and is left out); a connection that is open can be kept from it by the peer.
FairSpec ==
  /\ Spec
  /\ WF_vars(Driver) /\ WF_vars(ConnectReturns) /\ WF_vars(SendResolves)
  /\ WF_vars(driver = "handshake" /\ Inactivity)

-----------------------------------------------------------------------------
(* Properties. *)

\* Types, and the bound of the outbound channel.
TypeOK ==
  /\ world \in {"dialling", "open", "failed", "gone"}
  /\ reply \in {"none", "ok", "error"}
  /\ driver \in {"dial", "handshake", "pump", "writing", "ended"}
  /\ peer \in {"sending", "eof", "reset"}
  /\ upgrade \in {"none", "accepted", "refused"} /\ nextIn \in 1..MaxIn + 1
  /\ netIn \in Seq(InFrame) /\ got \in Seq(InFrame)
  /\ inbound \in Seq(InFrame \cup {Error}) /\ ended \in BOOLEAN
  /\ nextOut \in 1..MaxOut + 2
  /\ sending \in Seq(OutFrame) /\ writing \in Seq(OutFrame)
  /\ outbound \in Seq(OutFrame) /\ Len(outbound) <= ChannelDepth
  /\ wireOut \in Seq(OutFrame)

\* The stream yields every frame read from the wire, in order and once, from the
\* bytes behind the handshake response on, up to a Close frame, and then at most
\* one error, as its last item.
StreamFaithful ==
  inbound \in {UpToClose(got), Append(got, Error)}

\* What the world sends reaches the wire in order, and nothing is lost while
\* the connection lives.
InOrder(s) == \A i \in 1..Len(s) : IF i = Len(s) THEN s[i] \in {i, Close} ELSE s[i] = i
WireFaithful ==
  /\ InOrder(wireOut)
  /\ driver # "ended" => InOrder(wireOut \o writing \o outbound \o sending)

\* Both directions, and the types.
Faithful == TypeOK /\ StreamFaithful /\ WireFaithful

\* Every connect returns, also one to a peer that accepts the TCP connection and then
\* says nothing: the timeout of the socket reaches the Reply as an error.
ConnectEnds == world = "dialling" ~> world # "dialling"

\* The stream ends once the peer ends it or our Close frame is sent.
StreamEnds ==
  (driver # "dial" /\ (peer # "sending" \/ Contains(wireOut, Close))) ~> ended

\* Every send resolves, unless the connection has ended with the channel full: nobody
\* drains it any more, and the world has to act on the end of the stream.
SendEnds ==
  sending # <<>> ~> (sending = <<>> \/ (ended /\ Len(outbound) = ChannelDepth))
=============================================================================

-------------------------- MODULE SocketConnectionProofs -------------------------
(***************************************************************************)
(* Both directions of a WebSocket connection are faithful, for any channel *)
(* depth and any number of messages.  Inbound: a peer sends nothing after  *)
(* its Close frame, so a Close is the last frame of whatever is read, and  *)
(* until the driver ends the stream has yielded what was read.  Outbound:  *)
(* the wire, the frame being written, the channel and the waiting send are *)
(* one pipe, and a step of the driver moves a message along it.            *)
(***************************************************************************)
EXTENDS SocketConnection, SequenceTheorems, TLAPS

CloseLast(fs) == \A i \in 1..Len(fs) : fs[i] = Close => i = Len(fs)

\* What has been sent, from the wire back to the world.
Pipe == ((wireOut \o writing) \o outbound) \o sending

\* The inbound direction: what is left to read, and what the stream has yielded.
InboundInv ==
  /\ CloseLast(netIn)
  /\ peer = "sending" => ~Contains(netIn, Close)
  /\ driver \in {"dial", "handshake"} => got = <<>> /\ inbound = <<>>
  /\ driver \in {"pump", "writing"} => inbound = got /\ ~Contains(got, Close)
  /\ StreamFaithful

\* The outbound direction: one frame is written at a time, one send waits at a
\* time, and while the world may send, the pipe holds all it has sent.
OutboundInv ==
  /\ IF driver = "writing" THEN Len(writing) = 1 ELSE writing = <<>>
  /\ sending # <<>> => Len(sending) = 1
  /\ InOrder(wireOut)
  /\ driver # "ended" => InOrder(Pipe)
  /\ driver # "ended" /\ world \in {"dialling", "open"} /\ nextOut <= MaxOut + 1 =>
       Len(Pipe) = nextOut - 1 /\ ~Contains(Pipe, Close)

\* The inductive invariant of SocketConnection.
SocketInv == TypeOK /\ InboundInv /\ OutboundInv

-----------------------------------------------------------------------------
(* Lemmas about sequences of frames. *)

LEMMA Assumed ==
  /\ ChannelDepth \in Nat /\ ChannelDepth > 0 /\ MaxIn \in Nat /\ MaxOut \in Nat
  /\ Close \notin Nat /\ Error \notin Nat /\ Close # Error
BY ConnectionAssumption DEF ConnectionAssumption

\* A part of the frames, and the rest of them.
LEMMA Parts ==
  ASSUME NEW S, NEW s \in Seq(S), NEW k \in 0..Len(s)
  PROVE  LET a == SubSeq(s, 1, k)
             b == SubSeq(s, k + 1, Len(s))
         IN  /\ a \in Seq(S) /\ Len(a) = k /\ \A i \in 1..k : a[i] = s[i]
             /\ b \in Seq(S) /\ Len(b) = Len(s) - k
             /\ \A i \in 1..(Len(s) - k) : b[i] = s[k + i]
<1>1. Len(s) \in Nat /\ k \in Int /\ \A i \in 1..Len(s) : s[i] \in S
  OBVIOUS
<1>2. /\ SubSeq(s, 1, k) \in Seq(S) /\ Len(SubSeq(s, 1, k)) = k
      /\ \A i \in 1..k : SubSeq(s, 1, k)[i] = s[i]
  <2>1. \A i \in 1..k : s[i] \in S
    BY <1>1
  <2> QED
    BY <1>1, <2>1, SubSeqProperties
<1>3. /\ SubSeq(s, k + 1, Len(s)) \in Seq(S)
      /\ Len(SubSeq(s, k + 1, Len(s))) = Len(s) - k
      /\ \A i \in 1..(Len(s) - k) : SubSeq(s, k + 1, Len(s))[i] = s[k + i]
  <2>1. \A i \in k+1..Len(s) : s[i] \in S
    BY <1>1
  <2> QED
    BY <1>1, <2>1, SubSeqProperties
<1> QED
  BY <1>2, <1>3

\* Nothing comes after a Close: the decoder takes all of it.
LEMMA UpToCloseWhole ==
  ASSUME NEW S, NEW s \in Seq(S), CloseLast(s) PROVE UpToClose(s) = s
<1>1. DOMAIN s = 1..Len(s) /\ Len(s) \in Nat
  OBVIOUS
<1>2. CASE \E i \in DOMAIN s : s[i] = Close
  <2>1. s[Len(s)] = Close /\ Len(s) \in DOMAIN s
    BY <1>1, <1>2 DEF CloseLast
  <2> DEFINE P(i) == s[i] = Close /\ \A j \in 1..i-1 : s[j] # Close
  <2>2. P(Len(s))
    <3> SUFFICES ASSUME NEW j \in 1..Len(s)-1 PROVE s[j] # Close
      BY <2>1
    <3>1. Len(s) \in Nat
      BY <1>1
    <3>2. j \in 1..Len(s) /\ j # Len(s)
      BY <3>1
    <3> QED
      BY <3>2 DEF CloseLast
  <2>3. \A i \in DOMAIN s : P(i) => i = Len(s)
    BY <1>1 DEF CloseLast
  <2>4. (CHOOSE i \in DOMAIN s : P(i)) = Len(s)
    BY <2>1, <2>2, <2>3
  <2>5. UpToClose(s) = SubSeq(s, 1, Len(s))
    BY <1>2, <2>4 DEF UpToClose
  <2> QED
    BY <2>5, SubSeqFull
<1>3. CASE ~\E i \in DOMAIN s : s[i] = Close
  BY <1>3 DEF UpToClose
<1> QED
  BY <1>2, <1>3

\* Two sequences, one after the other.
LEMMA Joined ==
  ASSUME NEW S, NEW s \in Seq(S), NEW t \in Seq(S)
  PROVE  /\ s \o t \in Seq(S) /\ Len(s \o t) = Len(s) + Len(t)
         /\ \A i \in 1..Len(s) : (s \o t)[i] = s[i]
         /\ \A i \in 1..Len(s) + Len(t) :
              i \in 1..Len(s) \/ (i - Len(s) \in 1..Len(t)
                                /\ (s \o t)[i] = t[i - Len(s)])
<1>1. Len(s) \in Nat /\ Len(t) \in Nat
  OBVIOUS
<1>2. s \o t \in Seq(S) /\ Len(s \o t) = Len(s) + Len(t)
  BY ConcatProperties
<1>3. \A i \in 1..Len(s) + Len(t) :
        (s \o t)[i] = IF i <= Len(s) THEN s[i] ELSE t[i - Len(s)]
  BY ConcatProperties
<1>4. \A i \in 1..Len(s) : i \in 1..Len(s) + Len(t) /\ i <= Len(s)
  BY <1>1
<1>5. \A i \in 1..Len(s) + Len(t) :
        i \in 1..Len(s) \/ (i - Len(s) \in 1..Len(t) /\ ~(i <= Len(s)))
  BY <1>1
<1> QED
  BY <1>2, <1>3, <1>4, <1>5

\* A Close at the end of what follows is the end of the whole.
LEMMA CloseLastJoined ==
  ASSUME NEW S, NEW s \in Seq(S), NEW t \in Seq(S), ~Contains(s, Close), CloseLast(t)
  PROVE  CloseLast(s \o t) /\ (~Contains(t, Close) => ~Contains(s \o t, Close))
<1>1. Len(s) \in Nat /\ Len(t) \in Nat
  OBVIOUS
<1>2. \A i \in 1..Len(s) : s[i] # Close
  BY DEF Contains
<1>3. \A i \in 1..Len(s \o t) : (s \o t)[i] = Close =>
        i - Len(s) \in 1..Len(t) /\ t[i - Len(s)] = Close
  BY <1>2, Joined
<1>4. CloseLast(s \o t)
  <2> SUFFICES ASSUME NEW i \in 1..Len(s \o t), (s \o t)[i] = Close
               PROVE  i = Len(s \o t)
    BY DEF CloseLast
  <2>1. i - Len(s) = Len(t)
    BY <1>3 DEF CloseLast
  <2>2. Len(s \o t) = Len(s) + Len(t) /\ i \in Int
    BY <1>1, Joined
  <2> QED
    BY <1>1, <2>1, <2>2
<1>5. ~Contains(t, Close) => ~Contains(s \o t, Close)
  BY <1>3 DEF Contains
<1> QED
  BY <1>4, <1>5

LEMMA InOrderPrefix ==
  ASSUME NEW S, NEW s \in Seq(S), NEW t \in Seq(S), InOrder(s \o t) PROVE InOrder(s)
<1>1. Len(s) \in Nat /\ Len(t) \in Nat /\ Len(s \o t) = Len(s) + Len(t)
      /\ \A i \in 1..Len(s) : (s \o t)[i] = s[i]
  OBVIOUS
<1> SUFFICES ASSUME NEW i \in 1..Len(s)
             PROVE  IF i = Len(s) THEN s[i] \in {i, Close} ELSE s[i] = i
  BY DEF InOrder
<1>2. i \in 1..Len(s \o t) /\ (s \o t)[i] = s[i]
  BY <1>1
<1>3. i # Len(s) => i # Len(s \o t)
  BY <1>1
<1> QED
  BY <1>2, <1>3 DEF InOrder

LEMMA InOrderAppend ==
  ASSUME NEW S, NEW s \in Seq(S), NEW x \in S, InOrder(s), ~Contains(s, Close),
         x \in {Len(s) + 1, Close}
  PROVE  InOrder(Append(s, x))
<1>1. Len(s) \in Nat /\ Len(Append(s, x)) = Len(s) + 1
      /\ Append(s, x)[Len(s) + 1] = x
      /\ \A i \in 1..Len(s) : Append(s, x)[i] = s[i]
  OBVIOUS
<1>2. \A i \in 1..Len(s) : s[i] = i
  BY DEF InOrder, Contains
<1> SUFFICES ASSUME NEW i \in 1..(Len(s) + 1)
             PROVE  IF i = Len(s) + 1 THEN Append(s, x)[i] \in {i, Close}
                                      ELSE Append(s, x)[i] = i
  BY <1>1 DEF InOrder
<1>3. i = Len(s) + 1 \/ i \in 1..Len(s)
  BY <1>1
<1> QED
  BY <1>1, <1>2, <1>3
-----------------------------------------------------------------------------
(* Steps that leave one direction alone. *)

LEMMA SameInbound ==
  ASSUME InboundInv, UNCHANGED <<netIn, peer, got, inbound>>,
         \/ driver' = driver
         \/ driver \in {"pump", "writing"} /\ driver' \in {"pump", "writing"}
         \/ driver' = "ended"
         \/ driver = "dial" /\ driver' = "handshake"
  PROVE  InboundInv'
BY DEF InboundInv, StreamFaithful, Contains, CloseLast

LEMMA SameOutbound ==
  ASSUME OutboundInv, UNCHANGED <<worldVars, outbound, writing, wireOut>>,
         \/ driver' = driver
         \/ driver # "writing" /\ driver' \notin {"writing", "ended"} /\ driver # "ended"
         \/ driver # "writing" /\ driver' = "ended"
  PROVE  OutboundInv'
<1>1. Pipe' = Pipe
  BY DEF Pipe, worldVars
<1> QED
  BY <1>1 DEF OutboundInv, InOrder, Contains, worldVars

LEMMA EndOutbound ==
  ASSUME OutboundInv, NEW failed, End(failed),
         UNCHANGED <<worldVars, outbound, wireOut>>
  PROVE  OutboundInv'
BY DEF OutboundInv, End, InOrder, worldVars

\* A read of k frames, whatever was read before.
LEMMA FramesRead ==
  ASSUME TypeOK, InboundInv, NEW k \in 0..Len(netIn), inbound = got,
         ~Contains(got, Close), got' = got \o SubSeq(netIn, 1, k),
         netIn' = SubSeq(netIn, k + 1, Len(netIn)),
         Decoded(SubSeq(netIn, 1, k)), peer' = peer,
         driver' \in {"pump", "ended"},
         Contains(SubSeq(netIn, 1, k), Close) => driver' = "ended"
  PROVE  /\ InboundInv'
         /\ netIn' \in Seq(InFrame) /\ got' \in Seq(InFrame)
         /\ inbound' \in Seq(InFrame \cup {Error})
<1> DEFINE a == SubSeq(netIn, 1, k)
<1>1. netIn \in Seq(InFrame) /\ got \in Seq(InFrame) /\ Len(netIn) \in Nat /\ Len(got) \in Nat
  BY DEF TypeOK
<1>2. /\ a \in Seq(InFrame) /\ Len(a) = k /\ \A i \in 1..k : a[i] = netIn[i]
      /\ netIn' \in Seq(InFrame) /\ Len(netIn') = Len(netIn) - k
      /\ \A i \in 1..(Len(netIn) - k) : netIn'[i] = netIn[k + i]
  BY <1>1, Parts
<1>3. CloseLast(a)
  <2> SUFFICES ASSUME NEW i \in 1..k, a[i] = Close PROVE i = k
    BY <1>2 DEF CloseLast
  <2>1. netIn[i] = Close /\ i \in 1..Len(netIn)
    BY <1>1, <1>2
  <2>2. i = Len(netIn)
    BY <2>1 DEF InboundInv, CloseLast
  <2> QED
    BY <1>1, <2>2
<1>4. CloseLast(netIn') /\ (peer' = "sending" => ~Contains(netIn', Close))
  <2>1. \A i \in 1..Len(netIn') : k + i \in 1..Len(netIn) /\ netIn'[i] = netIn[k + i]
                                /\ (k + i = Len(netIn) => i = Len(netIn'))
    BY <1>1, <1>2
  <2> QED
    BY <2>1 DEF InboundInv, CloseLast, Contains
<1> HIDE DEF a
<1>5. inbound' = got \o a /\ got' = got \o a
  <2>1. UpToClose(a) = a
    BY <1>2, <1>3, UpToCloseWhole
  <2> QED
    BY <2>1 DEF Decoded, a
<1>6. got \o a \in Seq(InFrame)
  BY <1>1, <1>2, Joined
<1>7. CloseLast(got \o a) /\ (~Contains(a, Close) => ~Contains(got \o a, Close))
  BY <1>1, <1>2, <1>3, CloseLastJoined
<1>8. UpToClose(got \o a) = got \o a
  BY <1>6, <1>7, UpToCloseWhole
<1>9. InFrame \subseteq InFrame \cup {Error}
  OBVIOUS
<1>10. got \o a \in Seq(InFrame \cup {Error})
  BY <1>6, <1>9, SeqMonotonic
<1>11. StreamFaithful'
  BY <1>5, <1>8 DEF StreamFaithful
<1>12. ~Contains(a, Close) \/ driver' = "ended"
  BY DEF a
<1> QED
  BY <1>2, <1>4, <1>5, <1>6, <1>7, <1>10, <1>11, <1>12 DEF InboundInv

-----------------------------------------------------------------------------
(* The pipe. *)

LEMMA PipeParts ==
  ASSUME TypeOK
  PROVE  /\ Pipe \in Seq(OutFrame)
         /\ Len(Pipe) = Len(wireOut) + Len(writing) + Len(outbound) + Len(sending)
         /\ InOrder(Pipe) => InOrder(wireOut) /\ InOrder(wireOut \o writing)
                            /\ InOrder((wireOut \o writing) \o outbound)
<1> DEFINE a == wireOut \o writing
<1> DEFINE b == a \o outbound
<1>1. wireOut \in Seq(OutFrame) /\ writing \in Seq(OutFrame)
      /\ outbound \in Seq(OutFrame) /\ sending \in Seq(OutFrame)
  BY DEF TypeOK
<1>2. a \in Seq(OutFrame) /\ Len(a) = Len(wireOut) + Len(writing)
  BY <1>1, Joined
<1> HIDE DEF a
<1>3. b \in Seq(OutFrame) /\ Len(b) = Len(a) + Len(outbound)
  BY <1>1, <1>2, Joined
<1> HIDE DEF b
<1>4. b \o sending \in Seq(OutFrame) /\ Len(b \o sending) = Len(b) + Len(sending)
  BY <1>1, <1>3, Joined
<1>5. Pipe = b \o sending
  BY DEF Pipe, a, b
<1>6. InOrder(b \o sending) => InOrder(b)
  BY <1>1, <1>3, InOrderPrefix
<1>7. InOrder(b) => InOrder(a)
  BY <1>1, <1>2, InOrderPrefix DEF b
<1>8. InOrder(a) => InOrder(wireOut)
  BY <1>1, InOrderPrefix DEF a
<1>9. InOrder(Pipe) => InOrder(wireOut) /\ InOrder(a) /\ InOrder(b)
  BY <1>5, <1>6, <1>7, <1>8
<1>10. Pipe \in Seq(OutFrame) /\ Len(Pipe) = Len(b) + Len(sending)
  BY <1>4, <1>5
<1> QED
  BY <1>2, <1>3, <1>9, <1>10 DEF a, b

LEMMA NoEmpty ==
  ASSUME NEW S, NEW s \in Seq(S) PROVE s \o <<>> = s /\ <<>> \o s = s
  BY ConcatEmptySeq

-----------------------------------------------------------------------------
(* The steps. *)

LEMMA SocketInit == Init => SocketInv
<1> SUFFICES ASSUME Init PROVE SocketInv
  OBVIOUS
<1>1. TypeOK
  <2>1. 1 \in 1..MaxIn + 1 /\ 1 \in 1..MaxOut + 2
    BY Assumed
  <2>2. Len(outbound) <= ChannelDepth
    BY Assumed DEF Init
  <2>3. /\ netIn \in Seq(InFrame) /\ got \in Seq(InFrame)
        /\ inbound \in Seq(InFrame \cup {Error}) /\ sending \in Seq(OutFrame)
        /\ writing \in Seq(OutFrame) /\ outbound \in Seq(OutFrame)
        /\ wireOut \in Seq(OutFrame)
    BY DEF Init
  <2> QED
    BY <2>1, <2>2, <2>3 DEF Init, TypeOK
<1>2. UpToClose(got) = <<>>
  BY DEF Init, UpToClose
<1>3. InboundInv
  BY <1>2 DEF Init, InboundInv, StreamFaithful, CloseLast, Contains
<1>4. Pipe = <<>>
  BY DEF Init, Pipe
<1>5. OutboundInv
  BY <1>4 DEF Init, OutboundInv, InOrder, Contains
<1> QED
  BY <1>1, <1>3, <1>5 DEF SocketInv

LEMMA PeerStep ==
  ASSUME SocketInv, PeerAnswers \/ PeerSends \/ PeerEnds \/ Inactivity PROVE SocketInv'
<1>1. TypeOK /\ InboundInv /\ OutboundInv
  BY DEF SocketInv
<1>2. OutboundInv'
  BY <1>1, SameOutbound DEF PeerAnswers, PeerSends, PeerEnds, Inactivity, worldVars
<1>3. CASE PeerAnswers
  <2>1. TypeOK'
    BY <1>1, <1>3 DEF TypeOK, PeerAnswers, worldVars
  <2>2. InboundInv'
    BY <1>1, <1>3, SameInbound DEF PeerAnswers
  <2> QED
    BY <1>2, <2>1, <2>2 DEF SocketInv
<1>4. CASE PeerSends
  <2>1. \E x \in InFrame : netIn' = Append(netIn, x) /\ (x = Close => peer' = "eof")
    <3>1. CASE nextIn <= MaxIn /\ netIn' = Append(netIn, nextIn)
      <4>1. nextIn \in Nat /\ nextIn >= 1 /\ nextIn # Close
        BY <1>1, Assumed DEF TypeOK
      <4>2. nextIn \in InFrame
        BY <3>1, <4>1, Assumed DEF InFrame
      <4> QED
        BY <3>1, <4>1, <4>2
    <3>2. CASE netIn' = Append(netIn, Close) /\ peer' = "eof"
      BY <3>2 DEF InFrame
    <3> QED
      BY <1>4, <3>1, <3>2 DEF PeerSends
  <2>2. PICK x \in InFrame : netIn' = Append(netIn, x) /\ (x = Close => peer' = "eof")
    BY <2>1
  <2>3. netIn \in Seq(InFrame) /\ netIn' \in Seq(InFrame) /\ Len(netIn) \in Nat
        /\ Len(netIn') = Len(netIn) + 1 /\ netIn'[Len(netIn) + 1] = x
        /\ \A i \in 1..Len(netIn) : netIn'[i] = netIn[i]
    BY <1>1, <2>2 DEF TypeOK
  <2>4. TypeOK'
    <3>1. nextIn' \in 1..MaxIn + 1
      BY <1>1, <1>4, Assumed DEF TypeOK, PeerSends
    <3>2. peer' \in {"sending", "eof", "reset"}
      BY <1>1, <1>4 DEF TypeOK, PeerSends
    <3>3. UNCHANGED <<worldVars, reply, driver, upgrade, inbound, ended, outbound,
                      writing, wireOut, got>>
      BY <1>4 DEF PeerSends
    <3> QED
      BY <1>1, <2>3, <3>1, <3>2, <3>3 DEF TypeOK, worldVars
  <2>5. \A i \in 1..Len(netIn) : netIn[i] # Close
    BY <1>1, <1>4 DEF InboundInv, PeerSends, Contains
  <2>6. \A i \in 1..Len(netIn') : i \in 1..Len(netIn) \/ i = Len(netIn')
    BY <2>3
  <2>7. \A i \in 1..Len(netIn') : netIn'[i] = Close => i = Len(netIn') /\ x = Close
    BY <2>3, <2>5, <2>6
  <2>8. CloseLast(netIn') /\ (peer' = "sending" => ~Contains(netIn', Close))
    BY <2>2, <2>7 DEF CloseLast, Contains
  <2>9. UNCHANGED <<driver, got, inbound>>
    BY <1>4 DEF PeerSends
  <2>10. InboundInv'
    BY <1>1, <2>8, <2>9 DEF InboundInv, StreamFaithful
  <2> QED
    BY <1>2, <2>4, <2>10 DEF SocketInv
<1>5. CASE PeerEnds \/ Inactivity
  <2>1. TypeOK'
    BY <1>1, <1>5 DEF TypeOK, PeerEnds, Inactivity, worldVars
  <2>2. InboundInv'
    BY <1>1, <1>5 DEF InboundInv, StreamFaithful, CloseLast, Contains, PeerEnds,
                       Inactivity
  <2> QED
    BY <1>2, <2>1, <2>2 DEF SocketInv
<1> QED
  BY <1>3, <1>4, <1>5

\* The driver ends, and the stream with it.
LEMMA EndStep ==
  ASSUME SocketInv, DialFails \/ HandshakeFails \/ ReadEof PROVE SocketInv'
<1>1. TypeOK /\ InboundInv /\ OutboundInv
  BY DEF SocketInv
<1>2. PICK failed \in BOOLEAN : End(failed)
  BY DEF DialFails, HandshakeFails, ReadEof
<1>3. UNCHANGED <<worldVars, peerVars, netIn, inbound, outbound, wireOut, got>>
  BY DEF DialFails, HandshakeFails, ReadEof
<1>4. TypeOK'
  BY <1>1, <1>2, <1>3 DEF TypeOK, End, worldVars, peerVars
<1>5. InboundInv'
  BY <1>1, <1>2, <1>3, SameInbound DEF End, peerVars
<1>6. OutboundInv'
  BY <1>1, <1>2, <1>3, EndOutbound
<1> QED
  BY <1>4, <1>5, <1>6 DEF SocketInv

LEMMA DialStep == ASSUME SocketInv, DialSucceeds PROVE SocketInv'
<1>1. TypeOK /\ InboundInv /\ OutboundInv
  BY DEF SocketInv
<1>2. TypeOK'
  BY <1>1 DEF TypeOK, DialSucceeds, worldVars, peerVars
<1>3. InboundInv'
  BY <1>1, SameInbound DEF DialSucceeds, peerVars
<1>4. OutboundInv'
  BY <1>1, SameOutbound DEF DialSucceeds
<1> QED
  BY <1>2, <1>3, <1>4 DEF SocketInv

LEMMA HandshakeStep ==
  ASSUME SocketInv, NEW k \in Nat, HandshakeSucceeds(k) PROVE SocketInv'
<1> DEFINE fs == SubSeq(netIn, 1, k)
<1>1. TypeOK /\ InboundInv /\ OutboundInv
  BY DEF SocketInv
<1>2. k \in 0..Len(netIn) /\ netIn \in Seq(InFrame)
  BY <1>1 DEF HandshakeSucceeds, TypeOK
<1>3. got = <<>> /\ inbound = <<>>
  BY <1>1 DEF HandshakeSucceeds, InboundInv
<1>4. ~Contains(got, Close)
  BY <1>3 DEF Contains
<1>5. fs \in Seq(InFrame)
  BY <1>2, Parts
<1>6. got' = got \o fs
  <2>1. <<>> \o fs = fs
    BY <1>5, ConcatEmptySeq
  <2> QED
    BY <1>3, <2>1 DEF HandshakeSucceeds
<1>7. /\ netIn' = SubSeq(netIn, k + 1, Len(netIn)) /\ Decoded(fs) /\ peer' = peer
      /\ driver' \in {"pump", "ended"} /\ (Contains(fs, Close) => driver' = "ended")
  BY DEF HandshakeSucceeds, peerVars
<1>8. /\ InboundInv' /\ netIn' \in Seq(InFrame) /\ got' \in Seq(InFrame)
      /\ inbound' \in Seq(InFrame \cup {Error})
  BY <1>1, <1>2, <1>3, <1>4, <1>6, <1>7, FramesRead
<1> HIDE DEF fs
<1>9. TypeOK'
  BY <1>1, <1>8 DEF TypeOK, HandshakeSucceeds, worldVars, peerVars
<1>10. OutboundInv'
  BY <1>1, <1>7, SameOutbound DEF HandshakeSucceeds
<1> QED
  BY <1>8, <1>9, <1>10 DEF SocketInv

LEMMA ReadStep == ASSUME SocketInv, NEW k \in Nat, Read(k) PROVE SocketInv'
<1> DEFINE fs == SubSeq(netIn, 1, k)
<1>1. TypeOK /\ InboundInv /\ OutboundInv
  BY DEF SocketInv
<1>2. k \in 0..Len(netIn)
  BY <1>1 DEF Read, TypeOK
<1>3. inbound = got /\ ~Contains(got, Close)
  BY <1>1 DEF Read, InboundInv
<1>4. /\ got' = got \o fs /\ netIn' = SubSeq(netIn, k + 1, Len(netIn))
      /\ Decoded(fs) /\ peer' = peer
      /\ driver' \in {"pump", "ended"} /\ (Contains(fs, Close) => driver' = "ended")
  BY DEF Read, peerVars, End
<1>5. /\ InboundInv' /\ netIn' \in Seq(InFrame) /\ got' \in Seq(InFrame)
      /\ inbound' \in Seq(InFrame \cup {Error})
  BY <1>1, <1>2, <1>3, <1>4, FramesRead
<1> HIDE DEF fs
<1>6. TypeOK'
  <2>1. /\ driver' \in {"pump", "ended"} /\ ended' \in BOOLEAN
        /\ reply' \in {"none", "ok", "error"} /\ writing' \in Seq(OutFrame)
    <3>1. CASE End(FALSE)
      BY <1>1, <3>1 DEF TypeOK, End
    <3>2. CASE UNCHANGED <<driver, ended, writing, reply>>
      BY <1>1, <1>4, <3>2 DEF TypeOK
    <3> QED
      BY <3>1, <3>2 DEF Read
  <2>2. UNCHANGED <<worldVars, peerVars, outbound, wireOut>>
    BY DEF Read
  <2> QED
    BY <1>1, <1>5, <2>1, <2>2 DEF TypeOK, worldVars, peerVars
<1>7. OutboundInv'
  <2>1. CASE End(FALSE)
    BY <1>1, <2>1, EndOutbound DEF Read
  <2>2. CASE UNCHANGED <<driver, ended, writing, reply>>
    BY <1>1, <2>2, SameOutbound DEF Read
  <2> QED
    BY <2>1, <2>2 DEF Read
<1> QED
  BY <1>5, <1>6, <1>7 DEF SocketInv

LEMMA FailStep == ASSUME SocketInv, Fail PROVE SocketInv'
<1>1. TypeOK /\ InboundInv /\ OutboundInv
  BY DEF SocketInv
<1>2. inbound = got /\ inbound' = Append(inbound, Error) /\ End(TRUE)
      /\ UNCHANGED <<worldVars, peerVars, netIn, outbound, wireOut, got>>
  BY <1>1 DEF Fail, InboundInv
<1>3. inbound' \in Seq(InFrame \cup {Error})
  BY <1>1, <1>2 DEF TypeOK
<1>4. TypeOK'
  BY <1>1, <1>2, <1>3 DEF TypeOK, End, worldVars, peerVars
<1>5. StreamFaithful'
  BY <1>2 DEF StreamFaithful
<1>6. InboundInv'
  BY <1>1, <1>2, <1>5 DEF InboundInv, End, CloseLast, Contains, peerVars
<1>7. OutboundInv'
  BY <1>1, <1>2, EndOutbound
<1> QED
  BY <1>4, <1>6, <1>7 DEF SocketInv

LEMMA TakeStep == ASSUME SocketInv, TakeOutbound PROVE SocketInv'
<1>1. TypeOK /\ InboundInv /\ OutboundInv
  BY DEF SocketInv
<1>2. /\ wireOut \in Seq(OutFrame) /\ outbound \in Seq(OutFrame) /\ outbound # <<>>
      /\ writing = <<>> /\ Len(outbound) <= ChannelDepth
  BY <1>1 DEF TypeOK, TakeOutbound, OutboundInv
<1>3. /\ Head(outbound) \in OutFrame /\ Tail(outbound) \in Seq(OutFrame)
      /\ Len(Tail(outbound)) = Len(outbound) - 1
      /\ <<Head(outbound)>> \o Tail(outbound) = outbound
  BY <1>2
<1>4. writing' = <<Head(outbound)>> /\ outbound' = Tail(outbound) /\ driver' = "writing"
      /\ UNCHANGED <<worldVars, peerVars, reply, netIn, inbound, ended, wireOut, got>>
  BY DEF TakeOutbound
<1>5. writing' \in Seq(OutFrame) /\ Len(writing') = 1
  BY <1>3, <1>4
<1>6. Len(outbound') <= ChannelDepth
  BY <1>2, <1>3, <1>4, Assumed
<1>7. TypeOK'
  BY <1>1, <1>3, <1>4, <1>5, <1>6 DEF TypeOK, worldVars, peerVars
<1>8. InboundInv'
  BY <1>1, <1>4, SameInbound DEF TakeOutbound, peerVars
<1>9. Pipe' = Pipe
  <2>1. (wireOut \o writing) \o outbound = wireOut \o outbound
    BY <1>2, NoEmpty
  <2>2. (wireOut \o writing') \o outbound' = wireOut \o (writing' \o outbound')
    BY <1>2, <1>3, <1>4, <1>5, ConcatAssociative
  <2> QED
    BY <1>3, <1>4, <2>1, <2>2 DEF Pipe, worldVars
<1>10. OutboundInv'
  BY <1>1, <1>4, <1>5, <1>9 DEF OutboundInv, TakeOutbound, worldVars, InOrder, Contains
<1> QED
  BY <1>7, <1>8, <1>10 DEF SocketInv

LEMMA WrittenStep == ASSUME SocketInv, Written PROVE SocketInv'
<1>1. TypeOK /\ InboundInv /\ OutboundInv
  BY DEF SocketInv
<1>2. wireOut \in Seq(OutFrame) /\ writing \in Seq(OutFrame)
  BY <1>1 DEF TypeOK
<1>3. wireOut' = wireOut \o writing /\ writing' = <<>> /\ driver' \in {"pump", "ended"}
      /\ UNCHANGED <<worldVars, peerVars, netIn, inbound, outbound, got>>
  BY DEF Written, End
<1>4. wireOut' \in Seq(OutFrame) /\ wireOut' \o writing' = wireOut'
  BY <1>2, <1>3, Joined, NoEmpty
<1>5. TypeOK'
  <2>1. ended' \in BOOLEAN /\ reply' \in {"none", "ok", "error"}
    BY <1>1 DEF TypeOK, Written, End
  <2>2. writing' \in Seq(OutFrame)
    BY <1>3
  <2> QED
    BY <1>1, <1>3, <1>4, <2>1, <2>2 DEF TypeOK, worldVars, peerVars
<1>6. InboundInv'
  BY <1>1, <1>3, SameInbound DEF Written, peerVars
<1>7. Pipe' = Pipe
  BY <1>3, <1>4 DEF Pipe, worldVars
<1>8. InOrder(wireOut')
  BY <1>1, <1>3, PipeParts DEF OutboundInv, Written
<1>9. OutboundInv'
  BY <1>1, <1>3, <1>7, <1>8 DEF OutboundInv, Written, worldVars, InOrder, Contains
<1> QED
  BY <1>5, <1>6, <1>9 DEF SocketInv

LEMMA ReturnStep == ASSUME SocketInv, ConnectReturns PROVE SocketInv'
<1>1. TypeOK /\ InboundInv /\ OutboundInv
  BY DEF SocketInv
<1>2. TypeOK'
  BY <1>1 DEF TypeOK, ConnectReturns, peerVars
<1>3. InboundInv'
  BY <1>1, SameInbound DEF ConnectReturns, peerVars
<1>4. Pipe' = Pipe
  BY DEF Pipe, ConnectReturns
<1>5. OutboundInv'
  BY <1>1, <1>4 DEF OutboundInv, ConnectReturns, InOrder, Contains
<1> QED
  BY <1>2, <1>3, <1>5 DEF SocketInv

LEMMA WorldStep == ASSUME SocketInv, WorldSends PROVE SocketInv'
<1>1. TypeOK /\ InboundInv /\ OutboundInv
  BY DEF SocketInv
<1>2. /\ sending = <<>> /\ world = "open" /\ nextOut \in 1..MaxOut + 1
      /\ UNCHANGED <<peerVars, world, reply, driver, netIn, inbound, ended, outbound,
                     writing, wireOut, got>>
  BY <1>1, Assumed DEF WorldSends, TypeOK
<1>3. \E x \in OutFrame : /\ sending' = <<x>> /\ x \in {nextOut, Close}
                          /\ nextOut' \in 1..MaxOut + 2
                          /\ x = Close => nextOut' = MaxOut + 2
                          /\ x # Close => nextOut' = nextOut + 1
  <2>1. CASE nextOut <= MaxOut /\ sending' = <<nextOut>> /\ nextOut' = nextOut + 1
    <3>1. nextOut \in Nat /\ nextOut >= 1 /\ nextOut # Close
      BY <1>2, Assumed
    <3>2. nextOut \in OutFrame /\ nextOut' \in 1..MaxOut + 2
      BY <2>1, <3>1, Assumed DEF OutFrame
    <3> QED
      BY <2>1, <3>1, <3>2
  <2>2. CASE sending' = <<Close>> /\ nextOut' = MaxOut + 2
    <3>1. Close \in OutFrame /\ MaxOut + 2 \in 1..MaxOut + 2
      BY Assumed DEF OutFrame
    <3> QED
      BY <2>2, <3>1
  <2> QED
    BY <2>1, <2>2 DEF WorldSends
<1>4. PICK x \in OutFrame : /\ sending' = <<x>> /\ x \in {nextOut, Close}
                            /\ nextOut' \in 1..MaxOut + 2
                            /\ x = Close => nextOut' = MaxOut + 2
                            /\ x # Close => nextOut' = nextOut + 1
  BY <1>3
<1>5. sending' \in Seq(OutFrame) /\ Len(sending') = 1
  BY <1>4
<1>6. TypeOK'
  BY <1>1, <1>2, <1>4, <1>5 DEF TypeOK, peerVars
<1>7. InboundInv'
  BY <1>1, <1>2, SameInbound DEF peerVars
<1> DEFINE Full == Len(Pipe) = nextOut - 1 /\ ~Contains(Pipe, Close)
<1>8. /\ IF driver' = "writing" THEN Len(writing') = 1 ELSE writing' = <<>>
      /\ InOrder(wireOut)'
  <2>1. UNCHANGED <<driver, writing, wireOut>>
    BY <1>2
  <2> QED
    BY <1>1, <2>1 DEF OutboundInv, InOrder
<1>9. CASE driver = "ended"
  <2>1. OutboundInv'
    BY <1>8, <1>2, <1>5, <1>9 DEF OutboundInv
  <2> QED
    BY <1>6, <1>7, <2>1 DEF SocketInv
<1>10. CASE driver # "ended"
  <2>1. Pipe \in Seq(OutFrame)
    BY <1>1, PipeParts
  <2>2. Pipe' = Append(Pipe, x)
    <3> DEFINE b == (wireOut \o writing) \o outbound
    <3>1. b \in Seq(OutFrame)
      BY <1>1, Joined DEF TypeOK
    <3> HIDE DEF b
    <3>2. b \o <<>> = b /\ b \o <<x>> = Append(b, x)
      BY <3>1, NoEmpty
    <3>3. Pipe = b \o sending /\ Pipe' = b \o sending'
      BY <1>2 DEF Pipe, b
    <3> QED
      BY <1>2, <1>4, <3>2, <3>3
  <2>3. InOrder(Pipe) /\ Len(Pipe) = nextOut - 1 /\ ~Contains(Pipe, Close)
    BY <1>1, <1>2, <1>10, Assumed DEF OutboundInv
  <2>4. x \in {Len(Pipe) + 1, Close}
    BY <1>2, <1>4, <2>3
  <2>5. InOrder(Pipe')
    BY <2>1, <2>2, <2>3, <2>4, InOrderAppend
  <2>6. nextOut' <= MaxOut + 1 => Len(Pipe') = nextOut' - 1 /\ ~Contains(Pipe', Close)
    <3> SUFFICES ASSUME nextOut' <= MaxOut + 1
                 PROVE  Len(Pipe') = nextOut' - 1 /\ ~Contains(Pipe', Close)
      OBVIOUS
    <3>1. x # Close /\ nextOut' = nextOut + 1
      BY <1>4, Assumed
    <3>2. Len(Pipe) \in Nat /\ Len(Pipe') = Len(Pipe) + 1 /\ Pipe'[Len(Pipe) + 1] = x
          /\ \A i \in 1..Len(Pipe) : Pipe'[i] = Pipe[i]
      BY <2>1, <2>2
    <3>3. Len(Pipe') = nextOut' - 1
      BY <1>2, <2>3, <3>1, <3>2
    <3>4. \A i \in 1..Len(Pipe') : i \in 1..Len(Pipe) \/ i = Len(Pipe) + 1
      BY <3>2
    <3>5. ~Contains(Pipe', Close)
      BY <2>3, <3>1, <3>2, <3>4 DEF Contains
    <3> QED
      BY <3>3, <3>5
  <2>7. InOrder(Pipe)' /\ (nextOut' <= MaxOut + 1 => Full')
    BY <2>5, <2>6 DEF InOrder, Contains
  <2>8. OutboundInv'
    BY <1>8, <1>5, <2>7 DEF OutboundInv
  <2> QED
    BY <1>6, <1>7, <2>8 DEF SocketInv
<1> QED
  BY <1>9, <1>10

LEMMA ResolveStep == ASSUME SocketInv, SendResolves PROVE SocketInv'
<1>1. TypeOK /\ InboundInv /\ OutboundInv
  BY DEF SocketInv
<1>2. /\ sending \in Seq(OutFrame) /\ Len(sending) = 1 /\ outbound \in Seq(OutFrame)
      /\ Len(outbound) < ChannelDepth
      /\ wireOut \in Seq(OutFrame) /\ writing \in Seq(OutFrame)
  BY <1>1 DEF TypeOK, OutboundInv, SendResolves
<1>3. /\ outbound' = outbound \o sending /\ sending' = <<>>
      /\ UNCHANGED <<peerVars, world, nextOut, reply, driver, netIn, inbound, ended,
                     writing, wireOut, got>>
  BY DEF SendResolves
<1>4. outbound' \in Seq(OutFrame) /\ Len(outbound') = Len(outbound) + 1
  <2>1. /\ outbound \o sending \in Seq(OutFrame)
        /\ Len(outbound \o sending) = Len(outbound) + Len(sending)
    BY <1>2, Joined
  <2> QED
    BY <1>2, <1>3, <2>1
<1>5. Len(outbound') <= ChannelDepth
  <2>1. Len(outbound) \in Nat
    BY <1>2
  <2> QED
    BY <1>2, <1>4, <2>1, Assumed
<1>6. TypeOK'
  BY <1>1, <1>3, <1>4, <1>5 DEF TypeOK, peerVars
<1>7. InboundInv'
  BY <1>1, <1>3, SameInbound DEF peerVars
<1>8. Pipe' = Pipe
  <2> DEFINE a == wireOut \o writing
  <2>1. a \in Seq(OutFrame)
    BY <1>2, Joined
  <2> HIDE DEF a
  <2>2. (a \o outbound') \o sending' = a \o outbound'
    BY <1>3, <1>4, <2>1, Joined, NoEmpty
  <2>3. (a \o outbound) \o sending = a \o (outbound \o sending)
    BY <1>2, <2>1, ConcatAssociative, SMTT(30)
  <2>4. Pipe = (a \o outbound) \o sending /\ Pipe' = (a \o outbound') \o sending'
    BY <1>3 DEF Pipe, a
  <2> QED
    BY <1>3, <2>2, <2>3, <2>4
<1>9. OutboundInv'
  BY <1>1, <1>3, <1>8 DEF OutboundInv, InOrder, Contains
<1> QED
  BY <1>6, <1>7, <1>9 DEF SocketInv

LEMMA AbandonStep == ASSUME SocketInv, Abandon PROVE SocketInv'
<1>1. TypeOK /\ InboundInv /\ OutboundInv
  BY DEF SocketInv
<1>2. /\ sending' = <<>> /\ world' = "gone"
      /\ UNCHANGED <<peerVars, nextOut, reply, driver, netIn, inbound, ended, outbound,
                     writing, wireOut, got>>
  BY DEF Abandon
<1>3. TypeOK'
  BY <1>1, <1>2 DEF TypeOK, peerVars
<1>4. InboundInv'
  BY <1>1, <1>2, SameInbound DEF peerVars
<1>5. Pipe' = (wireOut \o writing) \o outbound
  <2>1. (wireOut \o writing) \o outbound \in Seq(OutFrame)
    BY <1>1, Joined DEF TypeOK
  <2> QED
    BY <1>2, <2>1, NoEmpty DEF Pipe
<1>6. driver # "ended" => InOrder(Pipe')
  BY <1>1, <1>5, PipeParts DEF OutboundInv
<1>7. OutboundInv'
  BY <1>1, <1>2, <1>6 DEF OutboundInv, InOrder
<1> QED
  BY <1>3, <1>4, <1>7 DEF SocketInv

LEMMA SocketStutter == ASSUME SocketInv, UNCHANGED vars PROVE SocketInv'
<1>1. TypeOK'
  BY DEF SocketInv, TypeOK, vars
<1>2. InboundInv'
  BY DEF SocketInv, InboundInv, StreamFaithful, CloseLast, Contains, vars
<1>3. Pipe' = Pipe
  BY DEF Pipe, vars
<1>4. OutboundInv'
  BY <1>3 DEF SocketInv, OutboundInv, InOrder, Contains, vars
<1> QED
  BY <1>1, <1>2, <1>4 DEF SocketInv

LEMMA SocketNext == SocketInv /\ [Next]_vars => SocketInv'
<1> SUFFICES ASSUME SocketInv, [Next]_vars PROVE SocketInv'
  OBVIOUS
<1>1. CASE PeerAnswers \/ PeerSends \/ PeerEnds \/ Inactivity
  BY <1>1, PeerStep
<1>2. CASE DialFails \/ HandshakeFails \/ ReadEof
  BY <1>2, EndStep
<1>3. CASE DialSucceeds
  BY <1>3, DialStep
<1>4. CASE \E k \in 0..MaxIn + 1 : HandshakeSucceeds(k)
  BY <1>4, HandshakeStep
<1>5. CASE \E k \in 1..MaxIn + 1 : Read(k)
  BY <1>5, ReadStep
<1>6. CASE Fail
  BY <1>6, FailStep
<1>7. CASE TakeOutbound
  BY <1>7, TakeStep
<1>8. CASE Written
  BY <1>8, WrittenStep
<1>9. CASE ConnectReturns \/ WorldSends \/ SendResolves \/ Abandon
  BY <1>9, ReturnStep, WorldStep, ResolveStep, AbandonStep
<1>10. CASE UNCHANGED vars
  BY <1>10, SocketStutter
<1> QED
  BY <1>1, <1>2, <1>3, <1>4, <1>5, <1>6, <1>7, <1>8, <1>9, <1>10 DEF Next, Driver

LEMMA SocketInvFaithful == SocketInv => Faithful
<1> SUFFICES ASSUME SocketInv PROVE Faithful
  OBVIOUS
<1>1. WireFaithful
  BY DEF SocketInv, OutboundInv, WireFaithful, Pipe
<1> QED
  BY <1>1 DEF SocketInv, InboundInv, Faithful

\* For any depth of the channel and any number of messages, the stream yields
\* every frame read up to a Close, in order and once, then at most one error;
\* and what the world sends reaches the wire in order, with nothing lost while
\* the driver lives.
THEOREM SocketFaithful == Spec => []Faithful
<1>1. Spec => []SocketInv
  BY SocketInit, SocketNext, PTL DEF Spec
<1> QED
  BY <1>1, SocketInvFaithful, PTL

=============================================================================

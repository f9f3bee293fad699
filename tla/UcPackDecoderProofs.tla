------------------------- MODULE UcPackDecoderProofs -------------------------
(***************************************************************************)
(* The invariants of UcPackDecoder for every byte set, every checksum,     *)
(* every payload limit, every buffer and read size with                    *)
(* FrameMax - 1 + ReadMax <= Cap, and every stream.                        *)
(*                                                                         *)
(* NoFrameSkipped needs the reason a position was passed over: either its  *)
(* head is bad or its complete frame has a bad trailer.  Both verdicts are *)
(* final, because they look only at bytes already received.                *)
(*                                                                         *)
(* ChunkingIndependent needs the same of the frames popped: for every      *)
(* stream that goes on from the one received, they are the first frames of *)
(* the reference parse, which goes on where the buffer begins.  That the   *)
(* parse, a recursive function, exists for every stream is proved by the   *)
(* least number of positions, from the end, for which it would not.        *)
(*                                                                         *)
(* FramesRoundTrip is about the frames themselves: the parse inverts the   *)
(* encoder.  With the bytes, the limits and the checksum of the code       *)
(* (RealBytes) it becomes CommandRoundTrip and StatusRoundTrip, and        *)
(* DamagedFrameRefused adds what crc8 is there for.                        *)
(***************************************************************************)
EXTENDS UcPackDecoder, UcPackCodec, SequenceTheorems, WellFoundedInduction, TLAPS

Rejected(b) == BadHead(b) \/ (Complete(b) /\ ~Trailer(b))

Types ==
  /\ buf \in Seq(Byte) /\ stream \in Seq(Byte) /\ base \in Nat
  /\ pushed \in 0..ReadMax
  /\ starts \subseteq Nat

Fill == dropped = 0 /\ Len(buf) <= FrameMax - 1 + pushed

Aligned ==
  /\ Len(stream) = base + Len(buf)
  /\ \A i \in 1..Len(buf) : buf[i] = stream[base + i]
  /\ \A q \in starts : 1 <= q /\ q + 1 <= base

Covered(p) == \E q \in starts : p \in Extent(q)

Judged == \A p \in 1..base : Rejected(From(p)) \/ Covered(p)

DecoderInv == Types /\ Fill /\ Aligned /\ Judged

-----------------------------------------------------------------------------

\* Sequences that agree on m..k have the same subsequence there.
LEMMA SubSeqAgree ==
  ASSUME NEW S, NEW b \in Seq(S), NEW c \in Seq(S), NEW m \in Nat, NEW k \in Nat,
         1 <= m, k <= Len(b), k <= Len(c), \A i \in m..k : b[i] = c[i]
  PROVE  SubSeq(b, m, k) = SubSeq(c, m, k)
<1>1. \A i \in m..k : b[i] \in S /\ c[i] \in S
  OBVIOUS
<1>2. m \in Int /\ k \in Int
  OBVIOUS
<1>3. /\ SubSeq(b, m, k) \in Seq(S)
      /\ Len(SubSeq(b, m, k)) = IF m <= k THEN k - m + 1 ELSE 0
      /\ \A i \in 1 .. k - m + 1 : SubSeq(b, m, k)[i] = b[m + i - 1]
  BY <1>1, <1>2, SubSeqProperties
<1>4. /\ SubSeq(c, m, k) \in Seq(S)
      /\ Len(SubSeq(c, m, k)) = IF m <= k THEN k - m + 1 ELSE 0
      /\ \A i \in 1 .. k - m + 1 : SubSeq(c, m, k)[i] = c[m + i - 1]
  BY <1>1, <1>2, SubSeqProperties
<1>5. \A i \in 1 .. Len(SubSeq(b, m, k)) :
        i \in 1 .. k - m + 1 /\ m + i - 1 \in m..k
  BY <1>3
<1>6. \A i \in 1 .. Len(SubSeq(b, m, k)) : SubSeq(b, m, k)[i] = SubSeq(c, m, k)[i]
  BY <1>3, <1>4, <1>5
<1> QED
  BY <1>3, <1>4, <1>6, SeqEqual

\* A verdict on a prefix stands when more bytes arrive.
LEMMA RejectedStable ==
  ASSUME NEW b \in Seq(Byte), NEW c \in Seq(Byte), Len(b) <= Len(c),
         \A i \in 1..Len(b) : b[i] = c[i], Rejected(b)
  PROVE  Rejected(c)
<1> USE DecoderAssumption DEF DecoderAssumption
<1>1. CASE BadHead(b)
  BY <1>1 DEF BadHead, Rejected
<1>2. CASE Complete(b) /\ ~Trailer(b)
  <2>1. PICK n \in Nat : n = b[2]
    <3>1. 2 \in 1..Len(b)
      BY <1>2 DEF Complete
    <3>2. b[2] \in Byte
      BY <3>1
    <3> QED
      BY <3>2
  <2>2. b[1] = START /\ ~BadLen(n) /\ Len(b) >= n + 4 /\ Len(b) > 1
    BY <1>2, <2>1 DEF Complete, Total
  <2>3. n > 0
    BY <2>2 DEF BadLen
  <2>4. c[1] = START /\ c[2] = n /\ Len(c) > 1 /\ Len(c) >= n + 4
    BY <2>1, <2>2
  <2>5. c[n + 3] = b[n + 3] /\ c[n + 4] = b[n + 4]
    BY <2>2, <2>3
  <2>6. SubSeq(b, 3, 2 + n) = SubSeq(c, 3, 2 + n)
    <3>1. 2 + n \in Nat /\ 2 + n <= Len(b) /\ 2 + n <= Len(c)
      BY <2>2, <2>4
    <3>2. \A i \in 3 .. 2 + n : b[i] = c[i]
      BY <3>1
    <3> QED
      BY <3>1, <3>2, SubSeqAgree
  <2>7. Complete(c)
    BY <2>2, <2>4 DEF Complete, Total
  <2>8. ~Trailer(c)
    BY <1>2, <2>1, <2>4, <2>5, <2>6 DEF Trailer
  <2> QED
    BY <2>7, <2>8 DEF Rejected
<1> QED
  BY <1>1, <1>2 DEF Rejected

\* The bytes of the stream from position p on.
LEMMA FromProperties ==
  ASSUME NEW s \in Seq(Byte), NEW p \in 1 .. Len(s)
  PROVE  /\ SubSeq(s, p, Len(s)) \in Seq(Byte)
         /\ Len(SubSeq(s, p, Len(s))) = Len(s) - p + 1
         /\ \A i \in 1 .. Len(s) - p + 1 : SubSeq(s, p, Len(s))[i] = s[p + i - 1]
<1>1. p \in Int /\ Len(s) \in Int /\ p <= Len(s) /\ \A i \in p..Len(s) : s[i] \in Byte
  OBVIOUS
<1> QED
  BY <1>1, SubSeqProperties

\* The buffer is the unread end of the stream.
LEMMA WindowIsFrom ==
  ASSUME Types, Aligned, buf # <<>>
  PROVE  buf = From(base + 1) /\ base + 1 \in 1..Len(stream)
<1>1. base + 1 \in 1..Len(stream) /\ Len(buf) = Len(stream) - (base + 1) + 1
  BY DEF Types, Aligned
<1>2. \A i \in 1..Len(buf) : buf[i] = From(base + 1)[i]
  <2> SUFFICES ASSUME NEW i \in 1..Len(buf) PROVE buf[i] = From(base + 1)[i]
    OBVIOUS
  <2>1. From(base + 1)[i] = stream[(base + 1) + i - 1]
    BY <1>1, FromProperties DEF From, Types
  <2>2. (base + 1) + i - 1 = base + i
    BY DEF Types
  <2> QED
    BY <2>1, <2>2 DEF Aligned
<1>3. From(base + 1) \in Seq(Byte) /\ Len(From(base + 1)) = Len(buf)
  BY <1>1, FromProperties DEF From, Types
<1> QED
  BY <1>1, <1>2, <1>3, SeqEqual DEF Types

\* What drain leaves behind is shorter than a frame.
LEMMA LeftoverShort ==
  ASSUME Types, ~BadHead(buf), ~Complete(buf)
  PROVE  Len(buf) <= FrameMax - 1
<1> USE DecoderAssumption DEF DecoderAssumption
<1>1. CASE Len(buf) <= 1
  BY <1>1 DEF FrameMax, Types
<1>2. CASE Len(buf) > 1
  <2>1. buf[1] = START /\ ~BadLen(buf[2]) /\ buf[2] \in Nat
    <3>1. 2 \in 1..Len(buf)
      BY <1>2 DEF Types
    <3>2. buf[2] \in Byte /\ Byte \subseteq Nat /\ Len(buf) > 0
      BY <1>2, <3>1 DEF Types
    <3>3. buf[1] = START /\ ~BadLen(buf[2])
      BY <1>2, <3>2 DEF BadHead
    <3> QED
      BY <3>2, <3>3
  <2>2. Len(buf) < buf[2] + 4
    BY <1>2, <2>1 DEF Complete, Total, Types
  <2> QED
    BY <2>1, <2>2 DEF BadLen, FrameMax, Types
<1> QED
  BY <1>1, <1>2 DEF Types

\* Dropping n bytes from the front keeps the window aligned.
LEMMA DropAligned ==
  ASSUME Types, Aligned, NEW n \in Nat, n <= Len(buf), DropFront(n),
         UNCHANGED <<stream, pushed>>, starts' \subseteq Nat,
         \A q \in starts' : 1 <= q /\ q + 1 <= base + n
  PROVE  Types' /\ Aligned' /\ Len(buf') = Len(buf) - n
<1> DEFINE L == Len(buf)
<1>1. L \in Nat /\ n + 1 \in Int /\ \A i \in n + 1 .. L : buf[i] \in Byte
  BY DEF Types
<1>2. /\ buf' \in Seq(Byte)
      /\ Len(buf') = IF n + 1 <= L THEN L - (n + 1) + 1 ELSE 0
      /\ \A i \in 1 .. L - (n + 1) + 1 : buf'[i] = buf[n + 1 + i - 1]
  BY <1>1, SubSeqProperties DEF DropFront
<1>3. Len(buf') = L - n
  BY <1>1, <1>2
<1>4. base' = base + n
  BY DEF DropFront
<1>5. \A i \in 1..Len(buf') : buf'[i] = stream[base' + i]
  <2> SUFFICES ASSUME NEW i \in 1..Len(buf') PROVE buf'[i] = stream[base' + i]
    OBVIOUS
  <2>1. n + i \in 1..L /\ i \in 1 .. L - (n + 1) + 1 /\ n + 1 + i - 1 = n + i
    BY <1>1, <1>3
  <2>2. base + (n + i) = base' + i
    BY <1>4 DEF Types
  <2> QED
    BY <1>2, <2>1, <2>2 DEF Aligned
<1>6. Types'
  BY <1>2, <1>4 DEF Types
<1>7. Len(stream') = base' + Len(buf')
  BY <1>1, <1>3, <1>4 DEF Types, Aligned
<1>8. \A q \in starts' : 1 <= q /\ q + 1 <= base'
  BY <1>4
<1> QED
  BY <1>3, <1>5, <1>6, <1>7, <1>8 DEF Aligned

\* The judged part of the stream keeps its verdicts while base stands still.
LEMMA JudgedPush ==
  ASSUME Types, Aligned, Judged, NEW b \in Byte, stream' = Append(stream, b),
         UNCHANGED <<base, starts>>
  PROVE  Judged'
<1>1. /\ stream' \in Seq(Byte) /\ Len(stream') = Len(stream) + 1
      /\ \A i \in 1..Len(stream) : stream'[i] = stream[i]
      /\ Len(stream) \in Nat
  BY DEF Types
<1> SUFFICES ASSUME NEW p \in 1..base
             PROVE  Rejected(From(p)') \/ Covered(p)'
  BY DEF Judged, From
<1>2. p \in 1..Len(stream) /\ p \in 1..Len(stream')
  BY <1>1 DEF Types, Aligned
<1>3. CASE Rejected(From(p))
  <2>1. /\ From(p) \in Seq(Byte) /\ Len(From(p)) = Len(stream) - p + 1
        /\ \A i \in 1 .. Len(stream) - p + 1 : From(p)[i] = stream[p + i - 1]
    BY <1>2, FromProperties DEF From, Types
  <2>2. /\ From(p)' \in Seq(Byte) /\ Len(From(p)') = Len(stream') - p + 1
        /\ \A i \in 1 .. Len(stream') - p + 1 : (From(p)')[i] = stream'[p + i - 1]
    BY <1>1, <1>2, FromProperties DEF From
  <2>3. \A i \in 1 .. Len(From(p)) : /\ p + i - 1 \in 1..Len(stream)
                                     /\ i \in 1 .. Len(stream') - p + 1
    BY <1>1, <1>2, <2>1
  <2>4. \A i \in 1 .. Len(From(p)) : From(p)[i] = (From(p)')[i]
    BY <1>1, <2>1, <2>2, <2>3
  <2>5. Len(From(p)) <= Len(From(p)')
    BY <1>1, <2>1, <2>2
  <2> QED
    BY <1>3, <2>1, <2>2, <2>4, <2>5, RejectedStable
<1>4. CASE Covered(p)
  <2>1. PICK q \in starts : p \in Extent(q)
    BY <1>4 DEF Covered
  <2>2. q + 1 \in 1..Len(stream)
    BY <1>1 DEF Types, Aligned
  <2>3. stream'[q + 1] = stream[q + 1]
    BY <1>1, <2>2
  <2> QED
    BY <2>1, <2>3 DEF Covered, Extent
<1> QED
  BY <1>3, <1>4 DEF Judged

\* Positions newly behind base are judged if they are rejected or lie inside a
\* frame that was just popped.
LEMMA JudgedDrop ==
  ASSUME Types, Judged, NEW n \in Nat, base' = base + n, UNCHANGED stream,
         starts \subseteq starts',
         \A p \in base + 1 .. base + n : Rejected(From(p)) \/ Covered(p)'
  PROVE  Judged'
<1> SUFFICES ASSUME NEW p \in 1..base + n
             PROVE  Rejected(From(p)') \/ Covered(p)'
  BY DEF Judged, From
<1>1. From(p)' = From(p)
  BY DEF From
<1>2. CASE p <= base
  <2>1. Rejected(From(p)) \/ Covered(p)
    BY <1>2 DEF Judged, Types
  <2>2. Covered(p) => Covered(p)'
    BY DEF Covered, Extent
  <2> QED
    BY <1>1, <2>1, <2>2
<1>3. CASE p > base
  BY <1>1, <1>3 DEF Types
<1> QED
  BY <1>2, <1>3 DEF Types

LEMMA DecoderInvInit == Init => DecoderInv
<1> SUFFICES ASSUME Init PROVE DecoderInv
  OBVIOUS
<1> USE DecoderAssumption DEF DecoderAssumption, Init
<1>1. Types
  BY DEF Types
<1>2. Fill
  BY DEF Fill, FrameMax
<1>3. Aligned
  BY DEF Aligned
<1>4. Judged
  BY DEF Judged
<1> QED
  BY <1>1, <1>2, <1>3, <1>4 DEF DecoderInv

LEMMA DecoderInvNext == DecoderInv /\ [Next]_vars => DecoderInv'
<1> SUFFICES ASSUME DecoderInv, [Next]_vars PROVE DecoderInv'
  OBVIOUS
<1> USE DecoderAssumption DEF DecoderInv, DecoderAssumption
<1>1. ASSUME NEW b \in Byte, Push(b) PROVE DecoderInv'
  \* A read of ReadMax bytes behind a short leftover fits: no byte is dropped.
  <2>1. Len(buf) < Cap
    BY <1>1 DEF Push, Fill, FrameMax, Types
  <2>2. /\ buf' = Append(buf, b) /\ stream' = Append(stream, b)
        /\ pushed' = pushed + 1 /\ pushed < ReadMax
        /\ UNCHANGED <<base, starts, dropped>>
    BY <1>1, <2>1 DEF Push, Types
  <2>3. /\ buf' \in Seq(Byte) /\ Len(buf') = Len(buf) + 1 /\ Len(buf) \in Nat
        /\ stream' \in Seq(Byte) /\ Len(stream') = Len(stream) + 1
        /\ Len(stream) \in Nat
    BY <2>2 DEF Types
  <2>4. Types' /\ Fill'
    BY <2>2, <2>3 DEF Types, Fill, FrameMax
  <2>5. \A i \in 1..Len(buf') : buf'[i] = stream'[base' + i]
    <3> SUFFICES ASSUME NEW i \in 1..Len(buf) + 1 PROVE buf'[i] = stream'[base + i]
      BY <2>2, <2>3
    <3>1. CASE i = Len(buf) + 1
      <4>1. base + i = Len(stream) + 1
        BY <2>3, <3>1 DEF Types, Aligned
      <4> QED
        BY <2>2, <3>1, <4>1 DEF Types
    <3>2. CASE i \in 1..Len(buf)
      <4>1. base + i \in 1..Len(stream)
        BY <2>3, <3>2 DEF Types, Aligned
      <4>2. stream'[base + i] = stream[base + i] /\ buf'[i] = buf[i]
        BY <2>2, <3>2, <4>1 DEF Types
      <4> QED
        BY <3>2, <4>2 DEF Aligned
    <3> QED
      BY <2>3, <3>1, <3>2
  <2>6. Aligned'
    BY <2>2, <2>3, <2>5 DEF Aligned, Types
  <2>7. Judged'
    BY <2>2, JudgedPush
  <2> QED
    BY <2>4, <2>6, <2>7
<1>2. CASE ReadPushed
  BY <1>2 DEF ReadPushed, Types, Fill, Aligned, Judged, Covered, Extent, From
<1>3. CASE Resync
  <2>1. /\ DropFront(1) /\ UNCHANGED <<pushed, stream, starts, dropped>>
        /\ Rejected(buf) /\ buf # <<>> /\ 1 \in Nat
    BY <1>3 DEF Resync, Rejected, BadHead, Complete
  <2>2. 1 <= Len(buf) /\ base' = base + 1
    BY <2>1 DEF Types, DropFront
  <2>3. \A q \in starts' : 1 <= q /\ q + 1 <= base + 1
    BY <2>1 DEF Aligned, Types
  <2>4. Types' /\ Aligned' /\ Len(buf') = Len(buf) - 1
    BY <2>1, <2>2, <2>3, DropAligned DEF Types
  <2>5. Fill'
    BY <2>1, <2>4 DEF Fill, Types, FrameMax
  <2>6. Rejected(From(base + 1))
    BY <2>1, WindowIsFrom
  <2>7. \A p \in base + 1 .. base + 1 : Rejected(From(p))
    BY <2>6 DEF Types
  <2>8. Judged'
    BY <2>1, <2>2, <2>7, JudgedDrop
  <2> QED
    BY <2>4, <2>5, <2>8
<1>4. CASE Emit
  <2>1. /\ ValidHead(buf) /\ DropFront(Total(buf[2])) /\ starts' = starts \cup {base + 1}
        /\ UNCHANGED <<pushed, stream, dropped>>
    BY <1>4 DEF Emit
  <2>2. PICK n \in Nat : n = buf[2] /\ n + 4 <= Len(buf)
    <3>1. 2 \in 1..Len(buf)
      BY <2>1 DEF ValidHead, Complete, Types
    <3>2. buf[2] \in Byte
      BY <3>1 DEF Types
    <3> QED
      BY <2>1, <3>2 DEF ValidHead, Complete, Total
  <2>3. DropFront(n + 4) /\ n + 4 \in Nat /\ base' = base + (n + 4)
    BY <2>1, <2>2, SMTT(30) DEF Total, DropFront
  <2>4. starts' \subseteq Nat /\ \A q \in starts' : 1 <= q /\ q + 1 <= base + (n + 4)
    <3>1. base \in Nat /\ starts \subseteq Nat /\ \A q \in starts : 1 <= q /\ q + 1 <= base
      BY DEF Types, Aligned
    <3>2. base + 1 \in Nat /\ 1 <= base + 1 /\ (base + 1) + 1 <= base + (n + 4)
      BY <3>1
    <3>3. ASSUME NEW q \in starts PROVE q + 1 <= base + (n + 4)
      BY <3>1
    <3> QED
      BY <2>1, <3>1, <3>2, <3>3
  <2>5. Types' /\ Aligned' /\ Len(buf') = Len(buf) - (n + 4)
    BY <2>1, <2>2, <2>3, <2>4, DropAligned
  <2>6. Fill'
    BY <2>1, <2>2, <2>5 DEF Fill, Types, FrameMax
  <2>7. stream[(base + 1) + 1] = n
    <3>1. 2 \in 1..Len(buf) /\ base + 2 = (base + 1) + 1
      BY <2>2 DEF Types
    <3> QED
      BY <2>2, <3>1 DEF Aligned
  <2>8. \A p \in base + 1 .. base + (n + 4) : Covered(p)'
    <3> SUFFICES ASSUME NEW p \in base + 1 .. base + (n + 4)
                 PROVE  \E q \in starts' : p \in q .. q + Total(stream'[q + 1]) - 1
      BY DEF Covered, Extent
    <3>1. p \in base + 1 .. (base + 1) + (n + 4) - 1
      BY DEF Types
    <3> QED
      BY <2>1, <2>7, <3>1 DEF Total
  <2>9. Judged'
    BY <2>1, <2>3, <2>8, JudgedDrop
  <2> QED
    BY <2>5, <2>6, <2>9
<1>5. CASE NeedMore
  <2>1. Len(buf) <= FrameMax - 1
    BY <1>5, LeftoverShort DEF NeedMore
  <2>2. pushed' = 0 /\ UNCHANGED <<buf, stream, base, starts, dropped>>
    BY <1>5 DEF NeedMore
  <2>3. Types'
    BY <2>2 DEF Types
  <2>4. Fill'
    BY <2>1, <2>2 DEF Fill, FrameMax, Types
  <2>5. Aligned' /\ Judged'
    BY <2>2 DEF Aligned, Judged, Covered, Extent, From
  <2> QED
    BY <2>3, <2>4, <2>5
<1>6. CASE UNCHANGED vars
  BY <1>6 DEF vars, Types, Fill, Aligned, Judged, Covered, Extent, From
<1> QED
  BY <1>1, <1>2, <1>3, <1>4, <1>5, <1>6 DEF Next

\* A position passed over is not where a valid frame begins.
LEMMA JudgedNoFrameSkipped == DecoderInv => NoFrameSkipped
  BY DEF DecoderInv, Judged, NoFrameSkipped, Covered, Rejected, ValidHead,
         BadHead, Complete

\* With a read that fits behind one incomplete frame, Decoder::push never has to
\* drop a byte.
THEOREM DecoderNeverOverflows == Spec => []NeverOverflows
<1>1. DecoderInv => NeverOverflows
  BY DEF DecoderInv, Fill, NeverOverflows
<1> QED
  BY <1>1, DecoderInvInit, DecoderInvNext, PTL DEF Spec

\* Whatever noise surrounds it and wherever the reads cut it, a valid frame is
\* popped unless it overlaps one that was.
THEOREM DecoderSkipsNoFrame == Spec => []NoFrameSkipped
  BY DecoderInvInit, DecoderInvNext, JudgedNoFrameSkipped, PTL DEF Spec

-----------------------------------------------------------------------------
(* The reference parse exists: its recursion is over the bytes that are left. *)

Frame == [code : Byte, payload : Seq(Byte)]

Parses(s) == [1 .. Len(s) + 1 -> Seq(Frame)]

\* A nonempty set of naturals has a least element.
LEMMA LeastNat ==
  ASSUME NEW S \in SUBSET Nat, S # {}
  PROVE  \E m \in S : \A k \in S : m <= k
<1>1. IsWellFoundedOn(OpToRel(<, Nat), Nat)
  BY NatLessThanWellFounded
<1>2. PICK m \in S : \A k \in S : ~(<<k, m>> \in OpToRel(<, Nat))
  <2> HIDE DEF OpToRel
  <2> QED
    BY <1>1, WFMin
<1>3. \A k \in S : ~(k < m)
  BY <1>2 DEF OpToRel
<1> QED
  BY <1>3

\* The bytes a complete frame consists of.
LEMMA CompleteShape ==
  ASSUME NEW b \in Seq(Byte), Complete(b)
  PROVE  /\ b[2] \in Nat /\ b[2] > 0 /\ Total(b[2]) \in Nat
         /\ b[2] + 4 <= Len(b) /\ Total(b[2]) = b[2] + 4
         /\ FrameOf(b) \in Frame
<1> USE DecoderAssumption DEF DecoderAssumption
<1>1. 2 \in 1..Len(b)
  BY DEF Complete
<1>2. b[2] \in Nat
  <2>1. b[2] \in Byte
    BY <1>1
  <2> QED
    BY <2>1
<1>3. b[2] > 0 /\ b[2] + 4 <= Len(b)
  BY <1>2 DEF Complete, BadLen, Total
<1>4. b[3] \in Byte
  <2>1. 3 \in 1..Len(b)
    BY <1>2, <1>3
  <2> QED
    BY <2>1
<1>5. SubSeq(b, 4, 2 + b[2]) \in Seq(Byte)
  <2>1. 4 \in Int /\ 2 + b[2] \in Int /\ \A i \in 4 .. 2 + b[2] : i \in 1..Len(b)
    BY <1>2, <1>3
  <2>2. \A i \in 4 .. 2 + b[2] : b[i] \in Byte
    BY <2>1
  <2> QED
    BY <2>1, <2>2, SubSeqProperties
<1> QED
  BY <1>2, <1>3, <1>4, <1>5, SMTT(30) DEF Total, FrameOf, Frame

\* A step of the parse looks ahead only.
LEMMA ParseStepAhead ==
  ASSUME NEW s \in Seq(Byte), NEW p \in 1 .. Len(s) + 1, NEW f \in Parses(s)
  PROVE  /\ ParseStep(s, f, p) \in Seq(Frame)
         /\ \A g :
              (\A q \in p + 1 .. Len(s) + 1 : g[q] = f[q])
                => ParseStep(s, g, p) = ParseStep(s, f, p)
<1> DEFINE b == SubSeq(s, p, Len(s))
<1>1. CASE ~BadHead(b) /\ ~Complete(b)
  BY <1>1 DEF ParseStep
<1>2. CASE ~(~BadHead(b) /\ ~Complete(b))
  <2>1. p \in 1..Len(s)
    <3>1. p # Len(s) + 1
      <4>1. p = Len(s) + 1 => b = <<>>
        OBVIOUS
      <4>2. b = <<>> => ~BadHead(b) /\ ~Complete(b)
        BY DEF BadHead, Complete
      <4> QED
        BY <1>2, <4>1, <4>2
    <3> QED
      BY <3>1
  <2>2. b \in Seq(Byte) /\ Len(b) = Len(s) - p + 1
    BY <2>1, FromProperties
  <2> HIDE DEF b
  <2>3. CASE ValidHead(b)
    <3>1. p + Total(b[2]) \in p + 1 .. Len(s) + 1 /\ FrameOf(b) \in Frame
      BY <2>1, <2>2, <2>3, CompleteShape DEF ValidHead
    <3>2. p + Total(b[2]) \in 1 .. Len(s) + 1
      BY <2>1, <3>1
    <3>3. f[p + Total(b[2])] \in Seq(Frame) /\ <<FrameOf(b)>> \in Seq(Frame)
      BY <3>1, <3>2 DEF Parses
    <3>4. \A g : ParseStep(s, g, p) = <<FrameOf(b)>> \o g[p + Total(b[2])]
      BY <1>2, <2>3 DEF ParseStep, b
    <3>5. <<FrameOf(b)>> \o f[p + Total(b[2])] \in Seq(Frame)
      BY <3>3, ConcatProperties
    <3> QED
      BY <3>1, <3>4, <3>5
  <2>4. CASE ~ValidHead(b)
    <3>1. p + 1 \in p + 1 .. Len(s) + 1 /\ p + 1 \in 1 .. Len(s) + 1
      BY <2>1
    <3>2. \A g : ParseStep(s, g, p) = g[p + 1]
      BY <1>2, <2>4 DEF ParseStep, b
    <3>3. f[p + 1] \in Seq(Frame)
      BY <3>1 DEF Parses
    <3> QED
      BY <3>1, <3>2, <3>3
  <2> QED
    BY <2>3, <2>4
<1> QED
  BY <1>1, <1>2

\* By induction on the number n of positions, counted from the end, that are
\* parsed already.
LEMMA ParseExists ==
  ASSUME NEW s \in Seq(Byte)
  PROVE  \E f \in Parses(s) : f = [p \in 1 .. Len(s) + 1 |-> ParseStep(s, f, p)]
<1> DEFINE L == Len(s) + 1
           Upto(n, f) == \A p \in 1..L : p > L - n => f[p] = ParseStep(s, f, p)
           Missing == {n \in Nat : n <= L /\ ~ \E f \in Parses(s) : Upto(n, f)}
<1>1. L \in Nat /\ L > 0 /\ Parses(s) = [1..L -> Seq(Frame)]
  BY DEF Parses
<1> HIDE DEF L
<1>2. Missing = {}
  <2> SUFFICES ASSUME Missing # {} PROVE FALSE
    OBVIOUS
  <2>1. PICK m \in Missing : \A k \in Missing : m <= k
    <3>1. Missing \in SUBSET Nat
      OBVIOUS
    <3> HIDE DEF Missing
    <3> QED
      BY <3>1, LeastNat
  <2>2. m \in Nat /\ m <= L /\ ~ \E f \in Parses(s) : Upto(m, f)
    BY <2>1
  <2>3. m # 0
    <3>1. [p \in 1..L |-> <<>>] \in Parses(s)
      BY <1>1
    <3>2. Upto(0, [p \in 1..L |-> <<>>])
      BY <1>1
    <3> QED
      BY <2>2, <3>1, <3>2
  <2>4. PICK f \in Parses(s) : Upto(m - 1, f)
    <3>1. m - 1 \in Nat /\ m - 1 <= L /\ ~(m <= m - 1)
      BY <1>1, <2>2, <2>3
    <3>2. m - 1 \notin Missing
      BY <2>1, <3>1
    <3> QED
      BY <3>1, <3>2
  <2> DEFINE d == L - m + 1
             g == [f EXCEPT ![d] = ParseStep(s, f, d)]
  <2>5. d \in 1..L /\ \A p \in 1..L : p > L - m <=> p = d \/ p > d
    BY <1>1, <2>2, <2>3
  <2>6. g \in Parses(s) /\ \A p \in 1..L : g[p] = IF p = d THEN ParseStep(s, f, d) ELSE f[p]
    BY <1>1, <2>5, ParseStepAhead DEF L
  <2>7. \A p \in 1..L : p > d => f[p] = ParseStep(s, f, p)
    BY <1>1, <2>2, <2>4
  <2> HIDE DEF d, g
  <2>8. ASSUME NEW p \in 1..L, p = d \/ p > d PROVE g[p] = ParseStep(s, g, p)
    <3>1. \A q \in p + 1 .. L : q \in 1..L /\ q # d
      BY <1>1, <2>5, <2>8
    <3>2. \A q \in p + 1 .. L : g[q] = f[q]
      BY <2>6, <3>1
    <3>3. ParseStep(s, g, p) = ParseStep(s, f, p)
      BY <2>6, <3>2, ParseStepAhead DEF L
    <3>4. p > d => p # d
      BY <2>5
    <3> QED
      BY <2>6, <2>7, <2>8, <3>3, <3>4
  <2>9. Upto(m, g)
    BY <2>5, <2>8
  <2> QED
    BY <2>2, <2>6, <2>9
<1>3. PICK f \in Parses(s) : Upto(L, f)
  <2>1. L \notin Missing
    BY <1>2
  <2> HIDE DEF Upto
  <2> QED
    BY <1>1, <2>1
<1>4. \A p \in 1..L : f[p] = ParseStep(s, f, p)
  BY <1>1, <1>3
<1>5. f = [p \in 1..L |-> ParseStep(s, f, p)]
  BY <1>1, <1>4
<1> QED
  BY <1>5 DEF L

\* No other function satisfies the recursion.
LEMMA ParseUnique ==
  ASSUME NEW s \in Seq(Byte), NEW f \in Parses(s), NEW g,
         f = [p \in 1 .. Len(s) + 1 |-> ParseStep(s, f, p)],
         g = [p \in 1 .. Len(s) + 1 |-> ParseStep(s, g, p)]
  PROVE  g = f
<1> DEFINE L == Len(s) + 1
           Wrong == {n \in Nat : n < L /\ g[L - n] # f[L - n]}
<1>1. L \in Nat
  OBVIOUS
<1>2. \A p \in 1..L : f[p] = ParseStep(s, f, p) /\ g[p] = ParseStep(s, g, p)
  OBVIOUS
<1>3. Wrong = {}
  <2> SUFFICES ASSUME Wrong # {} PROVE FALSE
    OBVIOUS
  <2>1. PICK m \in Wrong : \A k \in Wrong : m <= k
    <3>1. Wrong \in SUBSET Nat
      OBVIOUS
    <3> HIDE DEF Wrong
    <3> QED
      BY <3>1, LeastNat
  <2>2. m \in Nat /\ m < L /\ g[L - m] # f[L - m] /\ L - m \in 1..L
    BY <1>1, <2>1
  <2>3. ASSUME NEW q \in (L - m) + 1 .. L PROVE g[q] = f[q]
    <3>1. L - q \in Nat /\ L - q < L /\ ~(m <= L - q) /\ L - (L - q) = q
      BY <1>1, <2>2
    <3>2. L - q \notin Wrong
      BY <2>1, <3>1
    <3> QED
      BY <3>1, <3>2
  <2>4. ParseStep(s, g, L - m) = ParseStep(s, f, L - m)
    BY <2>2, <2>3, ParseStepAhead, ZenonT(60)
  <2> QED
    BY <1>2, <2>2, <2>4
<1>4. ASSUME NEW p \in 1..L PROVE g[p] = f[p]
  <2>1. L - p \in Nat /\ L - p < L /\ L - (L - p) = p
    BY <1>1
  <2> QED
    BY <1>3, <2>1
<1>5. f = [p \in 1..L |-> f[p]] /\ g = [p \in 1..L |-> g[p]]
  OBVIOUS
<1> QED
  BY <1>4, <1>5

\* What Parse computes, for every sequence of bytes.
LEMMA ParseIs ==
  ASSUME NEW s \in Seq(Byte)
  PROVE  /\ Parse(s) \in Parses(s)
         /\ \A p \in 1 .. Len(s) + 1 : Parse(s)[p] = ParseStep(s, Parse(s), p)
<1>1. Parse(s) = CHOOSE f : f = [p \in 1 .. Len(s) + 1 |-> ParseStep(s, f, p)]
  BY DEF Parse
<1>2. Parse(s) = [p \in 1 .. Len(s) + 1 |-> ParseStep(s, Parse(s), p)]
  BY <1>1, ParseExists
<1>3. Parse(s) \in Parses(s)
  BY <1>2, ParseExists, ParseUnique
<1>4. \A p \in 1 .. Len(s) + 1 : Parse(s)[p] = ParseStep(s, Parse(s), p)
  BY <1>2
<1> QED
  BY <1>3, <1>4

-----------------------------------------------------------------------------
(* The frames popped are those of the reference, and of every stream that goes *)
(* on from here: what was popped is final.                                     *)

Extends(t, s) == Len(s) <= Len(t) /\ \A i \in 1..Len(s) : t[i] = s[i]

Ahead ==
  \A t \in Seq(Byte) :
    Extends(t, stream) => Parse(t)[1] = frames \o Parse(t)[base + 1]

\* drain ends only when nothing more can be popped.
DrainedOut == pc = "extend" /\ pushed = 0 => ~BadHead(buf) /\ ~Complete(buf)

PoppedSoFar ==
  /\ pc \in {"extend", "drain"} /\ frames \in Seq(Frame)
  /\ Ahead /\ DrainedOut

\* What the decoder sees at the head of its buffer is what the reference sees at
\* that place of any longer stream.
LEMMA BufferIsPrefix ==
  ASSUME Types, Aligned, buf # <<>>, NEW t \in Seq(Byte), Extends(t, stream)
  PROVE  LET c == SubSeq(t, base + 1, Len(t))
         IN  /\ base + 1 \in 1..Len(t) /\ c \in Seq(Byte) /\ Len(buf) <= Len(c)
             /\ \A i \in 1..Len(buf) : buf[i] = c[i]
<1> DEFINE c == SubSeq(t, base + 1, Len(t))
<1>1. /\ base \in Nat /\ Len(buf) \in Nat \ {0} /\ Len(stream) = base + Len(buf)
      /\ Len(stream) <= Len(t) /\ Len(t) \in Nat
  BY DEF Types, Aligned, Extends
<1>2. base + 1 \in 1..Len(t)
  BY <1>1
<1>3. /\ c \in Seq(Byte) /\ Len(c) = Len(t) - (base + 1) + 1
      /\ \A i \in 1 .. Len(t) - (base + 1) + 1 : c[i] = t[(base + 1) + i - 1]
  BY <1>2, FromProperties
<1> HIDE DEF c
<1>4. Len(buf) <= Len(c)
  BY <1>1, <1>3
<1>5. ASSUME NEW i \in 1..Len(buf) PROVE buf[i] = c[i]
  <2>1. i \in 1 .. Len(t) - (base + 1) + 1 /\ (base + 1) + i - 1 = base + i
        /\ base + i \in 1..Len(stream)
    BY <1>1
  <2>2. c[i] = t[base + i]
    BY <1>3, <2>1
  <2> QED
    BY <2>1, <2>2 DEF Aligned, Extends
<1> QED
  BY <1>2, <1>3, <1>4, <1>5 DEF c

\* A complete frame is the same one in every longer stream.
LEMMA CompleteStable ==
  ASSUME NEW b \in Seq(Byte), NEW c \in Seq(Byte), Len(b) <= Len(c),
         \A i \in 1..Len(b) : b[i] = c[i], ValidHead(b)
  PROVE  ValidHead(c) /\ c[2] = b[2] /\ FrameOf(c) = FrameOf(b)
<1>1. /\ b[2] \in Nat /\ b[2] > 0 /\ b[2] + 4 <= Len(b)
      /\ b[1] = START /\ ~BadLen(b[2]) /\ Complete(b) /\ Trailer(b)
  BY CompleteShape DEF ValidHead, Complete
<1> DEFINE n == b[2]
<1>2. /\ c[1] = b[1] /\ c[2] = n /\ c[3] = b[3] /\ c[n + 3] = b[n + 3] /\ c[n + 4] = b[n + 4]
  <2>1. \A i \in {1, 2, 3, n + 3, n + 4} : i \in 1..Len(b)
    BY <1>1
  <2> QED
    BY <2>1
<1>3. SubSeq(b, 3, 2 + n) = SubSeq(c, 3, 2 + n) /\ SubSeq(b, 4, 2 + n) = SubSeq(c, 4, 2 + n)
  <2>1. 2 + n \in Nat /\ 2 + n <= Len(b) /\ 2 + n <= Len(c)
    BY <1>1
  <2>2. \A i \in 3 .. 2 + n : i \in 1..Len(b)
    BY <1>1
  <2>3. \A i \in 4 .. 2 + n : i \in 1..Len(b)
    BY <1>1
  <2>4. SubSeq(b, 3, 2 + n) = SubSeq(c, 3, 2 + n)
    BY <2>1, <2>2, SubSeqAgree
  <2> QED
    BY <2>1, <2>3, <2>4, SubSeqAgree
<1> HIDE DEF n
<1>4. Complete(c)
  <2>1. Len(c) > 1 /\ Len(c) >= Total(c[2])
    BY <1>1, <1>2 DEF Total, n
  <2> QED
    BY <1>1, <1>2, <2>1 DEF Complete, n
<1>5. Trailer(c)
  BY <1>1, <1>2, <1>3 DEF Trailer, n
<1>6. FrameOf(c) = FrameOf(b)
  BY <1>2, <1>3 DEF FrameOf, n
<1> QED
  BY <1>2, <1>4, <1>5, <1>6 DEF ValidHead, n

LEMMA PoppedInit == Init => PoppedSoFar
<1> SUFFICES ASSUME Init PROVE PoppedSoFar
  OBVIOUS
<1>1. ASSUME NEW t \in Seq(Byte) PROVE Parse(t)[1] = <<>> \o Parse(t)[0 + 1]
  <2>1. Parse(t)[1] \in Seq(Frame)
    BY ParseIs DEF Parses
  <2> QED
    BY <2>1, ConcatEmptySeq
<1>2. Ahead
  BY <1>1 DEF Init, Ahead
<1>3. DrainedOut
  BY DEF Init, DrainedOut, BadHead, Complete
<1> QED
  BY <1>2, <1>3 DEF Init, PoppedSoFar

\* A rejected position is passed over by the reference, too.
LEMMA ResyncAhead ==
  ASSUME DecoderInv, PoppedSoFar, Resync
  PROVE  Ahead'
<1>1. /\ Rejected(buf) /\ buf # <<>> /\ base' = base + 1
      /\ UNCHANGED <<stream, frames>>
  BY DEF Resync, Rejected, BadHead, Complete, DropFront, DecoderInv, Types
<1> SUFFICES ASSUME NEW t \in Seq(Byte), Extends(t, stream)
             PROVE  Parse(t)[1] = frames \o Parse(t)[(base + 1) + 1]
  BY <1>1 DEF Ahead
<1> DEFINE c == SubSeq(t, base + 1, Len(t))
<1>2. /\ base + 1 \in 1..Len(t) /\ c \in Seq(Byte) /\ Len(buf) <= Len(c)
      /\ \A i \in 1..Len(buf) : buf[i] = c[i]
  BY <1>1, BufferIsPrefix DEF DecoderInv
<1>3. Rejected(c)
  BY <1>1, <1>2, RejectedStable DEF DecoderInv, Types
<1>4. ~(~BadHead(c) /\ ~Complete(c)) /\ ~ValidHead(c)
  BY <1>3 DEF Rejected, BadHead, Complete, ValidHead
<1>5. ParseStep(t, Parse(t), base + 1) = Parse(t)[(base + 1) + 1]
  BY <1>4 DEF ParseStep
<1>6. Parse(t)[base + 1] = ParseStep(t, Parse(t), base + 1)
  BY <1>2, ParseIs
<1> QED
  BY <1>5, <1>6 DEF PoppedSoFar, Ahead

\* A frame that is popped is the next one of the reference.
LEMMA EmitAhead ==
  ASSUME DecoderInv, PoppedSoFar, Emit
  PROVE  frames' \in Seq(Frame) /\ Ahead'
<1> DEFINE fr == FrameOf(buf)
           tot == Total(buf[2])
<1>1. /\ ValidHead(buf) /\ base' = base + tot /\ frames' = Append(frames, fr)
      /\ stream' = stream
  BY DEF Emit, DropFront
<1>2. buf \in Seq(Byte) /\ buf # <<>> /\ base \in Nat /\ frames \in Seq(Frame)
  BY <1>1 DEF DecoderInv, Types, PoppedSoFar, ValidHead, Complete
<1>3. fr \in Frame /\ tot \in Nat
  BY <1>1, <1>2, CompleteShape DEF ValidHead
<1> HIDE DEF fr, tot
<1>4. frames' \in Seq(Frame) /\ frames' = frames \o <<fr>>
  BY <1>1, <1>2, <1>3, AppendIsConcat, AppendProperties
<1>5. ASSUME NEW t \in Seq(Byte), Extends(t, stream)
      PROVE  Parse(t)[1] = frames' \o Parse(t)[base' + 1]
  <2> DEFINE c == SubSeq(t, base + 1, Len(t))
             rest == Parse(t)[base' + 1]
  <2>1. /\ base + 1 \in 1..Len(t) /\ c \in Seq(Byte) /\ Len(buf) <= Len(c)
        /\ \A i \in 1..Len(buf) : buf[i] = c[i]
    BY <1>2, <1>5, BufferIsPrefix DEF DecoderInv
  <2>2. ValidHead(c) /\ c[2] = buf[2] /\ FrameOf(c) = fr
    BY <1>1, <1>2, <2>1, CompleteStable DEF fr
  <2>3. (base + 1) + Total(c[2]) = base' + 1
    <3>1. Total(c[2]) = tot
      BY <2>2 DEF tot
    <3> HIDE DEF c
    <3> QED
      BY <1>1, <1>2, <1>3, <3>1
  <2>4. base' + 1 \in 1 .. Len(t) + 1
    <3>1. Total(c[2]) <= Len(c) /\ Total(c[2]) \in Nat
      BY <2>1, <2>2, CompleteShape DEF ValidHead
    <3>2. Len(c) = Len(t) - (base + 1) + 1
      BY <2>1, FromProperties
    <3> HIDE DEF c
    <3> QED
      BY <1>2, <2>1, <2>3, <3>1, <3>2
  <2>5. rest \in Seq(Frame)
    BY <2>4, ParseIs DEF Parses
  <2>6. ParseStep(t, Parse(t), base + 1) = <<fr>> \o rest
    BY <2>2, <2>3 DEF ParseStep, ValidHead
  <2>7. Parse(t)[base + 1] = ParseStep(t, Parse(t), base + 1)
    BY <2>1, ParseIs
  <2>8. Parse(t)[1] = frames \o Parse(t)[base + 1]
    BY <1>5 DEF PoppedSoFar, Ahead
  <2> HIDE DEF rest, c
  <2>9. <<fr>> \in Seq(Frame)
    BY <1>3
  <2>10. frames \o (<<fr>> \o rest) = (frames \o <<fr>>) \o rest
    BY <1>2, <2>5, <2>9, ConcatAssociative
  <2> QED
    BY <1>4, <2>6, <2>7, <2>8, <2>10 DEF rest
<1> QED
  BY <1>1, <1>4, <1>5 DEF Ahead

LEMMA PoppedNext == DecoderInv /\ PoppedSoFar /\ [Next]_vars => PoppedSoFar'
<1> SUFFICES ASSUME DecoderInv, PoppedSoFar, [Next]_vars PROVE PoppedSoFar'
  OBVIOUS
<1>1. ASSUME NEW b \in Byte, Push(b) PROVE PoppedSoFar'
  <2>1. Len(buf) # Cap
    <3>1. pushed \in Nat /\ Len(buf) <= FrameMax - 1 + pushed /\ FrameMax \in Nat
          /\ pushed < ReadMax
      BY <1>1, DecoderAssumption DEF Push, DecoderInv, Types, Fill, FrameMax, DecoderAssumption
    <3> QED
      BY <3>1, DecoderAssumption DEF DecoderAssumption, DecoderInv, Types
  <2>2. /\ stream' = Append(stream, b) /\ pushed' = pushed + 1
        /\ UNCHANGED <<base, pc, frames>>
    BY <1>1, <2>1 DEF Push
  <2>3. pushed' # 0
    BY <2>2 DEF DecoderInv, Types
  <2>4. /\ Len(stream') = Len(stream) + 1 /\ Len(stream) \in Nat
        /\ \A i \in 1..Len(stream) : i \in 1..Len(stream') /\ stream'[i] = stream[i]
    BY <2>2 DEF DecoderInv, Types
  <2>5. ASSUME NEW t \in Seq(Byte), Extends(t, stream') PROVE Extends(t, stream)
    <3>1. Len(t) \in Nat
      OBVIOUS
    <3> QED
      BY <2>4, <2>5, <3>1 DEF Extends
  <2>6. Ahead'
    BY <2>2, <2>5 DEF PoppedSoFar, Ahead
  <2> QED
    BY <2>2, <2>3, <2>6 DEF PoppedSoFar, DrainedOut
<1>2. CASE ReadPushed
  BY <1>2 DEF ReadPushed, PoppedSoFar, Ahead, DrainedOut
<1>3. CASE Resync
  BY <1>3, ResyncAhead DEF Resync, PoppedSoFar, DrainedOut
<1>4. CASE Emit
  BY <1>4, EmitAhead DEF Emit, PoppedSoFar, DrainedOut
<1>5. CASE NeedMore
  BY <1>5 DEF NeedMore, PoppedSoFar, Ahead, DrainedOut
<1>6. CASE UNCHANGED vars
  BY <1>6 DEF vars, PoppedSoFar, Ahead, DrainedOut
<1> QED
  BY <1>1, <1>2, <1>3, <1>4, <1>5, <1>6 DEF Next

\* Between two reads nothing is left to parse.
LEMMA PoppedIsReference == DecoderInv /\ PoppedSoFar => ChunkingIndependent
<1> SUFFICES ASSUME DecoderInv, PoppedSoFar, pc = "extend", pushed = 0
             PROVE  frames = Parse(stream)[1]
  BY DEF ChunkingIndependent, ReferenceFrames
<1>1. /\ stream \in Seq(Byte) /\ Len(stream) = base + Len(buf) /\ base \in Nat
      /\ Len(stream) \in Nat /\ Len(buf) \in Nat /\ frames \in Seq(Frame)
  BY DEF DecoderInv, Types, Aligned, PoppedSoFar
<1>2. Parse(stream)[1] = frames \o Parse(stream)[base + 1]
  BY <1>1 DEF PoppedSoFar, Ahead, Extends
<1> DEFINE b == SubSeq(stream, base + 1, Len(stream))
<1>3. ~BadHead(b) /\ ~Complete(b)
  <2>1. CASE buf = <<>>
    <3>1. base + 1 = Len(stream) + 1
      BY <1>1, <2>1
    <3>2. SubSeq(stream, Len(stream) + 1, Len(stream)) = <<>>
      BY <1>1
    <3>3. b = <<>>
      BY <3>1, <3>2
    <3>4. ~BadHead(<<>>) /\ ~Complete(<<>>)
      BY DEF BadHead, Complete
    <3> HIDE DEF b
    <3> QED
      BY <3>3, <3>4
  <2>2. CASE buf # <<>>
    <3>1. buf = b
      BY <2>2, WindowIsFrom DEF DecoderInv, From
    <3> QED
      BY <3>1 DEF PoppedSoFar, DrainedOut
  <2> QED
    BY <2>1, <2>2
<1>4. ParseStep(stream, Parse(stream), base + 1) = <<>>
  BY <1>3 DEF ParseStep
<1>5. base + 1 \in 1 .. Len(stream) + 1
  BY <1>1
<1>6. Parse(stream)[base + 1] = <<>>
  BY <1>1, <1>4, <1>5, ParseIs
<1> QED
  BY <1>1, <1>2, <1>6, ConcatEmptySeq

\* The types of the decoder, of the frames it popped, and of the history.
THEOREM DecoderTypeCorrect == Spec => []TypeOK
<1>1. DecoderInv /\ PoppedSoFar => TypeOK
  <2> SUFFICES ASSUME DecoderInv, PoppedSoFar PROVE TypeOK
    OBVIOUS
  <2>1. dropped \in Nat
    BY DEF DecoderInv, Fill
  <2> QED
    BY <2>1 DEF DecoderInv, Types, PoppedSoFar, Frame, TypeOK
<1> QED
  BY <1>1, DecoderInvInit, DecoderInvNext, PoppedInit, PoppedNext, PTL DEF Spec

\* However the UART cuts the stream into reads, for every stream of every length:
\* the frames the driver pops are those of the whole stream parsed at once.
THEOREM DecoderIgnoresChunks == Spec => []ChunkingIndependent
BY DecoderInvInit, DecoderInvNext, PoppedInit, PoppedNext, PoppedIsReference, PTL DEF Spec

-----------------------------------------------------------------------------
(* What the encoder writes, the parse reads back. *)

\* The places of a concatenation.
LEMMA ConcatAt ==
  ASSUME NEW S, NEW u \in Seq(S), NEW v \in Seq(S), NEW w, w = u \o v,
         NEW m, m = Len(u), NEW n, n = Len(v)
  PROVE  /\ w \in Seq(S) /\ m \in Nat /\ n \in Nat /\ Len(w) = m + n
         /\ \A i \in 1..m : w[i] = u[i]
         /\ \A i \in 1..n : w[m + i] = v[i]
<1>1. m \in Nat /\ n \in Nat
  OBVIOUS
<1>2. /\ w \in Seq(S) /\ Len(w) = m + n
      /\ \A i \in 1 .. m + n : w[i] = IF i <= m THEN u[i] ELSE v[i - m]
  BY ConcatProperties
<1>3. \A i \in 1..m : i \in 1 .. m + n /\ i <= m
  BY <1>1
<1>4. \A i \in 1..n : m + i \in 1 .. m + n /\ ~(m + i <= m) /\ (m + i) - m = i
  BY <1>1
<1>5. \A i \in 1..m : w[i] = u[i]
  BY <1>2, <1>3
<1>6. \A i \in 1..n : w[m + i] = v[i]
  BY <1>2, <1>4
<1> QED
  BY <1>1, <1>2, <1>5, <1>6

\* A sequence that stands in another one is that part of it.
LEMMA PartIs ==
  ASSUME NEW S, NEW s \in Seq(S), NEW u \in Seq(S), NEW m \in Nat, 1 <= m,
         NEW k \in Nat, k <= Len(s), k = m + Len(u) - 1,
         \A i \in 1..Len(u) : s[m + i - 1] = u[i]
  PROVE  SubSeq(s, m, k) = u
<1>1. m \in Int /\ k \in Int /\ \A i \in m..k : s[i] \in S
  OBVIOUS
<1>2. /\ SubSeq(s, m, k) \in Seq(S)
      /\ Len(SubSeq(s, m, k)) = IF m <= k THEN k - m + 1 ELSE 0
      /\ \A i \in 1 .. k - m + 1 : SubSeq(s, m, k)[i] = s[m + i - 1]
  BY <1>1, SubSeqProperties
<1>3. k - m + 1 = Len(u) /\ (m <= k <=> Len(u) # 0)
  OBVIOUS
<1>4. Len(SubSeq(s, m, k)) = Len(u)
  BY <1>2, <1>3
<1>5. \A i \in 1..Len(u) : SubSeq(s, m, k)[i] = u[i]
  BY <1>2, <1>3
<1> QED
  BY <1>2, <1>4, <1>5, SeqEqual

\* An encoded frame is valid and holds what was encoded.
LEMMA FramedIsValid ==
  ASSUME NEW code \in Byte, NEW payload \in Seq(Byte), Len(payload) <= PayloadMax,
         1 + Len(payload) \in Byte, END \in Byte, Crc(<<code>> \o payload) \in Byte
  PROVE  LET a == Framed(code, payload)
         IN  /\ a \in Seq(Byte) /\ Len(a) = Total(a[2]) /\ ValidHead(a)
             /\ FrameOf(a) = [code |-> code, payload |-> payload]
<1> DEFINE a == Framed(code, payload)
           n == Len(payload)
           h == <<START, 1 + n, code>>
           body == <<code>> \o payload
           t == <<END, Crc(body)>>
           front == h \o payload
<1>1. n \in Nat /\ n <= PayloadMax /\ n = Len(payload)
  OBVIOUS
<1>2. START \in Byte
  BY DecoderAssumption DEF DecoderAssumption
<1>3. /\ h \in Seq(Byte) /\ 3 = Len(h) /\ h[1] = START /\ h[2] = 1 + n /\ h[3] = code
      /\ t \in Seq(Byte) /\ 2 = Len(t) /\ t[1] = END /\ t[2] = Crc(body)
      /\ <<code>> \in Seq(Byte) /\ 1 = Len(<<code>>) /\ <<code>>[1] = code
  BY <1>2
<1>4. a = front \o t
  BY DEF Framed
<1> DEFINE k == Len(h)
           d == Len(t)
           m == Len(front)
<1> HIDE DEF a, n, h, t
<1>5. /\ body \in Seq(Byte) /\ Len(body) = 1 + n
      /\ \A i \in 1..1 : body[i] = <<code>>[i]
      /\ \A i \in 1..n : body[1 + i] = payload[i]
  BY <1>1, <1>3, ConcatAt
<1> HIDE DEF body
<1>6. /\ front \in Seq(Byte) /\ m = k + n
      /\ \A i \in 1..k : front[i] = h[i]
      /\ \A i \in 1..n : front[k + i] = payload[i]
  <2>1. k = Len(h) /\ h \in Seq(Byte)
    BY <1>3
  <2> HIDE DEF k
  <2>2. front \in Seq(Byte) /\ Len(front) = k + n
    BY <1>1, <2>1, ConcatAt
  <2>3. \A i \in 1..k : front[i] = h[i]
    BY <1>1, <2>1, ConcatAt
  <2>4. \A i \in 1..n : front[k + i] = payload[i]
    BY <1>1, <2>1, ConcatAt
  <2> QED
    BY <2>2, <2>3, <2>4
<1> HIDE DEF front
<1>7. /\ a \in Seq(Byte) /\ Len(a) = m + d
      /\ \A i \in 1..m : a[i] = front[i]
      /\ \A i \in 1..d : a[m + i] = t[i]
  <2>1. m = Len(front) /\ d = Len(t) /\ t \in Seq(Byte) /\ front \in Seq(Byte)
    BY <1>3, <1>6
  <2> HIDE DEF m, d
  <2>2. a \in Seq(Byte) /\ Len(a) = m + d
    BY <1>4, <2>1, ConcatAt
  <2>3. \A i \in 1..m : a[i] = front[i]
    BY <1>4, <2>1, ConcatAt
  <2>4. \A i \in 1..d : a[m + i] = t[i]
    BY <1>4, <2>1, ConcatAt
  <2> QED
    BY <2>2, <2>3, <2>4
<1>8. k = 3 /\ d = 2 /\ m = 3 + n
  BY <1>3, <1>6
<1> HIDE DEF k, d, m
<1>9. a[1] = START /\ a[2] = 1 + n /\ a[3] = code
  <2>1. \A i \in 1..3 : i \in 1..m
    BY <1>1, <1>8
  <2>2. \A i \in 1..3 : a[i] = h[i]
    BY <1>6, <1>7, <1>8, <2>1
  <2>3. 1 \in 1..3 /\ 2 \in 1..3 /\ 3 \in 1..3
    OBVIOUS
  <2> QED
    BY <1>3, <2>2, <2>3
<1>10. a[n + 4] = END /\ a[n + 5] = Crc(body)
  <2>1. m + 1 = n + 4 /\ m + 2 = n + 5 /\ 1 \in 1..d /\ 2 \in 1..d
    BY <1>1, <1>8
  <2> QED
    BY <1>3, <1>7, <2>1
<1>11. \A i \in 1..n : a[3 + i] = payload[i]
  <2>1. \A i \in 1..n : 3 + i \in 1..m
    BY <1>1, <1>8
  <2> QED
    BY <1>6, <1>7, <1>8, <2>1
<1>12. SubSeq(a, 3, 3 + n) = body
  <2>1. ASSUME NEW i \in 1..Len(body) PROVE a[3 + i - 1] = body[i]
    <3>1. CASE i = 1
      BY <1>3, <1>5, <1>9, <3>1
    <3>2. CASE i # 1
      <4>1. i - 1 \in 1..n /\ 3 + (i - 1) = 3 + i - 1 /\ 1 + (i - 1) = i
        BY <1>1, <1>5, <3>2
      <4>2. a[3 + (i - 1)] = payload[i - 1] /\ body[1 + (i - 1)] = payload[i - 1]
        BY <1>5, <1>11, <4>1
      <4> QED
        BY <4>1, <4>2
    <3> QED
      BY <3>1, <3>2
  <2> DEFINE b3 == 3
             e == 3 + n
  <2>2. /\ a \in Seq(Byte) /\ body \in Seq(Byte) /\ b3 \in Nat /\ 1 <= b3
        /\ e \in Nat /\ e <= Len(a) /\ e = b3 + Len(body) - 1
        /\ \A i \in 1..Len(body) : a[b3 + i - 1] = body[i]
    BY <1>1, <1>5, <1>7, <1>8, <2>1
  <2> HIDE DEF b3, e
  <2>3. SubSeq(a, b3, e) = body
    BY <2>2, PartIs
  <2> QED
    BY <2>3 DEF b3, e
<1>13. SubSeq(a, 4, 3 + n) = payload
  <2> DEFINE b4 == 4
             e == 3 + n
  <2>1. \A i \in 1..Len(payload) : b4 + i - 1 = 3 + i /\ i \in 1..n
    BY <1>1
  <2>2. \A i \in 1..Len(payload) : a[b4 + i - 1] = payload[i]
    BY <1>11, <2>1
  <2>3. /\ a \in Seq(Byte) /\ b4 \in Nat /\ 1 <= b4
        /\ e \in Nat /\ e <= Len(a) /\ e = b4 + Len(payload) - 1
    BY <1>1, <1>7, <1>8
  <2> HIDE DEF b4, e
  <2>4. SubSeq(a, b4, e) = payload
    BY <2>2, <2>3, PartIs
  <2> QED
    BY <2>4 DEF b4, e
<1>14. Complete(a) /\ Len(a) = Total(a[2])
  <2>1. Len(a) = n + 5 /\ a[1] = START /\ a[2] = 1 + n
    BY <1>1, <1>7, <1>8, <1>9
  <2>2. ~BadLen(1 + n) /\ Total(1 + n) = n + 5
    BY <1>1, DecoderAssumption DEF BadLen, Total, DecoderAssumption
  <2>3. Len(a) > 1 /\ Len(a) >= Total(1 + n)
    BY <1>1, <2>1, <2>2
  <2> QED
    BY <2>1, <2>2, <2>3 DEF Complete
<1>15. Trailer(a) /\ FrameOf(a) = [code |-> code, payload |-> payload]
  <2>1. a[2] + 3 = n + 4 /\ a[2] + 4 = n + 5 /\ 2 + a[2] = 3 + n
    BY <1>1, <1>9
  <2> QED
    BY <1>9, <1>10, <1>12, <1>13, <2>1 DEF Trailer, FrameOf
<1> QED
  BY <1>7, <1>14, <1>15 DEF ValidHead, a

\* What is parsed from a position on depends on nothing before it.
LEMMA ParseShift ==
  ASSUME NEW a \in Seq(Byte), NEW r \in Seq(Byte)
  PROVE  Parse(a \o r)[Len(a) + 1] = Parse(r)[1]
<1> DEFINE s == a \o r
           k == Len(a)
           g == [p \in 1 .. Len(r) + 1 |-> Parse(s)[k + p]]
<1>1. k \in Nat /\ Len(r) \in Nat
  OBVIOUS
<1>2. /\ s \in Seq(Byte) /\ Len(s) = k + Len(r)
      /\ \A i \in 1..Len(r) : s[k + i] = r[i]
  BY ConcatAt
<1> HIDE DEF s, k
<1>3. ASSUME NEW p \in 1 .. Len(r) + 1
      PROVE  SubSeq(s, k + p, Len(s)) = SubSeq(r, p, Len(r))
  <2>1. CASE p = Len(r) + 1
    BY <1>1, <1>2, <2>1, SubSeqEmpty
  <2>2. CASE p # Len(r) + 1
    <3> DEFINE u == SubSeq(r, p, Len(r))
    <3>1. p \in 1..Len(r)
      BY <1>1, <2>2
    <3>2. /\ u \in Seq(Byte) /\ Len(u) = Len(r) - p + 1
          /\ \A i \in 1 .. Len(r) - p + 1 : u[i] = r[p + i - 1]
      BY <3>1, FromProperties
    <3> HIDE DEF u
    <3>3. ASSUME NEW i \in 1..Len(u) PROVE s[(k + p) + i - 1] = u[i]
      <4>1. /\ i \in 1 .. Len(r) - p + 1 /\ p + i - 1 \in 1..Len(r)
            /\ (k + p) + i - 1 = k + (p + i - 1)
        BY <1>1, <3>1, <3>2
      <4> QED
        BY <1>2, <3>2, <4>1
    <3>4. /\ k + p \in Nat /\ 1 <= k + p /\ Len(s) \in Nat
          /\ Len(s) = (k + p) + Len(u) - 1
      BY <1>1, <1>2, <3>1, <3>2
    <3>5. SubSeq(s, k + p, Len(s)) = u
      <4> DEFINE e == Len(s)
                 m == k + p
      <4>1. /\ s \in Seq(Byte) /\ u \in Seq(Byte) /\ m \in Nat /\ 1 <= m
            /\ e \in Nat /\ e <= Len(s) /\ e = m + Len(u) - 1
            /\ \A i \in 1..Len(u) : s[m + i - 1] = u[i]
        BY <1>2, <3>2, <3>3, <3>4
      <4> HIDE DEF e, m
      <4>2. SubSeq(s, m, e) = u
        BY <4>1, PartIs
      <4> QED
        BY <4>2 DEF e, m
    <3> QED
      BY <3>5 DEF u
  <2> QED
    BY <2>1, <2>2
<1>4. ASSUME NEW p \in 1 .. Len(r) + 1 PROVE g[p] = ParseStep(r, g, p)
  <2> DEFINE b == SubSeq(r, p, Len(r))
  <2>1. k + p \in 1 .. Len(s) + 1
    BY <1>1, <1>2
  <2>2. g[p] = ParseStep(s, Parse(s), k + p)
    BY <1>2, <2>1, ParseIs
  <2>3. SubSeq(s, k + p, Len(s)) = b
    BY <1>3
  <2>4. CASE ~BadHead(b) /\ ~Complete(b)
    BY <2>2, <2>3, <2>4 DEF ParseStep
  <2>5. CASE ~(~BadHead(b) /\ ~Complete(b))
    <3>1. p \in 1..Len(r)
      <4>1. p = Len(r) + 1 => b = <<>>
        BY <1>1, SubSeqEmpty
      <4>2. ~BadHead(<<>>) /\ ~Complete(<<>>)
        BY DEF BadHead, Complete
      <4>3. p # Len(r) + 1
        BY <2>5, <4>1, <4>2
      <4> QED
        BY <1>1, <4>3
    <3>2. b \in Seq(Byte) /\ Len(b) = Len(r) - p + 1
      BY <3>1, FromProperties
    <3> HIDE DEF b
    <3>3. CASE ValidHead(b)
      <4>1. Total(b[2]) \in Nat /\ Total(b[2]) <= Len(b)
        BY <3>2, <3>3, CompleteShape DEF ValidHead
      <4>2. p + Total(b[2]) \in 1 .. Len(r) + 1
            /\ (k + p) + Total(b[2]) = k + (p + Total(b[2]))
        BY <1>1, <3>1, <3>2, <4>1
      <4>3. ParseStep(s, Parse(s), k + p)
              = <<FrameOf(b)>> \o Parse(s)[(k + p) + Total(b[2])]
        BY <2>3, <2>5, <3>3 DEF ParseStep
      <4>4. ParseStep(r, g, p) = <<FrameOf(b)>> \o g[p + Total(b[2])]
        BY <2>5, <3>3 DEF ParseStep, b
      <4> QED
        BY <2>2, <4>2, <4>3, <4>4
    <3>4. CASE ~ValidHead(b)
      <4>1. p + 1 \in 1 .. Len(r) + 1 /\ (k + p) + 1 = k + (p + 1)
        BY <1>1, <3>1
      <4>2. ParseStep(s, Parse(s), k + p) = Parse(s)[(k + p) + 1]
        BY <2>3, <2>5, <3>4 DEF ParseStep
      <4>3. ParseStep(r, g, p) = g[p + 1]
        BY <2>5, <3>4 DEF ParseStep, b
      <4> QED
        BY <2>2, <4>1, <4>2, <4>3
    <3> QED
      BY <3>3, <3>4
  <2> QED
    BY <2>4, <2>5
<1>5. g = [p \in 1 .. Len(r) + 1 |-> ParseStep(r, g, p)]
  <2>1. g = [p \in 1 .. Len(r) + 1 |-> g[p]]
    OBVIOUS
  <2> HIDE DEF g
  <2> QED
    BY <1>4, <2>1
<1>6. /\ Parse(r) \in Parses(r)
      /\ Parse(r) = [p \in 1 .. Len(r) + 1 |-> ParseStep(r, Parse(r), p)]
  <2>1. Parse(r) \in Parses(r)
        /\ \A p \in 1 .. Len(r) + 1 : Parse(r)[p] = ParseStep(r, Parse(r), p)
    BY ParseIs
  <2>2. Parse(r) = [p \in 1 .. Len(r) + 1 |-> Parse(r)[p]]
    BY <2>1 DEF Parses
  <2> QED
    BY <2>1, <2>2
<1>7. g = Parse(r)
  <2> HIDE DEF g
  <2> QED
    BY <1>5, <1>6, ParseUnique
<1>8. g[1] = Parse(s)[k + 1]
  BY <1>1
<1> QED
  BY <1>7, <1>8 DEF s, k

\* Encoder and decoder agree, whatever checksum they share: a frame at the head of
\* a line is read back as it was encoded, and what follows it is read as if it had
\* come alone.  So a line of frames is read back frame by frame.
THEOREM FramesRoundTrip ==
  ASSUME NEW code \in Byte, NEW payload \in Seq(Byte), Len(payload) <= PayloadMax,
         1 + Len(payload) \in Byte, END \in Byte, Crc(<<code>> \o payload) \in Byte,
         NEW rest \in Seq(Byte)
  PROVE  ReferenceFrames(Framed(code, payload) \o rest)
           = <<[code |-> code, payload |-> payload]>> \o ReferenceFrames(rest)
<1> DEFINE a == Framed(code, payload)
           s == a \o rest
<1>1. /\ a \in Seq(Byte) /\ Len(a) = Total(a[2]) /\ ValidHead(a)
      /\ FrameOf(a) = [code |-> code, payload |-> payload]
  BY FramedIsValid
<1> HIDE DEF a
<1> DEFINE k == Len(a)
<1>2. /\ s \in Seq(Byte) /\ k \in Nat /\ Len(s) = k + Len(rest) /\ Len(rest) \in Nat
      /\ \A i \in 1..k : s[i] = a[i]
  <2> DEFINE B == Byte
             n == Len(rest)
  <2>1. a \in Seq(B) /\ rest \in Seq(B) /\ s = a \o rest /\ k = Len(a) /\ n = Len(rest)
    BY <1>1
  <2> HIDE DEF B, n, s, k
  <2>2. /\ s \in Seq(B) /\ k \in Nat /\ n \in Nat /\ Len(s) = k + n
        /\ \A i \in 1..k : s[i] = a[i]
    BY <2>1, ConcatAt
  <2> QED
    BY <2>1, <2>2 DEF B, n
<1> HIDE DEF s
<1>3. Len(a) <= Len(s) /\ \A i \in 1..Len(a) : a[i] = s[i]
  BY <1>2
<1>4. ValidHead(s) /\ s[2] = a[2] /\ FrameOf(s) = FrameOf(a)
  BY <1>1, <1>2, <1>3, CompleteStable
<1>5. SubSeq(s, 1, Len(s)) = s
  BY <1>2
<1>6. ParseStep(s, Parse(s), 1) = <<FrameOf(s)>> \o Parse(s)[1 + Total(s[2])]
  BY <1>4, <1>5 DEF ParseStep, ValidHead
<1>7. Parse(s)[1] = ParseStep(s, Parse(s), 1)
  <2>1. 1 \in 1 .. Len(s) + 1
    BY <1>2
  <2> QED
    BY <1>2, <2>1, ParseIs
<1>8. 1 + Total(s[2]) = Len(a) + 1
  BY <1>1, <1>2, <1>4
<1>9. Parse(s)[Len(a) + 1] = Parse(rest)[1]
  BY <1>1, ParseShift DEF s
<1> QED
  BY <1>1, <1>4, <1>6, <1>7, <1>8, <1>9 DEF ReferenceFrames, s, a

-----------------------------------------------------------------------------
(* The checksum of the code: one changed byte changes it.  The exclusive or   *)
(* can be undone bit by bit, so a round of crc8 loses nothing of the byte.     *)

Octets == 0..255
Weights == {1, 2, 4, 8, 16, 32, 64, 128}

\* The value of an exclusive or, by its highest bit.
LEMMA XorParts ==
  ASSUME NEW x \in Octets, NEW y \in Octets
  PROVE  /\ Xor(x, y) \in Octets
         /\ \E r \in 0..127 : Xor(x, y) = r + Differ(x, y, 128)
<1> USE DEF Octets
<1> DEFINE d(w) == Differ(x, y, w)
           r == d(1) + d(2) + d(4) + d(8) + d(16) + d(32) + d(64)
<1>1. /\ d(1) \in {0, 1} /\ d(2) \in {0, 2} /\ d(4) \in {0, 4} /\ d(8) \in {0, 8}
      /\ d(16) \in {0, 16} /\ d(32) \in {0, 32} /\ d(64) \in {0, 64} /\ d(128) \in {0, 128}
  BY DEF Differ
<1>2. Xor(x, y) = r + d(128)
  BY DEF Xor
<1> HIDE DEF d
<1>3. r \in 0..127
  BY <1>1
<1> HIDE DEF r
<1>4. r + d(128) \in Octets
  BY <1>1, <1>3
<1> QED
  BY <1>2, <1>3, <1>4 DEF d

\* The bits of the exclusive or say all that its value says.
LEMMA SameBits ==
  ASSUME NEW x \in Octets, NEW y \in Octets, NEW u \in Octets, NEW v \in Octets,
         Xor(x, y) = Xor(u, v)
  PROVE  \A w \in Weights : Differ(x, y, w) = Differ(u, v, w)
<1> USE DEF Octets
<1> DEFINE d(w) == Differ(x, y, w)
           e(w) == Differ(u, v, w)
           s2 == d(1) + d(2) + d(4)
           s3 == s2 + d(8)
           s4 == s3 + d(16)
           s5 == s4 + d(32)
           s6 == s5 + d(64)
           t2 == e(1) + e(2) + e(4)
           t3 == t2 + e(8)
           t4 == t3 + e(16)
           t5 == t4 + e(32)
           t6 == t5 + e(64)
<1>1. s6 + d(128) = t6 + e(128)
  BY DEF Xor
<1>2. /\ d(1) \in {0, 1} /\ d(2) \in {0, 2} /\ d(4) \in {0, 4} /\ d(8) \in {0, 8}
      /\ d(16) \in {0, 16} /\ d(32) \in {0, 32} /\ d(64) \in {0, 64} /\ d(128) \in {0, 128}
      /\ e(1) \in {0, 1} /\ e(2) \in {0, 2} /\ e(4) \in {0, 4} /\ e(8) \in {0, 8}
      /\ e(16) \in {0, 16} /\ e(32) \in {0, 32} /\ e(64) \in {0, 64} /\ e(128) \in {0, 128}
  BY DEF Differ
<1> HIDE DEF d, e
<1>3. s2 \in 0..7 /\ s3 \in 0..15 /\ s4 \in 0..31 /\ s5 \in 0..63 /\ s6 \in 0..127
  BY <1>2
<1>4. t2 \in 0..7 /\ t3 \in 0..15 /\ t4 \in 0..31 /\ t5 \in 0..63 /\ t6 \in 0..127
  BY <1>2
<1>5. s6 = t6 /\ d(128) = e(128)
  <2> DEFINE h == d(128)
             g == e(128)
  <2>1. s6 \in 0..127 /\ t6 \in 0..127 /\ h \in {0, 128} /\ g \in {0, 128}
    BY <1>2, <1>3, <1>4
  <2>2. s6 + h = t6 + g
    BY <1>1
  <2> HIDE DEF s6, t6, h, g
  <2>3. s6 = t6 /\ h = g
    BY <2>1, <2>2
  <2> QED
    BY <2>3 DEF h, g
<1>6. s5 = t5 /\ d(64) = e(64)
  <2> DEFINE h == d(64)
             g == e(64)
  <2>1. s5 \in 0..63 /\ t5 \in 0..63 /\ h \in {0, 64} /\ g \in {0, 64}
    BY <1>2, <1>3, <1>4
  <2>2. s5 + h = t5 + g
    BY <1>5
  <2> HIDE DEF s5, t5, h, g
  <2>3. s5 = t5 /\ h = g
    BY <2>1, <2>2
  <2> QED
    BY <2>3 DEF h, g
<1>7. s4 = t4 /\ d(32) = e(32)
  <2> DEFINE h == d(32)
             g == e(32)
  <2>1. s4 \in 0..31 /\ t4 \in 0..31 /\ h \in {0, 32} /\ g \in {0, 32}
    BY <1>2, <1>3, <1>4
  <2>2. s4 + h = t4 + g
    BY <1>6
  <2> HIDE DEF s4, t4, h, g
  <2>3. s4 = t4 /\ h = g
    BY <2>1, <2>2
  <2> QED
    BY <2>3 DEF h, g
<1>8. s3 = t3 /\ d(16) = e(16)
  <2> DEFINE h == d(16)
             g == e(16)
  <2>1. s3 \in 0..15 /\ t3 \in 0..15 /\ h \in {0, 16} /\ g \in {0, 16}
    BY <1>2, <1>3, <1>4
  <2>2. s3 + h = t3 + g
    BY <1>7
  <2> HIDE DEF s3, t3, h, g
  <2>3. s3 = t3 /\ h = g
    BY <2>1, <2>2
  <2> QED
    BY <2>3 DEF h, g
<1>9. s2 = t2 /\ d(8) = e(8)
  <2> DEFINE h == d(8)
             g == e(8)
  <2>1. s2 \in 0..7 /\ t2 \in 0..7 /\ h \in {0, 8} /\ g \in {0, 8}
    BY <1>2, <1>3, <1>4
  <2>2. s2 + h = t2 + g
    BY <1>8
  <2> HIDE DEF s2, t2, h, g
  <2>3. s2 = t2 /\ h = g
    BY <2>1, <2>2
  <2> QED
    BY <2>3 DEF h, g
<1>10. d(1) = e(1) /\ d(2) = e(2) /\ d(4) = e(4)
  <2>1. d(1) + d(2) + d(4) = e(1) + e(2) + e(4)
    BY <1>9
  <2> QED
    BY <1>2, <2>1
<1> QED
  BY <1>5, <1>6, <1>7, <1>8, <1>9, <1>10 DEF d, e, Weights

\* Two numbers with the same half and the same last bit are the same.
LEMMA HalvesTell ==
  ASSUME NEW x \in Nat, NEW y \in Nat, x \div 2 = y \div 2, x % 2 = y % 2
  PROVE  x = y
OBVIOUS

LEMMA Halves ==
  ASSUME NEW x \in Nat
  PROVE  /\ x \div 1 = x
         /\ (x \div 2) \div 2 = x \div 4
         /\ (x \div 4) \div 2 = x \div 8
         /\ (x \div 8) \div 2 = x \div 16
         /\ (x \div 16) \div 2 = x \div 32
         /\ (x \div 32) \div 2 = x \div 64
         /\ (x \div 64) \div 2 = x \div 128
<1>1. x \div 1 = x
  OBVIOUS
<1>2. (x \div 2) \div 2 = x \div 4
  OBVIOUS
<1>3. (x \div 4) \div 2 = x \div 8
  OBVIOUS
<1>4. (x \div 8) \div 2 = x \div 16
  OBVIOUS
<1>5. (x \div 16) \div 2 = x \div 32
  OBVIOUS
<1>6. (x \div 32) \div 2 = x \div 64
  OBVIOUS
<1>7. (x \div 64) \div 2 = x \div 128
  OBVIOUS
<1> QED
  BY <1>1, <1>2, <1>3, <1>4, <1>5, <1>6, <1>7

\* The next lower bit, with what is above it, tells the next shorter quotients apart.
LEMMA HalfUp ==
  ASSUME NEW a \in Nat, NEW b \in Nat, NEW ha, NEW hb, a \div 2 = ha, b \div 2 = hb,
         ha = hb, a % 2 = b % 2
  PROVE  a = b
BY HalvesTell

\* A byte is told by its bits.
LEMMA BitsTell ==
  ASSUME NEW x \in Octets, NEW y \in Octets,
         \A w \in Weights : (x \div w) % 2 = (y \div w) % 2
  PROVE  x = y
<1> USE DEF Weights, Octets
<1>1. x \in Nat /\ y \in Nat
  OBVIOUS
<1>2. ASSUME NEW z \in Octets
      PROVE  /\ z \div 2 \in Nat /\ z \div 4 \in Nat /\ z \div 8 \in Nat /\ z \div 16 \in Nat
             /\ z \div 32 \in Nat /\ z \div 64 \in Nat /\ z \div 128 \in Nat
  OBVIOUS
<1>3. ASSUME NEW z \in Octets
      PROVE  (z \div 128) \div 2 = 0
  OBVIOUS
<1>4. x \div 128 = y \div 128
  BY <1>2, <1>3, HalfUp
<1>5. x \div 64 = y \div 64
  BY <1>1, <1>2, <1>4, Halves, HalfUp
<1>6. x \div 32 = y \div 32
  BY <1>1, <1>2, <1>5, Halves, HalfUp
<1>7. x \div 16 = y \div 16
  BY <1>1, <1>2, <1>6, Halves, HalfUp
<1>8. x \div 8 = y \div 8
  BY <1>1, <1>2, <1>7, Halves, HalfUp
<1>9. x \div 4 = y \div 4
  BY <1>1, <1>2, <1>8, Halves, HalfUp
<1>10. x \div 2 = y \div 2
  BY <1>1, <1>2, <1>9, Halves, HalfUp
<1>11. x \div 1 = x /\ y \div 1 = y
  BY <1>1, Halves
<1>12. x % 2 = y % 2
  BY <1>11
<1> QED
  BY <1>1, <1>10, <1>12, HalvesTell

\* Of the exclusive or with one number, the other can be told.
LEMMA BitKept ==
  ASSUME NEW a \in Nat, NEW b \in Nat, NEW c \in Nat, NEW w \in Weights
  PROVE  /\ Differ(a, c, w) = Differ(b, c, w) => (a \div w) % 2 = (b \div w) % 2
         /\ Differ(c, a, w) = Differ(c, b, w) => (a \div w) % 2 = (b \div w) % 2
<1> DEFINE p == (a \div w) % 2
           q == (b \div w) % 2
           r == (c \div w) % 2
<1>1. \A n \in Nat : n \div w \in Nat
  BY DEF Weights
<1>2. \A n \in Nat : n % 2 \in {0, 1}
  OBVIOUS
<1>3. p \in {0, 1} /\ q \in {0, 1} /\ r \in {0, 1}
  <2>1. a \div w \in Nat /\ b \div w \in Nat /\ c \div w \in Nat
    BY <1>1
  <2> QED
    BY <1>2, <2>1
<1>4. w # 0
  BY DEF Weights
<1>5. /\ Differ(a, c, w) = IF p = r THEN 0 ELSE w
      /\ Differ(b, c, w) = IF q = r THEN 0 ELSE w
      /\ Differ(c, a, w) = IF r = p THEN 0 ELSE w
      /\ Differ(c, b, w) = IF r = q THEN 0 ELSE w
  BY DEF Differ
<1> HIDE DEF p, q, r
<1>6. /\ Differ(a, c, w) = Differ(b, c, w) => p = q
      /\ Differ(c, a, w) = Differ(c, b, w) => p = q
  BY <1>3, <1>4, <1>5
<1> QED
  BY <1>6 DEF p, q

LEMMA XorCancels ==
  ASSUME NEW a \in Octets, NEW b \in Octets, NEW c \in Octets
  PROVE  /\ Xor(a, c) = Xor(b, c) => a = b
         /\ Xor(c, a) = Xor(c, b) => a = b
<1>1. a \in Nat /\ b \in Nat /\ c \in Nat
  BY DEF Octets
<1>2. ASSUME Xor(a, c) = Xor(b, c) PROVE a = b
  <2>1. \A w \in Weights : Differ(a, c, w) = Differ(b, c, w)
    BY <1>2, SameBits
  <2>2. \A w \in Weights : (a \div w) % 2 = (b \div w) % 2
    BY <1>1, <2>1, BitKept
  <2> QED
    BY <2>2, BitsTell
<1>3. ASSUME Xor(c, a) = Xor(c, b) PROVE a = b
  <2>1. \A w \in Weights : Differ(c, a, w) = Differ(c, b, w)
    BY <1>3, SameBits
  <2>2. \A w \in Weights : (a \div w) % 2 = (b \div w) % 2
    BY <1>1, <2>1, BitKept
  <2> QED
    BY <2>2, BitsTell
<1> QED
  BY <1>2, <1>3

\* One round takes different bytes to different bytes: the rounds that add the
\* polynomial are told by its highest bit.
LEMMA CrcBitTells ==
  ASSUME NEW x \in Octets, NEW y \in Octets
  PROVE  /\ CrcBit(x) \in Octets
         /\ CrcBit(x) = CrcBit(y) => x = y
<1> DEFINE p == 140
           T(z) == z % 2 = 1
<1>1. ASSUME NEW z \in Octets
      PROVE  z \div 2 \in 0..127 /\ z \div 2 \in Octets /\ z \in Nat
  BY DEF Octets
<1>2. ASSUME NEW z \in Nat PROVE z % 2 = 0 \/ z % 2 = 1
  OBVIOUS
<1>3. ASSUME NEW h \in 0..127 PROVE Xor(h, p) \in 128..255
  <2>1. h \in Octets /\ p \in Octets /\ (h \div 128) % 2 = 0 /\ (p \div 128) % 2 = 1
    BY DEF Octets
  <2>2. Differ(h, p, 128) = 128
    BY <2>1 DEF Differ
  <2> HIDE DEF p
  <2>3. PICK r \in 0..127 : Xor(h, p) = r + Differ(h, p, 128)
    BY <2>1, XorParts
  <2> QED
    BY <2>2, <2>3
<1>4. p \in Octets
  BY DEF Octets
<1>5. \A z : CrcBit(z) = IF T(z) THEN Xor(z \div 2, p) ELSE z \div 2
  BY DEF CrcBit
<1> HIDE DEF p
<1>6. ASSUME NEW z \in Octets
       PROVE  /\ T(z) => CrcBit(z) = Xor(z \div 2, p) /\ CrcBit(z) \in 128..255
              /\ ~T(z) => CrcBit(z) = z \div 2 /\ CrcBit(z) \in 0..127
  <2>1. z \div 2 \in 0..127
    BY <1>1
  <2>2. Xor(z \div 2, p) \in 128..255
    BY <1>3, <2>1
  <2> HIDE DEF T
  <2> QED
    BY <1>5, <2>1, <2>2
<1>7. CrcBit(x) \in Octets
  <2>1. CrcBit(x) \in 128..255 \/ CrcBit(x) \in 0..127
    BY <1>6
  <2> QED
    BY <2>1 DEF Octets
<1>8. ASSUME CrcBit(x) = CrcBit(y) PROVE x = y
  <2>1. (CrcBit(x) \in 128..255 /\ CrcBit(x) \in 0..127) => FALSE
    OBVIOUS
  <2>2. (T(x) /\ T(y)) \/ (~T(x) /\ ~T(y))
    <3>1. CASE T(x) /\ ~T(y)
      <4>1. CrcBit(x) \in 128..255 /\ CrcBit(y) \in 0..127
        BY <1>6, <3>1
      <4> QED
        BY <1>8, <2>1, <4>1
    <3>2. CASE ~T(x) /\ T(y)
      <4>1. CrcBit(y) \in 128..255 /\ CrcBit(x) \in 0..127
        BY <1>6, <3>2
      <4> QED
        BY <1>8, <2>1, <4>1
    <3> HIDE DEF T
    <3> QED
      BY <3>1, <3>2
  <2>3. x \div 2 = y \div 2
    <3>1. CASE T(x) /\ T(y)
      <4>1. Xor(x \div 2, p) = Xor(y \div 2, p)
        BY <1>6, <1>8, <3>1
      <4>2. x \div 2 \in Octets /\ y \div 2 \in Octets
        BY <1>1
      <4> QED
        BY <1>4, <4>1, <4>2, XorCancels
    <3>2. CASE ~T(x) /\ ~T(y)
      BY <1>6, <1>8, <3>2
    <3> QED
      BY <2>2, <3>1, <3>2
  <2>4. x % 2 = y % 2
    BY <1>1, <1>2, <2>2
  <2> QED
    BY <1>1, <2>3, <2>4, HalvesTell
<1> QED
  BY <1>7, <1>8

\* And so do eight.
LEMMA CrcByteTells ==
  ASSUME NEW x \in Octets, NEW y \in Octets
  PROVE  CrcByte[x] \in Octets /\ (CrcByte[x] = CrcByte[y] => x = y)
<1> DEFINE B == Octets
           two(u) == CrcBit(CrcBit(u))
           four(u) == two(two(u))
           eight(u) == four(four(u))
<1>1. CrcByte = [u \in B |-> eight(u)]
  BY DEF CrcByte, Octets
<1>2. ASSUME NEW u \in B, NEW v \in B
      PROVE  CrcBit(u) \in B /\ (CrcBit(u) = CrcBit(v) => u = v)
  BY CrcBitTells
<1>3. x \in B /\ y \in B
  OBVIOUS
<1> HIDE DEF B
<1>4. ASSUME NEW u \in B, NEW v \in B
      PROVE  two(u) \in B /\ (two(u) = two(v) => u = v)
  BY <1>2
<1> HIDE DEF two
<1>5. ASSUME NEW u \in B, NEW v \in B
      PROVE  four(u) \in B /\ (four(u) = four(v) => u = v)
  BY <1>4
<1> HIDE DEF four
<1>6. ASSUME NEW u \in B, NEW v \in B
      PROVE  eight(u) \in B /\ (eight(u) = eight(v) => u = v)
  BY <1>5
<1> HIDE DEF eight
<1>7. CrcByte[x] = eight(x) /\ CrcByte[y] = eight(y)
  BY <1>1, <1>3
<1>8. CrcByte[x] \in B /\ (CrcByte[x] = CrcByte[y] => x = y)
  BY <1>3, <1>6, <1>7
<1> QED
  BY <1>8 DEF B

\* From 0 upwards, one after the other.
LEMMA CountUp ==
  ASSUME NEW n \in Nat, NEW S, 0 \in S, \A k \in 1..n : k - 1 \in S => k \in S
  PROVE  \A k \in 0..n : k \in S
<1> DEFINE Missing == {k \in 0..n : k \notin S}
<1>1. ASSUME Missing # {} PROVE FALSE
  <2>1. PICK m \in Missing : \A k \in Missing : m <= k
    <3>1. Missing \in SUBSET Nat
      OBVIOUS
    <3> QED
      BY <1>1, <3>1, LeastNat
  <2>2. m \in 1..n /\ m \notin S
    BY <2>1
  <2>3. m - 1 \in 0..n /\ ~(m <= m - 1)
    BY <2>2
  <2>4. m - 1 \in S
    BY <2>1, <2>3
  <2> QED
    BY <2>2, <2>4
<1> QED
  BY <1>1

\* f starts at e and goes on with g.
Steps(n, V) == [1..n -> [V -> V]]
Iterates(f, n, e, g) == f[0] = e /\ \A k \in 1..n : f[k] = g[k][f[k - 1]]

LEMMA IterExists ==
  ASSUME NEW n \in Nat, NEW V, NEW e \in V, NEW g \in Steps(n, V)
  PROVE  \E f \in [0..n -> V] : Iterates(f, n, e, g)
<1> USE DEF Steps
<1> DEFINE Upto(m, f) == f[0] = e /\ \A k \in 1..n : k <= m => f[k] = g[k][f[k - 1]]
           S == {m \in 0..n : \E f \in [0..n -> V] : Upto(m, f)}
<1>1. 0 \in S
  <2>1. [k \in 0..n |-> e] \in [0..n -> V] /\ Upto(0, [k \in 0..n |-> e])
    OBVIOUS
  <2> QED
    BY <2>1
<1>2. ASSUME NEW m \in 1..n, m - 1 \in S PROVE m \in S
  <2>1. PICK f \in [0..n -> V] : Upto(m - 1, f)
    BY <1>2
  <2> DEFINE h == [f EXCEPT ![m] = g[m][f[m - 1]]]
  <2>2. m \in 0..n /\ m - 1 \in 0..n /\ g[m][f[m - 1]] \in V
    OBVIOUS
  <2>3. h \in [0..n -> V] /\ \A k \in 0..n : h[k] = IF k = m THEN g[m][f[m - 1]] ELSE f[k]
    BY <2>2
  <2> HIDE DEF h
  <2>4. \A k \in 1..n : k - 1 \in 0..n /\ k \in 0..n /\ (k <= m => k - 1 # m)
                        /\ (k <= m /\ k # m => k <= m - 1)
    OBVIOUS
  <2>5. Upto(m, h)
    BY <2>1, <2>2, <2>3, <2>4
  <2> QED
    BY <2>2, <2>3, <2>5
<1> HIDE DEF S
<1>3. n \in S
  <2>1. \A k \in 0..n : k \in S
    BY <1>1, <1>2, CountUp
  <2>2. n \in 0..n
    OBVIOUS
  <2> QED
    BY <2>1, <2>2
<1>4. PICK f \in [0..n -> V] : Upto(n, f)
  BY <1>3 DEF S
<1>5. \A k \in 1..n : k <= n
  OBVIOUS
<1> QED
  BY <1>4, <1>5 DEF Iterates

\* What the fold of crc8 holds after every byte.
CrcRun(s, f) ==
  /\ f \in [0..Len(s) -> Octets] /\ f[0] = 0
  /\ \A k \in 1..Len(s) : f[k] = CrcByte[Xor(f[k - 1], s[k])]

LEMMA CrcRuns ==
  ASSUME NEW s \in Seq(Octets)
  PROVE  \E f : CrcRun(s, f) /\ crc8(s) = f[Len(s)]
<1> DEFINE n == Len(s)
           zero == 0
           h == CHOOSE f : f = [k \in 0..n |-> IF k = 0 THEN zero ELSE CrcByte[Xor(f[k - 1], s[k])]]
           g == [k \in 1..n |-> [v \in Octets |-> CrcByte[Xor(v, s[k])]]]
<1>1. n \in Nat /\ zero \in Octets
  BY DEF Octets
<1>2. \A k \in 1..n, v \in Octets : CrcByte[Xor(v, s[k])] \in Octets
  BY XorParts, CrcByteTells
<1>3. g \in Steps(n, Octets) /\ \A k \in 1..n, v \in Octets : g[k][v] = CrcByte[Xor(v, s[k])]
  BY <1>2 DEF Steps
<1>4. crc8(s) = h[n]
  BY DEF crc8
<1> HIDE DEF n, zero, g
<1>5. PICK f \in [0..n -> Octets] : Iterates(f, n, zero, g)
  BY <1>1, <1>3, IterExists
<1>6. f[0] = zero /\ \A k \in 1..n : f[k] = CrcByte[Xor(f[k - 1], s[k])]
  <2>1. \A k \in 1..n : k - 1 \in 0..n
    BY <1>1
  <2> QED
    BY <1>3, <1>5, <2>1 DEF Iterates
<1>7. f = [k \in 0..n |-> IF k = 0 THEN zero ELSE CrcByte[Xor(f[k - 1], s[k])]]
  <2>1. \A k \in 0..n : k = 0 \/ k \in 1..n
    BY <1>1
  <2>2. \A k \in 0..n : f[k] = IF k = 0 THEN zero ELSE CrcByte[Xor(f[k - 1], s[k])]
    BY <1>6, <2>1
  <2> QED
    BY <2>2
<1>8. h = [k \in 0..n |-> IF k = 0 THEN zero ELSE CrcByte[Xor(h[k - 1], s[k])]]
  BY <1>7
<1> HIDE DEF h
<1>9. h[0] = zero /\ \A k \in 1..n : h[k] = CrcByte[Xor(h[k - 1], s[k])]
  <2>1. 0 \in 0..n /\ \A k \in 1..n : k \in 0..n /\ k # 0
    BY <1>1
  <2>2. \A k \in 0..n : h[k] = IF k = 0 THEN zero ELSE CrcByte[Xor(h[k - 1], s[k])]
    BY <1>8
  <2> QED
    BY <2>1, <2>2
<1>10. \A k \in 0..n : h[k] \in Octets
  <2> DEFINE S == {k \in 0..n : h[k] \in Octets}
  <2>1. 0 \in S
    BY <1>1, <1>9
  <2>2. ASSUME NEW k \in 1..n, k - 1 \in S PROVE k \in S
    BY <1>1, <1>2, <1>9, <2>2
  <2> HIDE DEF S
  <2>3. \A k \in 0..n : k \in S
    BY <1>1, <2>1, <2>2, CountUp
  <2> QED
    BY <2>3 DEF S
<1>11. h \in [0..n -> Octets]
  <2>1. h = [k \in 0..n |-> h[k]]
    BY <1>8
  <2> QED
    BY <1>10, <2>1
<1> QED
  BY <1>4, <1>9, <1>11 DEF CrcRun, n, zero

LEMMA CrcTyped ==
  ASSUME NEW s \in Seq(Octets)
  PROVE  crc8(s) \in Octets
<1>1. PICK f : CrcRun(s, f) /\ crc8(s) = f[Len(s)]
  BY CrcRuns
<1>2. Len(s) \in 0..Len(s)
  OBVIOUS
<1> QED
  BY <1>1, <1>2 DEF CrcRun

\* One changed byte, wherever it is and whatever it becomes, changes the checksum.
LEMMA CrcTells ==
  ASSUME NEW s \in Seq(Octets), NEW t \in Seq(Octets), NEW n \in Nat,
         Len(s) = n, Len(t) = n, NEW j \in 1..n, s[j] # t[j],
         \A i \in 1..n : i # j => s[i] = t[i]
  PROVE  crc8(s) # crc8(t)
<1>1. PICK f : CrcRun(s, f) /\ crc8(s) = f[Len(s)]
  BY CrcRuns
<1>2. PICK g : CrcRun(t, g) /\ crc8(t) = g[Len(t)]
  BY CrcRuns
<1> DEFINE S == {k \in 0..n : IF k < j THEN f[k] = g[k] ELSE f[k] # g[k]}
<1>3. 0 \in S
  BY <1>1, <1>2 DEF CrcRun
<1>4. ASSUME NEW k \in 1..n, k - 1 \in S PROVE k \in S
  <2> DEFINE a == f[k - 1]
             b == g[k - 1]
             c == s[k]
             d == t[k]
  <2>1. f[k] = CrcByte[Xor(a, c)] /\ g[k] = CrcByte[Xor(b, d)]
    BY <1>1, <1>2 DEF CrcRun
  <2>2. a \in Octets /\ b \in Octets /\ c \in Octets /\ d \in Octets
    <3>1. k - 1 \in 0..n /\ k \in 1..n
      OBVIOUS
    <3> QED
      BY <1>1, <1>2, <3>1 DEF CrcRun
  <2>3. k \in 0..n
    OBVIOUS
  <2>4. k < j => k - 1 < j /\ k # j
    OBVIOUS
  <2>5. k = j => k - 1 < j /\ ~(k < j)
    OBVIOUS
  <2>6. ~(k < j) /\ k # j => ~(k - 1 < j)
    OBVIOUS
  <2>7. CASE k < j
    <3>1. a = b /\ c = d
      BY <1>4, <2>4, <2>7
    <3> QED
      BY <2>1, <2>3, <2>7, <3>1
  <2>8. CASE k = j
    <3>1. a = b /\ c # d
      BY <1>4, <2>5, <2>8
    <3>2. f[k] # g[k]
      <4> HIDE DEF a, b, c, d
      <4>1. Xor(a, c) # Xor(b, d)
        BY <2>2, <3>1, XorCancels
      <4>2. Xor(a, c) \in Octets /\ Xor(b, d) \in Octets
        BY <2>2, XorParts
      <4> QED
        BY <2>1, <4>1, <4>2, CrcByteTells
    <3> QED
      BY <2>3, <2>5, <2>8, <3>2
  <2>9. CASE ~(k < j) /\ k # j
    <3>1. a # b /\ c = d
      BY <1>4, <2>6, <2>9
    <3>2. f[k] # g[k]
      <4> HIDE DEF a, b, c, d
      <4>1. Xor(a, c) # Xor(b, d)
        BY <2>2, <3>1, XorCancels
      <4>2. Xor(a, c) \in Octets /\ Xor(b, d) \in Octets
        BY <2>2, XorParts
      <4> QED
        BY <2>1, <4>1, <4>2, CrcByteTells
    <3> QED
      BY <2>3, <2>9, <3>2
  <2> QED
    BY <2>7, <2>8, <2>9
<1> HIDE DEF S
<1>5. \A k \in 0..n : k \in S
  BY <1>3, <1>4, CountUp
<1>6. n \in S /\ ~(n < j)
  BY <1>5
<1> QED
  BY <1>1, <1>2, <1>6 DEF S

-----------------------------------------------------------------------------
(* A damaged frame is refused.                                               *)

\* The constants of the code.
RealBytes ==
  /\ Byte = 0..255 /\ START = StartByte /\ END = EndByte /\ PayloadMax = PayloadLimit
  /\ \A s \in Seq(Byte) : Crc(s) = crc8(s)

LEMMA RealCrc ==
  ASSUME RealBytes, NEW s \in Seq(Byte)
  PROVE  Crc(s) \in Byte
<1>1. Byte = Octets
  BY DEF RealBytes, Octets
<1> QED
  BY <1>1, CrcTyped DEF RealBytes

\* A frame with one changed byte, unless it is the length, is refused for good.
LEMMA DamagedIsRejected ==
  ASSUME RealBytes, NEW a \in Seq(Byte), ValidHead(a), Len(a) = Total(a[2]),
         NEW j \in 1..Len(a), j # 2, NEW b \in Byte, b # a[j]
  PROVE  Rejected([a EXCEPT ![j] = b]) /\ [a EXCEPT ![j] = b] \in Seq(Byte)
<1> DEFINE d == [a EXCEPT ![j] = b]
           m == a[2]
           L == Len(a)
           u == SubSeq(a, 3, 2 + m)
           v == SubSeq(d, 3, 2 + m)
<1>1. Byte = Octets /\ \A s \in Seq(Octets) : Crc(s) = crc8(s)
  BY DEF RealBytes, Octets
<1>2. /\ m \in Nat /\ m > 0 /\ L = m + 4 /\ a[1] = START /\ ~BadLen(m) /\ Trailer(a)
  BY CompleteShape DEF ValidHead, Complete
<1>3. d \in Seq(Byte) /\ Len(d) = L /\ \A i \in 1..L : d[i] = IF i = j THEN b ELSE a[i]
  OBVIOUS
<1>4. a[m + 3] = END /\ a[m + 4] = Crc(u)
  BY <1>2 DEF Trailer
<1> HIDE DEF d, m, L
<1>5. CASE j = 1
  <2>1. d[1] # START /\ Len(d) > 0
    BY <1>2, <1>3, <1>5
  <2> QED
    BY <1>3, <2>1 DEF Rejected, BadHead, d
<1>6. CASE j # 1
  <2>1. d[1] = START /\ d[2] = m
    BY <1>2, <1>3, <1>6 DEF m
  <2>2. Complete(d)
    BY <1>2, <1>3, <2>1 DEF Complete, Total
  <2>3. Trailer(d) <=> d[m + 3] = END /\ d[m + 4] = Crc(v)
    BY <2>1 DEF Trailer
  <2>4. CASE j = m + 3
    <3>1. d[m + 3] # END
      BY <1>2, <1>3, <1>4, <2>4 DEF L
    <3> QED
      BY <1>3, <2>2, <2>3, <3>1 DEF Rejected, d
  <2>5. CASE j = m + 4
    <3>1. d[m + 4] # Crc(u)
      BY <1>2, <1>3, <1>4, <2>5 DEF L
    <3>2. u = v
      <4>1. 2 + m \in Nat /\ 3 \in Nat /\ 1 <= 3 /\ 2 + m <= Len(a) /\ 2 + m <= Len(d)
        BY <1>2, <1>3 DEF L
      <4>2. \A i \in 3 .. 2 + m : a[i] = d[i]
        BY <1>2, <1>3, <2>5
      <4> QED
        BY <1>3, <4>1, <4>2, SubSeqAgree
    <3> QED
      BY <1>3, <2>2, <2>3, <3>1, <3>2 DEF Rejected, d
  <2>6. CASE j # m + 3 /\ j # m + 4
    <3>1. j \in 3 .. 2 + m /\ j - 2 \in 1..m /\ (j - 2) + 2 = j
      BY <1>2, <1>6, <2>6 DEF L
    <3>2. /\ u \in Seq(Byte) /\ Len(u) = m /\ \A i \in 1..m : u[i] = a[i + 2]
      <4>1. 3 \in Int /\ 2 + m \in Int /\ \A i \in 3 .. 2 + m : a[i] \in Byte
        BY <1>2 DEF L
      <4>2. /\ u \in Seq(Byte)
            /\ Len(u) = IF 3 <= 2 + m THEN (2 + m) - 3 + 1 ELSE 0
            /\ \A i \in 1 .. (2 + m) - 3 + 1 : u[i] = a[3 + i - 1]
        BY <4>1, SubSeqProperties
      <4>3. (2 + m) - 3 + 1 = m /\ 3 <= 2 + m /\ \A i \in 1..m : 3 + i - 1 = i + 2
        BY <1>2
      <4> HIDE DEF u
      <4> QED
        BY <4>2, <4>3
    <3>3. /\ v \in Seq(Byte) /\ Len(v) = m /\ \A i \in 1..m : v[i] = d[i + 2]
      <4>1. 3 \in Int /\ 2 + m \in Int /\ \A i \in 3 .. 2 + m : d[i] \in Byte
        BY <1>2, <1>3
      <4>2. /\ v \in Seq(Byte)
            /\ Len(v) = IF 3 <= 2 + m THEN (2 + m) - 3 + 1 ELSE 0
            /\ \A i \in 1 .. (2 + m) - 3 + 1 : v[i] = d[3 + i - 1]
        BY <4>1, SubSeqProperties
      <4>3. (2 + m) - 3 + 1 = m /\ 3 <= 2 + m /\ \A i \in 1..m : 3 + i - 1 = i + 2
        BY <1>2
      <4> HIDE DEF v
      <4> QED
        BY <4>2, <4>3
    <3> HIDE DEF u, v
    <3>4. ASSUME NEW i \in 1..m
          PROVE  i + 2 \in 1..L /\ (i + 2 = j <=> i = j - 2)
      BY <1>2, <3>1
    <3>5. v[j - 2] # u[j - 2] /\ \A i \in 1..m : i # j - 2 => v[i] = u[i]
      <4>1. d[j] # a[j]
        BY <1>3 DEF L
      <4>2. v[j - 2] = d[j] /\ u[j - 2] = a[j]
        BY <3>1, <3>2, <3>3
      <4>3. \A i \in 1..m : i # j - 2 => v[i] = u[i]
        BY <1>3, <3>2, <3>3, <3>4
      <4> QED
        BY <4>1, <4>2, <4>3
    <3>6. crc8(v) # crc8(u)
      <4> DEFINE k == j - 2
      <4>1. k \in 1..m /\ v[k] # u[k] /\ \A i \in 1..m : i # k => v[i] = u[i]
        BY <3>1, <3>5
      <4> HIDE DEF k
      <4> QED
        BY <1>1, <1>2, <3>2, <3>3, <4>1, CrcTells
    <3>7. d[m + 4] = Crc(u) /\ Crc(u) # Crc(v)
      <4>1. d[m + 4] = a[m + 4]
        BY <1>2, <1>3, <2>6
      <4> QED
        BY <1>1, <1>4, <3>2, <3>3, <3>6, <4>1
    <3> QED
      BY <1>3, <2>2, <2>3, <3>7 DEF Rejected, d
  <2> QED
    BY <2>4, <2>5, <2>6
<1> QED
  BY <1>5, <1>6

\* The parse of a line that begins with what is refused is that of the rest.
LEMMA RejectedSkipped ==
  ASSUME NEW s \in Seq(Byte), Rejected(s)
  PROVE  ReferenceFrames(s) = ReferenceFrames(Tail(s))
<1>1. Len(s) \in Nat /\ s # <<>> /\ 1 \in 1 .. Len(s) + 1 /\ SubSeq(s, 1, Len(s)) = s
  BY DEF Rejected, BadHead, Complete
<1>2. ~(~BadHead(s) /\ ~Complete(s)) /\ ~ValidHead(s)
  <2>1. BadHead(s) => ~Complete(s)
    BY DEF BadHead, Complete
  <2> QED
    BY <2>1 DEF Rejected, ValidHead
<1>3. Parse(s)[1] = Parse(s)[1 + 1]
  <2>1. Parse(s)[1] = ParseStep(s, Parse(s), 1)
    BY <1>1, ParseIs
  <2> QED
    BY <1>1, <1>2, <2>1 DEF ParseStep
<1>4. <<s[1]>> \in Seq(Byte) /\ Tail(s) \in Seq(Byte) /\ s = <<s[1]>> \o Tail(s) /\ Len(<<s[1]>>) = 1
  BY <1>1
<1>5. Parse(<<s[1]>> \o Tail(s))[Len(<<s[1]>>) + 1] = Parse(Tail(s))[1]
  BY <1>4, ParseShift
<1> QED
  BY <1>3, <1>4, <1>5 DEF ReferenceFrames

\* A command or status with one damaged byte is not taken for another one: unless
\* the byte is LEN, whatever it became and whatever follows on the line, the
\* decoder gives up the frame's first byte and looks on behind it.
THEOREM DamagedFrameRefused ==
  ASSUME RealBytes, NEW code \in Byte, NEW payload \in Seq(Byte), Len(payload) <= PayloadMax,
         NEW j \in 1 .. Len(Framed(code, payload)), j # 2,
         NEW b \in Byte, b # Framed(code, payload)[j], NEW rest \in Seq(Byte)
  PROVE  LET s == [Framed(code, payload) EXCEPT ![j] = b] \o rest
         IN  ReferenceFrames(s) = ReferenceFrames(Tail(s))
<1> DEFINE a == Framed(code, payload)
           d == [a EXCEPT ![j] = b]
           s == d \o rest
<1>1. END \in Byte /\ 1 + Len(payload) \in Byte
  <2>1. Byte = 0..255 /\ END = 35 /\ PayloadMax = 24
    BY DEF RealBytes, EndByte, PayloadLimit
  <2> DEFINE n == Len(payload)
  <2>2. n \in Nat /\ n <= 24
    BY <2>1
  <2> HIDE DEF n
  <2>3. 1 + n \in 0..255 /\ 35 \in 0..255
    BY <2>2
  <2> QED
    BY <2>1, <2>3 DEF n
<1>2. Crc(<<code>> \o payload) \in Byte
  <2>1. <<code>> \o payload \in Seq(Byte)
    OBVIOUS
  <2> QED
    BY <2>1, RealCrc
<1>3. a \in Seq(Byte) /\ Len(a) = Total(a[2]) /\ ValidHead(a)
  BY <1>1, <1>2, FramedIsValid
<1> HIDE DEF a
<1>4. Rejected(d) /\ d \in Seq(Byte)
  BY <1>3, DamagedIsRejected DEF a
<1> HIDE DEF d
<1>5. s \in Seq(Byte) /\ Len(d) <= Len(s) /\ \A i \in 1..Len(d) : d[i] = s[i]
  BY <1>4
<1>6. Rejected(s)
  BY <1>4, <1>5, RejectedStable
<1> QED
  BY <1>5, <1>6, RejectedSkipped DEF a, d

-----------------------------------------------------------------------------
(* The fields of a frame, one after the other.                               *)

\* f joins one field of s after the other.
Joins(f, s, n) ==
  f[0] = <<>> /\ (\A k \in 1..n : f[k] = f[k - 1] \o s[k]) /\ FlattenSeq(s) = f[n]

LEMMA FlattenRuns ==
  ASSUME NEW B, NEW s \in Seq(Seq(B)), NEW n \in Nat, n = Len(s), n # 0
  PROVE  \E f \in [0..n -> Seq(B)] : Joins(f, s, n)
<1> DEFINE V == Seq(B)
           g == [k \in 1..n |-> [v \in V |-> v \o s[k]]]
           h == CHOOSE f : f = [k \in 1..n |-> IF k = 1 THEN s[k] ELSE f[k - 1] \o s[k]]
<1>1. FlattenSeq(s) = h[n]
  BY DEF FlattenSeq
<1>2. \A k \in 1..n : s[k] \in V
  OBVIOUS
<1>3. <<>> \in V /\ \A v, x \in V : v \o x \in V
  OBVIOUS
<1>4. \A v \in V : <<>> \o v = v
  OBVIOUS
<1> HIDE DEF V
<1>5. g \in Steps(n, V) /\ \A k \in 1..n, v \in V : g[k][v] = v \o s[k]
  BY <1>2, <1>3 DEF Steps
<1> HIDE DEF g
<1>6. PICK f \in [0..n -> V] : Iterates(f, n, <<>>, g)
  BY <1>3, <1>5, IterExists
<1>7. f[0] = <<>> /\ \A k \in 1..n : f[k] = f[k - 1] \o s[k]
  <2>1. \A k \in 1..n : k - 1 \in 0..n
    OBVIOUS
  <2> QED
    BY <1>5, <1>6, <2>1 DEF Iterates
<1> DEFINE f1 == [k \in 1..n |-> f[k]]
<1>8. f1 = [k \in 1..n |-> IF k = 1 THEN s[k] ELSE f1[k - 1] \o s[k]]
  <2>1. ASSUME NEW k \in 1..n PROVE f[k] = IF k = 1 THEN s[k] ELSE f1[k - 1] \o s[k]
    <3>1. CASE k = 1
      <4>1. k - 1 = 0 /\ s[k] \in V
        BY <1>2, <3>1
      <4>2. f[k] = s[k]
        BY <1>4, <1>7, <4>1
      <4> QED
        BY <3>1, <4>2
    <3>2. CASE k # 1
      <4>1. k - 1 \in 1..n
        BY <3>2
      <4> QED
        BY <1>7, <3>2, <4>1
    <3> QED
      BY <3>1, <3>2
  <2> QED
    BY <2>1
<1>9. h = [k \in 1..n |-> IF k = 1 THEN s[k] ELSE h[k - 1] \o s[k]]
  <2> HIDE DEF f1
  <2> QED
    BY <1>8
<1> HIDE DEF h
<1>10. \A k \in 0..n : k # 0 => h[k] = f[k]
  <2> DEFINE S == {k \in 0..n : k # 0 => h[k] = f[k]}
  <2>1. 0 \in S
    OBVIOUS
  <2>2. ASSUME NEW k \in 1..n, k - 1 \in S PROVE k \in S
    <3>1. h[k] = IF k = 1 THEN s[k] ELSE h[k - 1] \o s[k]
      BY <1>9
    <3>2. f[k] = f[k - 1] \o s[k]
      BY <1>7
    <3>3. k \in 0..n
      OBVIOUS
    <3>4. CASE k = 1
      <4>1. k - 1 = 0 /\ s[k] \in V
        BY <1>2, <3>4
      <4>2. f[k] = s[k]
        BY <1>4, <1>7, <3>2, <4>1
      <4> QED
        BY <3>1, <3>3, <3>4, <4>2
    <3>5. CASE k # 1
      <4>1. k - 1 # 0 /\ k \in 0..n
        BY <3>5
      <4>2. h[k - 1] = f[k - 1]
        BY <2>2, <4>1
      <4> QED
        BY <3>1, <3>2, <3>5, <4>1, <4>2
    <3> QED
      BY <3>4, <3>5
  <2> HIDE DEF S
  <2>3. \A k \in 0..n : k \in S
    BY <2>1, <2>2, CountUp
  <2> QED
    BY <2>3 DEF S
<1>11. FlattenSeq(s) = f[n]
  <2>1. n \in 0..n
    OBVIOUS
  <2> QED
    BY <1>1, <1>10, <2>1
<1> QED
  BY <1>7, <1>11 DEF V, Joins

\* The fields stand in the payload where the widths before them end.
Follow(o, s, n) == o[1] = 0 /\ \A i \in 2..n : o[i] = o[i - 1] + Len(s[i - 1])
Stand(p, o, s, n) ==
  \A i \in 1..n : \A j \in 1..Len(s[i]) : o[i] + j \in 1..Len(p) /\ p[o[i] + j] = s[i][j]

LEMMA FlattenFields ==
  ASSUME NEW B, NEW s \in Seq(Seq(B)), NEW n \in Nat, n = Len(s), n # 0,
         NEW o \in [1..n -> Nat], Follow(o, s, n)
  PROVE  /\ FlattenSeq(s) \in Seq(B) /\ Len(FlattenSeq(s)) = o[n] + Len(s[n])
         /\ Stand(FlattenSeq(s), o, s, n)
<1> USE DEF Follow, Stand
<1>1. PICK f \in [0..n -> Seq(B)] : Joins(f, s, n)
  BY FlattenRuns
<1>2. f[0] = <<>> /\ (\A k \in 1..n : f[k] = f[k - 1] \o s[k]) /\ FlattenSeq(s) = f[n]
  BY <1>1 DEF Joins
<1>3. \A k \in 1..n : s[k] \in Seq(B) /\ Len(s[k]) \in Nat /\ o[k] \in Nat
  <2>1. \A k \in 1..n : s[k] \in Seq(B)
    OBVIOUS
  <2>2. \A v \in Seq(B) : Len(v) \in Nat
    OBVIOUS
  <2> QED
    BY <2>1, <2>2
<1> DEFINE Placed(k) ==
             /\ Len(f[k]) = o[k] + Len(s[k])
             /\ \A i \in 1..k : \A j \in 1..Len(s[i]) :
                  o[i] + j \in 1..Len(f[k]) /\ f[k][o[i] + j] = s[i][j]
           S == {k \in 0..n : k # 0 => Placed(k)}
<1>4. 0 \in S
  OBVIOUS
<1>5. ASSUME NEW k \in 1..n, k - 1 \in S PROVE k \in S
  <2> DEFINE u == f[k - 1]
             v == s[k]
             w == f[k]
             p == Len(u)
             q == Len(v)
  <2>1. u \in Seq(B) /\ v \in Seq(B) /\ w = u \o v /\ k \in 0..n /\ p \in Nat /\ q \in Nat
    <3>1. k - 1 \in 0..n
      OBVIOUS
    <3>2. u \in Seq(B) /\ v \in Seq(B) /\ w = u \o v
      BY <1>2, <1>3, <3>1
    <3> QED
      BY <3>2
  <2>2. p = o[k]
    <3>1. CASE k = 1
      BY <1>2, <3>1
    <3>2. CASE k # 1
      <4>1. k \in 2..n /\ k - 1 # 0
        BY <3>2
      <4>2. Placed(k - 1)
        BY <1>5, <4>1
      <4> QED
        BY <4>1, <4>2
    <3> QED
      BY <3>1, <3>2
  <2>3. /\ Len(w) = p + q
        /\ \A i \in 1..p : w[i] = u[i]
        /\ \A i \in 1..q : w[p + i] = v[i]
    <3>1. u \in Seq(B) /\ v \in Seq(B) /\ w = u \o v /\ p = Len(u) /\ q = Len(v)
      BY <2>1
    <3> HIDE DEF u, v, w, p, q
    <3>2. Len(w) = p + q
      BY <3>1, ConcatAt
    <3>3. \A i \in 1..p : w[i] = u[i]
      BY <3>1, ConcatAt
    <3>4. \A i \in 1..q : w[p + i] = v[i]
      BY <3>1, ConcatAt
    <3> QED
      BY <3>2, <3>3, <3>4
  <2>4. ASSUME NEW i \in 1..k, NEW j \in 1..Len(s[i])
        PROVE  o[i] + j \in 1..Len(w) /\ w[o[i] + j] = s[i][j]
    <3>1. CASE i = k
      <4>1. j \in 1..q
        BY <3>1
      <4>2. w[p + j] = v[j]
        BY <2>3, <4>1
      <4>3. p + j \in 1..Len(w)
        <5> HIDE DEF p, q, w
        <5> QED
          BY <2>1, <2>3, <4>1
      <4> QED
        BY <2>2, <3>1, <4>2, <4>3
    <3>2. CASE i # k
      <4>1. i \in 1 .. k - 1 /\ k - 1 # 0
        BY <3>2
      <4>2. Placed(k - 1)
        BY <1>5, <4>1
      <4>3. o[i] + j \in 1..p /\ u[o[i] + j] = s[i][j]
        BY <4>1, <4>2
      <4>4. w[o[i] + j] = u[o[i] + j]
        BY <2>3, <4>3
      <4>5. o[i] + j \in 1..Len(w)
        <5> HIDE DEF p, q, w
        <5> QED
          BY <2>1, <2>3, <4>3
      <4> QED
        BY <4>3, <4>4, <4>5
    <3> QED
      BY <3>1, <3>2
  <2>5. Placed(k)
    BY <2>2, <2>3, <2>4
  <2> HIDE DEF Placed
  <2> QED
    BY <2>1, <2>5
<1>6. Placed(n)
  <2> HIDE DEF S
  <2>1. \A k \in 0..n : k \in S
    BY <1>4, <1>5, CountUp
  <2>2. n \in S
    BY <2>1
  <2> HIDE DEF Placed
  <2> QED
    BY <2>2 DEF S
<1>7. f[n] \in Seq(B)
  BY <1>2
<1> QED
  BY <1>2, <1>6, <1>7

\* The fields of every status have one width each and follow each other.
Spaced(n, w) == [i \in 1..n |-> <<w * (i - 1), w>>]

LEMMA SpacedFields ==
  /\ At(<<0>>, 4) = Spaced(1, 4) /\ At(<<0>>, 1) = Spaced(1, 1)
  /\ At(<<0, 4>>, 4) = Spaced(2, 4) /\ At(<<0, 2, 4>>, 2) = Spaced(3, 2)
  /\ At(<<0, 4, 8>>, 4) = Spaced(3, 4) /\ At(<<0, 1, 2>>, 1) = Spaced(3, 1)
  /\ At(<<0, 4, 8, 12, 16, 20>>, 4) = Spaced(6, 4)
  /\ At(<<0, 2, 4, 6, 8, 10, 12>>, 2) = Spaced(7, 2)
<1> USE DEF At, Spaced
<1>1. At(<<0>>, 4) = Spaced(1, 4)
  OBVIOUS
<1>2. At(<<0>>, 1) = Spaced(1, 1)
  OBVIOUS
<1>3. At(<<0, 4>>, 4) = Spaced(2, 4)
  OBVIOUS
<1>4. At(<<0, 2, 4>>, 2) = Spaced(3, 2)
  OBVIOUS
<1>5. At(<<0, 4, 8>>, 4) = Spaced(3, 4)
  OBVIOUS
<1>6. At(<<0, 1, 2>>, 1) = Spaced(3, 1)
  OBVIOUS
<1>7. At(<<0, 4, 8, 12, 16, 20>>, 4) = Spaced(6, 4)
  OBVIOUS
<1>8. At(<<0, 2, 4, 6, 8, 10, 12>>, 2) = Spaced(7, 2)
  OBVIOUS
<1> HIDE DEF At, Spaced
<1> QED
  BY <1>1, <1>2, <1>3, <1>4, <1>5, <1>6, <1>7, <1>8

LEMMA LayoutIs ==
  ASSUME NEW c \in StatusCodes
  PROVE  \E n \in 1..7, w \in {1, 2, 4} : Layout[c] = Spaced(n, w) /\ w * n <= 24
<1> DEFINE Fits(n, w) == Layout[c] = Spaced(n, w)
<1>1. Fits(1, 4) \/ Fits(1, 1) \/ Fits(2, 4) \/ Fits(3, 2) \/ Fits(3, 4) \/ Fits(3, 1)
        \/ Fits(6, 4) \/ Fits(7, 2)
  BY SpacedFields DEF Layout, StatusCodes
<1> QED
  BY <1>1

LEMMA SpacedSum ==
  ASSUME NEW n \in 1..7, NEW w \in {1, 2, 4}
  PROVE  /\ \A i \in 1..n : w * (i - 1) \in Nat
         /\ \A i \in 2..n : w * (i - 1) = w * ((i - 1) - 1) + w
         /\ w * (1 - 1) = 0 /\ w * (n - 1) + w = w * n
         /\ w \in Nat /\ 1 <= w
<1>1. CASE w = 1
  BY <1>1
<1>2. CASE w = 2
  BY <1>2
<1>3. CASE w = 4
  BY <1>3
<1> QED
  BY <1>1, <1>2, <1>3

\* What is packed into at most 24 bytes is popped as it was packed.
LEMMA PackedRoundTrip ==
  ASSUME RealBytes, NEW c \in Byte, NEW p \in Seq(Byte), Len(p) <= 24, NEW rest \in Seq(Byte)
  PROVE  ReferenceFrames(Framed(c, p) \o rest)
           = <<[code |-> c, payload |-> p]>> \o ReferenceFrames(rest)
<1>1. Byte = 0..255 /\ END = 35 /\ PayloadMax = 24
  BY DEF RealBytes, EndByte, PayloadLimit
<1>2. END \in Byte
  BY <1>1
<1>3. Len(p) <= PayloadMax /\ 1 + Len(p) \in Byte
  <2> DEFINE k == Len(p)
  <2>1. k \in Nat /\ k <= 24
    OBVIOUS
  <2> HIDE DEF k
  <2>2. 1 + k \in 0..255
    BY <2>1
  <2> QED
    BY <1>1, <2>1, <2>2 DEF k
<1>4. Crc(<<c>> \o p) \in Byte
  <2>1. <<c>> \o p \in Seq(Byte)
    OBVIOUS
  <2> QED
    BY <2>1, RealCrc
<1> QED
  BY <1>2, <1>3, <1>4, FramesRoundTrip

\* A status arrives as it was packed: its fields, framed, are popped as one frame,
\* and the fields decoded from it are those that were packed, whatever their bytes
\* and whatever follows on the line.
THEOREM StatusRoundTrip ==
  ASSUME RealBytes, NEW c \in StatusCodes, NEW fields \in Seq(Seq(Byte)),
         Len(fields) = Len(Layout[c]),
         \A i \in 1..Len(fields) : Len(fields[i]) = Layout[c][i][2],
         NEW rest \in Seq(Byte)
  PROVE  \E f : /\ ReferenceFrames(Framed(c, FlattenSeq(fields)) \o rest)
                     = <<f>> \o ReferenceFrames(rest)
                /\ Decode(f) = fields
<1> DEFINE flat == FlattenSeq(fields)
           f == [code |-> c, payload |-> flat]
<1>1. PICK n \in 1..7, w \in {1, 2, 4} : Layout[c] = Spaced(n, w) /\ w * n <= 24
  BY LayoutIs
<1> DEFINE o == [i \in 1..n |-> w * (i - 1)]
<1>2. /\ \A i \in 1..n : w * (i - 1) \in Nat
      /\ \A i \in 2..n : w * (i - 1) = w * ((i - 1) - 1) + w
      /\ w * (1 - 1) = 0 /\ w * (n - 1) + w = w * n
      /\ w \in Nat /\ 1 <= w
  BY SpacedSum
<1>3. Len(Layout[c]) = n /\ DOMAIN Layout[c] = 1..n /\ \A i \in 1..n : Layout[c][i] = <<o[i], w>>
  BY <1>1 DEF Spaced
<1>4. /\ o \in [1..n -> Nat] /\ o[1] = 0 /\ o[n] + w = w * n
      /\ \A i \in 2..n : o[i] = o[i - 1] + w
  <2>1. 1 \in 1..n /\ n \in 1..n /\ \A i \in 2..n : i \in 1..n /\ i - 1 \in 1..n
    OBVIOUS
  <2> QED
    BY <1>2, <2>1
<1> HIDE DEF o
<1>5. Len(fields) = n /\ n \in Nat /\ n # 0 /\ \A i \in 1..n : Len(fields[i]) = w
  <2>1. Len(fields) = n /\ n \in Nat /\ n # 0
    BY <1>3
  <2>2. ASSUME NEW i \in 1..n PROVE Len(fields[i]) = w
    <3>1. Layout[c][i] = <<o[i], w>>
      BY <1>3
    <3> QED
      BY <2>1, <3>1
  <2> QED
    BY <2>1, <2>2
<1>6. /\ flat \in Seq(Byte) /\ Len(flat) <= 24
      /\ \A i \in 1..n : \A j \in 1..w : o[i] + j \in 1..Len(flat) /\ flat[o[i] + j] = fields[i][j]
  <2>1. \A i \in 2..n : i \in 1..n /\ i - 1 \in 1..n
    BY <1>5
  <2>2. \A i \in 2..n : o[i] = o[i - 1] + Len(fields[i - 1])
    BY <1>4, <1>5, <2>1
  <2>3. n \in 1..n
    BY <1>5
  <2>4. Follow(o, fields, n)
    BY <1>4, <2>2 DEF Follow
  <2>5. /\ flat \in Seq(Byte) /\ Len(flat) = o[n] + Len(fields[n])
        /\ Stand(flat, o, fields, n)
    <3>1. o \in [1..n -> Nat] /\ n \in Nat /\ n = Len(fields) /\ n # 0
      BY <1>4, <1>5
    <3> QED
      BY <2>4, <3>1, FlattenFields
  <2> HIDE DEF flat
  <2>6. Len(flat) <= 24
    BY <1>1, <1>4, <1>5, <2>3, <2>5
  <2>7. \A i \in 1..n : \A j \in 1..w : o[i] + j \in 1..Len(flat) /\ flat[o[i] + j] = fields[i][j]
    BY <1>5, <2>5 DEF Stand
  <2> QED
    BY <2>5, <2>6, <2>7
<1> HIDE DEF flat
<1>7. ReferenceFrames(Framed(c, flat) \o rest) = <<f>> \o ReferenceFrames(rest)
  <2>1. c \in Byte
    BY DEF RealBytes, StatusCodes
  <2> QED
    BY <1>6, <2>1, PackedRoundTrip
<1>8. Decode(f) = fields
  <2> DEFINE z == Zeros(PayloadLimit - Len(flat))
             bytes == flat \o z
  <2>1. z \in Seq(Byte)
    <3> DEFINE k == PayloadLimit - Len(flat)
    <3>1. k \in Nat
      BY <1>6 DEF PayloadLimit
    <3>2. 0 \in Byte
      BY DEF RealBytes
    <3> HIDE DEF k
    <3>3. Zeros(k) \in Seq(Byte)
      BY <3>1, <3>2 DEF Zeros
    <3> QED
      BY <3>3 DEF k
  <2>2. /\ bytes \in Seq(Byte) /\ Len(flat) <= Len(bytes)
        /\ \A i \in 1..Len(flat) : bytes[i] = flat[i]
    <3> HIDE DEF z
    <3> QED
      BY <1>6, <2>1
  <2>3. Decode(f) = [i \in 1..n |-> SubSeq(bytes, Layout[c][i][1] + 1, Layout[c][i][1] + Layout[c][i][2])]
    BY <1>3 DEF Decode
  <2> HIDE DEF f, bytes
  <2>4. ASSUME NEW i \in 1..n
        PROVE  SubSeq(bytes, Layout[c][i][1] + 1, Layout[c][i][1] + Layout[c][i][2]) = fields[i]
    <3> DEFINE u == fields[i]
               m == o[i] + 1
               k == o[i] + w
    <3>1. Layout[c][i][1] = o[i] /\ Layout[c][i][2] = w
      <4>1. Layout[c][i] = <<o[i], w>>
        BY <1>3
      <4> QED
        BY <4>1
    <3>2. u \in Seq(Byte) /\ Len(u) = w /\ o[i] \in Nat /\ w \in Nat /\ 1 <= w
      <4>1. i \in 1..Len(fields)
        BY <1>5
      <4>2. u \in Seq(Byte)
        BY <4>1
      <4>3. Len(u) = w
        BY <1>5
      <4>4. o[i] \in Nat
        BY <1>4
      <4> QED
        BY <1>2, <4>2, <4>3, <4>4
    <3>3. w \in 1..w
      BY <3>2
    <3>4. k \in 1..Len(flat)
      BY <1>6, <3>3
    <3>5. /\ m \in Nat /\ 1 <= m /\ k \in Nat /\ k <= Len(bytes) /\ k = m + Len(u) - 1
      <4>1. Len(flat) \in Nat /\ Len(bytes) \in Nat
        BY <1>6, <2>2
      <4> HIDE DEF u
      <4>2. k \in Nat /\ k <= Len(bytes)
        BY <2>2, <3>4, <4>1
      <4>3. m \in Nat /\ 1 <= m /\ k = m + Len(u) - 1
        BY <3>2
      <4> QED
        BY <4>2, <4>3
    <3>6. \A j \in 1..Len(u) : bytes[m + j - 1] = u[j]
      <4>1. \A j \in 1..w : m + j - 1 = o[i] + j
        BY <3>2
      <4>2. \A j \in 1..w : bytes[o[i] + j] = u[j]
        BY <1>6, <2>2
      <4> QED
        BY <3>2, <4>1, <4>2
    <3> HIDE DEF u, m, k
    <3>7. SubSeq(bytes, m, k) = u
      BY <2>2, <3>2, <3>5, <3>6, PartIs
    <3> QED
      BY <3>1, <3>7 DEF u, m, k
  <2>5. fields = [i \in 1..n |-> fields[i]]
    BY <1>5
  <2> QED
    BY <2>3, <2>4, <2>5
<1> QED
  BY <1>7, <1>8 DEF flat

\* Fields of up to four bytes.
LEMMA ShortFields ==
  ASSUME NEW B, NEW s \in Seq(Seq(B)), NEW n \in Nat, n = Len(s), n # 0,
         \A i \in 1..n : Len(s[i]) <= 4
  PROVE  FlattenSeq(s) \in Seq(B) /\ Len(FlattenSeq(s)) <= 4 * n
<1>1. PICK f \in [0..n -> Seq(B)] : Joins(f, s, n)
  BY FlattenRuns
<1>2. f[0] = <<>> /\ (\A k \in 1..n : f[k] = f[k - 1] \o s[k]) /\ FlattenSeq(s) = f[n]
  BY <1>1 DEF Joins
<1> DEFINE S == {k \in 0..n : Len(f[k]) <= 4 * k}
<1>3. 0 \in S
  BY <1>2
<1>4. ASSUME NEW k \in 1..n, k - 1 \in S PROVE k \in S
  <2> DEFINE u == f[k - 1]
             v == s[k]
             w == f[k]
  <2>1. k - 1 \in 0..n /\ k \in 0..n
    OBVIOUS
  <2>2. u \in Seq(B) /\ w = u \o v /\ Len(v) <= 4 /\ Len(u) <= 4 * (k - 1)
    BY <1>2, <1>4, <2>1
  <2>3. v \in Seq(B)
    OBVIOUS
  <2> HIDE DEF u, v, w
  <2>4. Len(w) = Len(u) + Len(v) /\ Len(u) \in Nat /\ Len(v) \in Nat
    BY <2>2, <2>3
  <2>5. Len(w) <= 4 * k
    BY <2>2, <2>4
  <2> QED
    BY <2>1, <2>5 DEF w
<1> HIDE DEF S
<1>5. \A k \in 0..n : k \in S
  BY <1>3, <1>4, CountUp
<1>6. n \in 0..n
  OBVIOUS
<1> QED
  BY <1>2, <1>5, <1>6 DEF S

LEMMA CommandShape ==
  ASSUME NEW k \in CommandKinds
  PROVE  /\ k.code \in 0..255 /\ Len(k.widths) \in 1..4
         /\ \A i \in 1..Len(k.widths) : k.widths[i] <= 4
         /\ k.sub # <<>> => /\ Len(k.widths) = 2
                            /\ \E c \in {80, 86, 90} : k.sub = <<c>>
<1> DEFINE Widths == {<<1>>, <<4>>, <<1, 1>>, <<4, 4>>, <<1, 4>>, <<4, 4, 4>>, <<1, 4, 4, 4>>}
<1>1. k.code \in 0..255
  <2> DEFINE Codes == {65, 66, 71, 74, 76, 80, 82, 83, 86, 87, 88, 90}
  <2>1. k.code \in Codes
    BY DEF CommandKinds, Kind
  <2> QED
    BY <2>1
<1>2. k.widths \in Widths
  BY DEF CommandKinds, Kind
<1>3. k.sub = <<>> \/ (k.widths = <<1, 4>> /\ k.sub \in {<<80>>, <<86>>, <<90>>})
  BY DEF CommandKinds, Kind
<1>4. ASSUME NEW w \in Widths
      PROVE  Len(w) \in 1..4 /\ \A i \in 1..Len(w) : w[i] <= 4
  OBVIOUS
<1> HIDE DEF Widths
<1>5. Len(<<1, 4>>) = 2
  OBVIOUS
<1>6. k.sub # <<>> => Len(k.widths) = 2 /\ \E c \in {80, 86, 90} : k.sub = <<c>>
  BY <1>3, <1>5
<1> QED
  BY <1>1, <1>2, <1>4, <1>6

LEMMA TwoAndOne ==
  ASSUME NEW Q, NEW a \in Q, NEW b \in Q, NEW x \in Q
  PROVE  <<a, x>> \o <<b>> = <<a, x, b>>
<1> DEFINE u == <<a, x>>
           v == <<b>>
           w == u \o v
           t == <<a, x, b>>
           two == 2
           one == 1
<1>1. /\ u \in Seq(Q) /\ two = Len(u) /\ u[1] = a /\ u[2] = x
      /\ v \in Seq(Q) /\ one = Len(v) /\ v[1] = b
      /\ t \in Seq(Q) /\ Len(t) = 3 /\ t[1] = a /\ t[2] = x /\ t[3] = b
  OBVIOUS
<1>2. two = 2 /\ one = 1
  OBVIOUS
<1>3. w = u \o v
  OBVIOUS
<1> HIDE DEF u, v, w, t, two, one
<1>4. w \in Seq(Q) /\ Len(w) = two + one
  BY <1>1, <1>3, ConcatAt
<1>5. \A i \in 1..two : w[i] = u[i]
  BY <1>1, <1>3, ConcatAt
<1>6. \A i \in 1..one : w[two + i] = v[i]
  BY <1>1, <1>3, ConcatAt
<1>7. Len(w) = 3 /\ w[1] = a /\ w[2] = x /\ w[3] = b
  BY <1>1, <1>2, <1>4, <1>5, <1>6
<1>8. \A i \in 1..3 : i = 1 \/ i = 2 \/ i = 3
  OBVIOUS
<1>9. \A i \in 1..Len(w) : w[i] = t[i]
  BY <1>1, <1>7, <1>8
<1>10. w = t
  BY <1>1, <1>4, <1>7, <1>9, SeqEqual
<1> QED
  BY <1>10 DEF w, u, v, t

\* The sub-command comes behind the wheel.
LEMMA SubInserted ==
  ASSUME NEW Q, NEW s \in Seq(Q), Len(s) = 2, NEW x \in Q
  PROVE  <<s[1], x>> \o Tail(s) = <<s[1], x, s[2]>>
<1> DEFINE a == s[1]
           b == s[2]
<1>1. a \in Q /\ b \in Q
  OBVIOUS
<1>2. s = <<a, b>>
  OBVIOUS
<1> HIDE DEF a, b
<1>3. Tail(s) = <<b>>
  BY <1>2
<1> QED
  BY <1>1, <1>3, TwoAndOne DEF a, b

\* Every command arrives as it was sent: its fields, framed, are popped as one frame
\* with its code and its fields one after the other, whatever their bytes (START
\* and END among them) and whatever follows on the line.
THEOREM CommandRoundTrip ==
  ASSUME RealBytes, NEW k \in CommandKinds, NEW fields \in Seq(Seq(Byte)),
         Len(fields) = Len(k.widths),
         \A i \in 1..Len(fields) : Len(fields[i]) = k.widths[i],
         NEW rest \in Seq(Byte)
  PROVE  LET f == Command(k, fields)
         IN  ReferenceFrames(Framed(f.code, FlattenSeq(f.fields)) \o rest)
               = <<Popped(f)>> \o ReferenceFrames(rest)
<1> DEFINE f == Command(k, fields)
           n == Len(f.fields)
<1>1. /\ k.code \in 0..255 /\ Len(k.widths) \in 1..4
      /\ \A i \in 1..Len(k.widths) : k.widths[i] <= 4
      /\ k.sub # <<>> => Len(k.widths) = 2 /\ \E c \in {80, 86, 90} : k.sub = <<c>>
  BY CommandShape
<1>2. \A i \in 1..Len(fields) : Len(fields[i]) <= 4
  BY <1>1
<1>3. f.fields \in Seq(Seq(Byte)) /\ n \in 1..4 /\ \A i \in 1..n : Len(f.fields[i]) <= 4
  <2>1. CASE k.sub = <<>>
    <3>1. f.fields = fields
      BY <2>1 DEF Command
    <3> QED
      BY <1>1, <1>2, <3>1
  <2>2. CASE k.sub # <<>>
    <3>1. PICK c \in {80, 86, 90} : k.sub = <<c>>
      BY <1>1, <2>2
    <3>2. Len(fields) = 2
      BY <1>1, <2>2
    <3>3. f.fields = <<fields[1], k.sub>> \o Tail(fields)
      BY <2>2 DEF Command
    <3>4. Byte = 0..255
      BY DEF RealBytes
    <3>5. k.sub \in Seq(Byte) /\ Len(k.sub) = 1
      BY <3>1, <3>4
    <3> DEFINE Q == Seq(Byte)
               x == k.sub
               a == fields[1]
               b == fields[2]
    <3>6. fields \in Seq(Q) /\ x \in Q
      BY <3>5
    <3> HIDE DEF Q, x
    <3>7. 1 \in 1..Len(fields) /\ 2 \in 1..Len(fields)
      BY <3>2
    <3>8. a \in Q /\ b \in Q
      BY <3>6, <3>7
    <3>9. Len(a) <= 4 /\ Len(b) <= 4
      BY <1>2, <3>7
    <3>10. f.fields = <<a, x, b>>
      <4>1. <<fields[1], x>> \o Tail(fields) = <<fields[1], x, fields[2]>>
        BY <3>2, <3>6, SubInserted
      <4> QED
        BY <3>3, <4>1 DEF x
    <3> HIDE DEF a, b, f
    <3>11. Len(x) <= 4
      BY <3>5 DEF x
    <3>12. f.fields \in Seq(Q) /\ n = 3
      BY <3>6, <3>8, <3>10
    <3>13. \A i \in 1..3 : Len(f.fields[i]) <= 4
      <4>1. \A i \in 1..3 : i = 1 \/ i = 2 \/ i = 3
        OBVIOUS
      <4>2. f.fields[1] = a /\ f.fields[2] = x /\ f.fields[3] = b
        BY <3>10
      <4> QED
        BY <3>9, <3>11, <4>1, <4>2
    <3> HIDE DEF n
    <3>14. n \in 1..4
      BY <3>12
    <3> QED
      BY <3>12, <3>13, <3>14 DEF Q
  <2> QED
    BY <2>1, <2>2
<1> DEFINE p == FlattenSeq(f.fields)
<1>4. p \in Seq(Byte) /\ Len(p) <= 24
  <2> HIDE DEF f
  <2>1. p \in Seq(Byte) /\ Len(p) <= 4 * n
    <3>1. n = Len(f.fields)
      OBVIOUS
    <3> HIDE DEF n
    <3>2. n \in Nat /\ n # 0
      BY <1>3
    <3> QED
      BY <1>3, <3>1, <3>2, ShortFields
  <2> HIDE DEF p
  <2>2. Len(p) \in Nat /\ n \in 1..4
    BY <1>3, <2>1
  <2> HIDE DEF n
  <2> QED
    BY <2>1, <2>2
<1>5. f.code \in Byte
  BY <1>1 DEF RealBytes, Command
<1>6. Popped(f) = [code |-> f.code, payload |-> p]
  BY DEF Popped
<1> HIDE DEF f, p
<1>7. ReferenceFrames(Framed(f.code, p) \o rest) = <<Popped(f)>> \o ReferenceFrames(rest)
  BY <1>4, <1>5, <1>6, PackedRoundTrip
<1> QED
  BY <1>7 DEF f, p
=============================================================================

---------------------------- MODULE UcPackDecoder ----------------------------
(***************************************************************************)
(* The streaming ucPack frame parser (src/src/alvik/ucpack.rs, Decoder) as *)
(* the Alvik driver uses it (src/src/alvik/driver.rs, run and bring_up): a *)
(* UART read delivers up to ReadMax bytes, all of them are pushed, then    *)
(* frames are popped until pop returns None, and the next read begins.     *)
(* A frame on the wire is START LEN CODE payload END CRC, where LEN counts *)
(* CODE and the payload.                                                   *)
(*                                                                         *)
(* The checksum is the parameter Crc: nothing proved here depends on which *)
(* one it is (crc8 in the code).                                           *)
(***************************************************************************)
EXTENDS Naturals, Sequences

CONSTANTS
  Byte,        \* the byte values of this instance
  START, END,  \* 0x41 and 0x23 in the code
  Crc(_),      \* checksum of a byte sequence
  PayloadMax,  \* PAYLOAD_MAX (24)
  Cap,         \* Decoder::CAP (256)
  ReadMax,     \* the driver's read buffer (128)
  MaxStream    \* bound on the bytes received in one behaviour

FrameMax == PayloadMax + 5

ASSUME DecoderAssumption ==
  /\ Byte \subseteq Nat /\ START \in Byte
  /\ PayloadMax \in Nat /\ Cap \in Nat /\ ReadMax \in Nat \ {0}
  /\ MaxStream \in Nat
  /\ FrameMax - 1 + ReadMax <= Cap    \* 28 + 128 <= 256 in the code

VARIABLES
  buf,      \* the decoder's buffer
  pushed,   \* bytes of the current read pushed so far
  pc,       \* "extend" while a read is pushed, "drain" while frames are popped
  frames,   \* the frames popped, in order
  stream,   \* history: every byte received
  base,     \* history: how many bytes of stream precede buf
  starts,   \* history: the stream positions of the popped frames
  dropped   \* history: bytes lost to a full buffer

vars == <<buf, pushed, pc, frames, stream, base, starts, dropped>>

Init ==
  /\ buf = <<>> /\ pushed = 0 /\ pc = "extend" /\ frames = <<>>
  /\ stream = <<>> /\ base = 0 /\ starts = {} /\ dropped = 0

\* Mutant of Push: more bytes than the read buffer holds.
PushPastRead(b) ==
  /\ pc = "extend" /\ Len(stream) < MaxStream
  /\ stream' = Append(stream, b) /\ pushed' = pushed + 1
  /\ buf' = Append(buf, b)
  /\ UNCHANGED <<pc, frames, base, starts, dropped>>

\* Decoder::push: a full buffer drops its oldest byte.
Push(b) ==
  /\ pc = "extend" /\ pushed < ReadMax /\ Len(stream) < MaxStream
  /\ stream' = Append(stream, b) /\ pushed' = pushed + 1
  /\ IF Len(buf) = Cap
     THEN buf' = Append(Tail(buf), b) /\ base' = base + 1 /\ dropped' = dropped + 1
     ELSE buf' = Append(buf, b) /\ UNCHANGED <<base, dropped>>
  /\ UNCHANGED <<pc, frames, starts>>

\* The read is pushed completely; read_async never returns zero bytes.
ReadPushed ==
  /\ pc = "extend" /\ pushed > 0
  /\ pc' = "drain"
  /\ UNCHANGED <<buf, pushed, frames, stream, base, starts, dropped>>

-----------------------------------------------------------------------------
(* One iteration of the loop in Decoder::pop, on a sequence of bytes b.     *)

BadLen(n) == n = 0 \/ n - 1 > PayloadMax
Total(n) == n + 4

\* buf[0] is no START, or LEN is implausible.
BadHead(b) ==
  /\ Len(b) > 0
  /\ b[1] # START \/ (Len(b) > 1 /\ BadLen(b[2]))

\* Mutant of Complete: waits for one byte more than the frame has.
CompleteOneMore(b) ==
  /\ Len(b) > 1 /\ b[1] = START /\ ~BadLen(b[2]) /\ Len(b) > Total(b[2])

\* A plausible head with all the bytes it announces.
Complete(b) ==
  /\ Len(b) > 1 /\ b[1] = START /\ ~BadLen(b[2]) /\ Len(b) >= Total(b[2])

Trailer(b) ==
  b[b[2] + 3] = END /\ b[b[2] + 4] = Crc(SubSeq(b, 3, 2 + b[2]))

ValidHead(b) == Complete(b) /\ Trailer(b)

FrameOf(b) == [code |-> b[3], payload |-> SubSeq(b, 4, 2 + b[2])]

\* Encoder::frame, which both ends put on the wire.
Framed(code, payload) ==
  <<START, 1 + Len(payload), code>> \o payload \o <<END, Crc(<<code>> \o payload)>>

DropFront(n) ==
  buf' = SubSeq(buf, n + 1, Len(buf)) /\ base' = base + n

\* Mutant of Resync: a misframe drops the whole announced frame.
ResyncDropsFrame ==
  /\ pc = "drain"
  /\ BadHead(buf) \/ (Complete(buf) /\ ~Trailer(buf))
  /\ IF BadHead(buf) THEN DropFront(1) ELSE DropFront(Total(buf[2]))
  /\ UNCHANGED <<pushed, pc, frames, stream, starts, dropped>>

\* Bad head or misframe: drop one byte and try again from the next one.
Resync ==
  /\ pc = "drain"
  /\ BadHead(buf) \/ (Complete(buf) /\ ~Trailer(buf))
  /\ DropFront(1)
  /\ UNCHANGED <<pushed, pc, frames, stream, starts, dropped>>

\* A valid frame is returned and its bytes are consumed; the driver's loop
\* calls pop again.
Emit ==
  /\ pc = "drain" /\ ValidHead(buf)
  /\ frames' = Append(frames, FrameOf(buf))
  /\ starts' = starts \cup {base + 1}
  /\ DropFront(Total(buf[2]))
  /\ UNCHANGED <<pushed, pc, stream, dropped>>

\* pop returns None: nothing buffered, or a plausible frame still arriving.
NeedMore ==
  /\ pc = "drain"
  /\ ~BadHead(buf) /\ ~Complete(buf)
  /\ pc' = "extend" /\ pushed' = 0
  /\ UNCHANGED <<buf, frames, stream, base, starts, dropped>>

Next ==
  \/ \E b \in Byte : Push(b)
  \/ ReadPushed
  \/ Resync
  \/ Emit
  \/ NeedMore

Spec == Init /\ [][Next]_vars

-----------------------------------------------------------------------------
(* Properties. *)

TypeOK ==
  /\ buf \in Seq(Byte)
  /\ pushed \in 0..ReadMax
  /\ pc \in {"extend", "drain"}
  /\ frames \in Seq([code : Byte, payload : Seq(Byte)])
  /\ stream \in Seq(Byte)
  /\ base \in Nat
  /\ starts \subseteq Nat
  /\ dropped \in Nat

\* The driver's usage never fills the decoder: what is left after a drain is
\* shorter than one frame, so a whole read always fits and push's "drop the
\* oldest byte" branch is dead code on this link.
NeverOverflows == dropped = 0

From(p) == SubSeq(stream, p, Len(stream))
Extent(p) == p .. p + Total(stream[p + 1]) - 1

\* Resynchronisation skips no frame: at any point of the stream, a valid frame
\* that begins before the unread part was delivered or overlaps one that was.
\* Noise in front of a frame, a truncated frame, or a START byte in the noise
\* that announces bytes belonging to the frame costs nothing.
NoFrameSkipped ==
  \A p \in 1..base :
    ValidHead(From(p)) => \E q \in starts : p \in Extent(q)

\* The reference: parse a whole byte sequence at once.  Chunk boundaries do not
\* exist here.  What is parsed from position p on, given what f is from every
\* later position on:
ParseStep(s, f, p) ==
  LET b == SubSeq(s, p, Len(s))
  IN  IF ~BadHead(b) /\ ~Complete(b) THEN <<>>
      ELSE IF ValidHead(b) THEN <<FrameOf(b)>> \o f[p + Total(b[2])]
      ELSE f[p + 1]

Parse(s) == LET f[p \in 1 .. Len(s) + 1] == ParseStep(s, f, p) IN f

ReferenceFrames(s) == Parse(s)[1]

\* However the UART cuts the stream into reads, the frames popped are those of
\* the whole stream.
ChunkingIndependent == pc = "extend" /\ pushed = 0 => frames = ReferenceFrames(stream)
=============================================================================

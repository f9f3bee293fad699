------------------------------ MODULE UcPackCodec ------------------------------
(***************************************************************************)
(* The bytes of the Alvik link: crc8 and the frame encoder                 *)
(* (src/src/alvik/ucpack.rs), the payload of every Command and the fields  *)
(* Status::decode reads (src/src/alvik/protocol.rs).                       *)
(*                                                                         *)
(* A field is the sequence of its bytes in wire order: one byte, the two   *)
(* of an i16 or the four of an f32.  What a field measures, and its unit,  *)
(* is left out.                                                            *)
(***************************************************************************)
EXTENDS Naturals, Sequences, SequencesExt

StartByte == 65
EndByte == 35
PayloadLimit == 24
Zeros(n) == [i \in 1..n |-> 0]

\* The exclusive or of two bytes: the weights of the bits in which they differ.
Differ(x, y, w) == IF (x \div w) % 2 = (y \div w) % 2 THEN 0 ELSE w
Xor(x, y) ==
  Differ(x, y, 1) + Differ(x, y, 2) + Differ(x, y, 4) + Differ(x, y, 8)
    + Differ(x, y, 16) + Differ(x, y, 32) + Differ(x, y, 64) + Differ(x, y, 128)

\* One round of crc8 on x, the XOR of the checksum and the rest of the data byte:
\* both are shifted right, and the polynomial is added when the bits shifted out
\* differ.  The eight rounds end when nothing of the byte is left.
CrcBit(x) == IF x % 2 = 1 THEN Xor(x \div 2, 140) ELSE x \div 2
CrcByte == [x \in 0..255 |-> CrcBit(CrcBit(CrcBit(CrcBit(
                               CrcBit(CrcBit(CrcBit(CrcBit(x))))))))]

crc8(data) ==
  LET crc[n \in 0 .. Len(data)] ==
        IF n = 0 THEN 0 ELSE CrcByte[Xor(crc[n - 1], data[n])]
  IN  crc[Len(data)]

\* The frames on the wire and their parser, with these bytes.
Dec == INSTANCE UcPackDecoder WITH
  Byte <- 0..255, START <- StartByte, END <- EndByte, Crc <- crc8,
  PayloadMax <- PayloadLimit, Cap <- 256, ReadMax <- 128, MaxStream <- 512,
  buf <- <<>>, pushed <- 0, pc <- "extend", frames <- <<>>, stream <- <<>>,
  base <- 0, starts <- {}, dropped <- 0

\* Mutant of Encode: the checksum covers the payload without the code.
EncodeCrcOfPayload(f) ==
  LET payload == FlattenSeq(f.fields)
  IN  <<StartByte, 1 + Len(payload), f.code>> \o payload \o <<EndByte, crc8(payload)>>

\* Encoder::frame on the bytes of the fields, one after the other.
Encode(f) == Dec!Framed(f.code, FlattenSeq(f.fields))

-----------------------------------------------------------------------------
(* Command::encode: the code and the widths of the fields; a byte that is   *)
(* the same in every command of the kind stands for itself.                 *)

Kind(code, sub, widths) == [code |-> code, sub |-> sub, widths |-> widths]
CommandKinds ==
  { Kind(66, <<>>, <<1>>),           \* SetBehavior
    Kind(82, <<>>, <<4>>),           \* Rotate
    Kind(71, <<>>, <<4>>),           \* Move
    Kind(74, <<>>, <<4, 4>>),        \* SetWheelSpeeds
    Kind(65, <<>>, <<4, 4>>),        \* SetWheelAngles: the code is START
    Kind(86, <<>>, <<4, 4>>),        \* Drive
    Kind(83, <<>>, <<1, 1>>),        \* SetServo
    Kind(76, <<>>, <<1>>),           \* SetLeds
    Kind(90, <<>>, <<4, 4, 4>>),     \* ResetPose
    Kind(87, <<90>>, <<1, 4>>),      \* WheelReset
    Kind(87, <<86>>, <<1, 4>>),      \* WheelSpeed
    Kind(87, <<80>>, <<1, 4>>),      \* WheelPosition
    Kind(80, <<>>, <<1, 4, 4, 4>>),  \* SetPidGains
    Kind(88, <<>>, <<1>>) }          \* Ack

\* A command of kind k with these fields; the sub-command of 'W' comes behind the
\* wheel's label.
Command(k, fields) ==
  [code |-> k.code,
   fields |-> IF k.sub = <<>> THEN fields ELSE <<fields[1], k.sub>> \o Tail(fields)]

\* Its fields repeat byte b.
CommandFrame(k, b) ==
  LET field(w) == [i \in 1..w |-> b]
  IN  Command(k, [i \in DOMAIN k.widths |-> field(k.widths[i])])

-----------------------------------------------------------------------------
(* Status::decode: where the fields of every status are read.               *)

At(offsets, width) == [i \in DOMAIN offsets |-> <<offsets[i], width>>]

StatusCodes == {98, 99, 100, 102, 105, 106, 108, 109, 112, 113, 116, 118, 119, 120, 122, 126}
Layout ==
  [c \in StatusCodes |->
     CASE c \in {106, 119, 118} -> At(<<0, 4>>, 4)             \* speeds, positions, velocity
       [] c \in {108, 99, 100} -> At(<<0, 2, 4>>, 2)           \* line, color, ToF
       [] c = 105 -> At(<<0, 4, 8, 12, 16, 20>>, 4)            \* IMU
       [] c \in {113, 122} -> At(<<0, 4, 8>>, 4)               \* orientation, pose
       [] c = 112 -> At(<<0>>, 4)                              \* battery
       [] c = 102 -> At(<<0, 2, 4, 6, 8, 10, 12>>, 2)          \* ToF matrix
       [] c \in {116, 109, 98, 120} -> At(<<0>>, 1)            \* touch, motion, behavior, ack
       [] c = 126 -> At(<<0, 1, 2>>, 1)]                       \* firmware version

\* Frame's accessors on the payload copied into the zeroed array; a code that no
\* status has is ignored.
NoStatus == <<>>
Decode(frame) ==
  LET bytes == frame.payload \o Zeros(PayloadLimit - Len(frame.payload))
      field(f) == SubSeq(bytes, f[1] + 1, f[1] + f[2])
  IN  IF frame.code \notin StatusCodes THEN NoStatus
      ELSE [i \in DOMAIN Layout[frame.code] |-> field(Layout[frame.code][i])]

-----------------------------------------------------------------------------
(* Properties. *)

\* What the decoder makes of an encoded frame.
Popped(f) == [code |-> f.code, payload |-> FlattenSeq(f.fields)]

FlipBit(s, i, bit) == [s EXCEPT ![i] = Xor(@, 2^bit)]

\* Payloads of START bytes, of END bytes, of bytes that are plausible lengths.
Nasty == {StartByte, EndByte, 9}
SampleCommands == {CommandFrame(k, b) : k \in CommandKinds, b \in Nasty}
\* What follows on the line: a short and a long frame, and enough behind them
\* to end the wait for bytes a damaged length announced.
Followers == {CommandFrame(Kind(65, <<>>, <<4, 4>>), StartByte),
              CommandFrame(Kind(88, <<>>, <<1>>), EndByte)}
Quiet == Zeros(PayloadLimit + 5)

\* One flipped bit of a frame costs that frame and no other, whatever the bit is:
\* a damaged frame is never taken for one that was sent, and the next frame is
\* found although a damaged length or a payload full of START bytes covers it.
FlipCostsOneFrame ==
  \A f \in SampleCommands, g \in Followers :
    LET sent == Encode(f)
        line(s) == s \o Encode(g) \o Quiet
    IN  /\ Dec!ReferenceFrames(line(sent)) = <<Popped(f), Popped(g)>>
        /\ \A i \in DOMAIN sent, bit \in 0..7 :
             Dec!ReferenceFrames(line(FlipBit(sent, i, bit))) = <<Popped(g)>>

\* A status packed field after field, as ucPack's packers do it, is decoded to
\* the very fields, the last byte of the largest payload included.
StatusDecoded ==
  \A c \in StatusCodes :
    LET width(i) == Layout[c][i][2]
        fields == [i \in DOMAIN Layout[c] |-> [j \in 1..width(i) |-> 10 * i + j]]
        f == [code |-> c, fields |-> fields]
        popped == Dec!ReferenceFrames(Encode(f))
    IN  Len(popped) = 1 /\ Decode(popped[1]) = fields
=============================================================================

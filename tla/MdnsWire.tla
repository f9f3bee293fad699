-------------------------------- MODULE MdnsWire --------------------------------
(***************************************************************************)
(* The DNS messages of the .local name service (src/src/net/mdns.rs):      *)
(* the queries and answers this device builds, and the two scanners a      *)
(* received packet goes through, is_query_for and parse_answer.            *)
(*                                                                         *)
(* A packet is a sequence of bytes, a label the sequence of its bytes, and *)
(* a position is that of the next byte to read; EndOf(pkt) is where        *)
(* nothing is left, and every read there fails.  A scanner's loop is a     *)
(* recursive function of the position it is at, its body an operator.      *)
(***************************************************************************)
EXTENDS Naturals, Sequences

Byte == 0..255
Short == {n \in Nat : n <= 65535}
Local == <<108, 111, 99, 97, 108>>
Root == <<0>>
TypeA == 1
ClassIn == 1
TopBit == 32768
Response == 33792  \* the flags of an authoritative response
NoAddr == <<>>    \* Option::None of an address or a packet
NoPos == 0        \* where a scan that met the end of the packet stands

U16(n) == <<n \div 256, n % 256>>

-----------------------------------------------------------------------------
(* Writer, build_query, build_answer.                                       *)

LabelFits(label) == Len(label) \in 1..63
NameBytes(label) == <<Len(label)>> \o label \o <<5>> \o Local \o Root

\* The flags, the two counts the scanners read, and the empty sections.
Header(flags, qd, an) == U16(0) \o U16(flags) \o U16(qd) \o U16(an) \o <<0, 0, 0, 0>>

build_query(label) ==
  IF LabelFits(label)
  THEN Header(0, 1, 0) \o NameBytes(label) \o U16(TypeA) \o U16(ClassIn)
  ELSE NoAddr

\* An authoritative answer with the cache-flush bit and a TTL of two minutes.
build_answer(label, ip) ==
  IF LabelFits(label)
  THEN Header(Response, 0, 1) \o NameBytes(label) \o U16(TypeA) \o U16(TopBit + ClassIn)
         \o <<0, 0, 0, 120>> \o U16(4) \o ip
  ELSE NoAddr

-----------------------------------------------------------------------------
(* Reader.                                                                  *)

EndOf(pkt) == Len(pkt) + 1
Pos(pkt) == 1 .. EndOf(pkt)
Has(pkt, p, n) == p + n <= EndOf(pkt)
Word(pkt, p) == 256 * pkt[p] + pkt[p + 1]
Flags(pkt) == Word(pkt, 3)
QdCount(pkt) == Word(pkt, 5)
AnCount(pkt) == Word(pkt, 7)

\* One round of Reader::skip_name at p: a pointer or the root ends the name, a
\* label is stepped over, a reserved length is refused.
SkipStep(pkt, skipped, p) ==
  CASE ~Has(pkt, p, 1) -> NoPos
    [] Has(pkt, p, 1) /\ pkt[p] >= 192 ->
         IF Has(pkt, p, 2) THEN p + 2 ELSE NoPos
    [] Has(pkt, p, 1) /\ pkt[p] \in 64..191 -> NoPos
    [] Has(pkt, p, 1) /\ pkt[p] = 0 -> p + 1
    [] Has(pkt, p, 1) /\ pkt[p] \in 1..63 ->
         IF Has(pkt, p + 1, pkt[p]) THEN skipped[p + 1 + pkt[p]] ELSE NoPos

\* Reader::skip_name: the position behind the name at p, or NoPos.
skip_name(pkt, p) ==
  LET skipped[q \in Pos(pkt)] == SkipStep(pkt, skipped, q) IN skipped[p]

Lower(s) == [i \in DOMAIN s |-> IF s[i] \in 65..90 THEN s[i] + 32 ELSE s[i]]

\* The number of labels that matched when the n bytes at p come next; 3 poisons
\* the comparison.
Matched(pkt, p, n, label, idx) ==
  IF idx < 2 /\ Lower(SubSeq(pkt, p, p + n - 1)) = <<Lower(label), Local>>[idx + 1]
  THEN idx + 1 ELSE 3

\* Mutant of ScanStep: the second byte of a pointer is not consumed.
ScanStepHalfPointer(pkt, label, scan, p, idx) ==
  LET miss == [ok |-> FALSE, next |-> EndOf(pkt)]
  IN  CASE ~Has(pkt, p, 1) -> miss
        [] Has(pkt, p, 1) /\ pkt[p] >= 192 -> [ok |-> FALSE, next |-> p + 1]
        [] Has(pkt, p, 1) /\ pkt[p] = 0 -> [ok |-> idx = 2, next |-> p + 1]
        [] Has(pkt, p, 1) /\ pkt[p] \in 1..191 ->
             IF Has(pkt, p + 1, pkt[p])
             THEN scan[<<p + 1 + pkt[p], Matched(pkt, p + 1, pkt[p], label, idx)>>]
             ELSE miss

\* One round of Reader::name_matches at p.  A pointer ends the name and matches
\* nothing, and a reserved length is taken for a label's.
ScanStep(pkt, label, scan, p, idx) ==
  LET miss == [ok |-> FALSE, next |-> EndOf(pkt)]
  IN  CASE ~Has(pkt, p, 1) -> miss
        [] Has(pkt, p, 1) /\ pkt[p] >= 192 ->
             IF Has(pkt, p, 2) THEN [ok |-> FALSE, next |-> p + 2] ELSE miss
        [] Has(pkt, p, 1) /\ pkt[p] = 0 -> [ok |-> idx = 2, next |-> p + 1]
        [] Has(pkt, p, 1) /\ pkt[p] \in 1..191 ->
             IF Has(pkt, p + 1, pkt[p])
             THEN scan[<<p + 1 + pkt[p], Matched(pkt, p + 1, pkt[p], label, idx)>>]
             ELSE miss

\* Reader::name_matches: whether the name at p is label.local, and the position
\* behind it.
name_matches(pkt, p, label) ==
  LET scan[c \in Pos(pkt) \X (0..3)] == ScanStep(pkt, label, scan, c[1], c[2])
  IN  scan[<<p, 0>>]

\* Where a loop over the questions stands behind the name that ends at q.
BehindQuestion(pkt, q) == IF q # NoPos /\ Has(pkt, q, 4) THEN q + 4 ELSE NoPos

\* The loop of is_query_for: where it stands after k questions, NoPos once one was
\* cut short.
NextQuestion(pkt, host, p) ==
  IF p = NoPos THEN NoPos ELSE BehindQuestion(pkt, name_matches(pkt, p, host).next)
Questions(pkt, host) ==
  LET at[k \in 0 .. QdCount(pkt)] == IF k = 0 THEN 13 ELSE NextQuestion(pkt, host, at[k - 1])
  IN  at

\* The question at p is for the host's address, whatever the top bit of its class.
ForHost(pkt, p, host) ==
  LET name == name_matches(pkt, p, host)
  IN  /\ name.ok
      /\ Word(pkt, name.next) = TypeA /\ Word(pkt, name.next + 2) % TopBit = ClassIn

is_query_for(pkt, host) ==
  /\ Len(pkt) >= 12 /\ Flags(pkt) < TopBit
  /\ LET at == Questions(pkt, host)
     IN  \E k \in 1 .. QdCount(pkt) : at[k] # NoPos /\ ForHost(pkt, at[k - 1], host)

\* The first loop of parse_answer skips the questions.
SkipQuestion(pkt, p) ==
  IF p = NoPos THEN NoPos ELSE BehindQuestion(pkt, skip_name(pkt, p))
Skipped(pkt) ==
  LET at[k \in 0 .. QdCount(pkt)] == IF k = 0 THEN 13 ELSE SkipQuestion(pkt, at[k - 1])
  IN  at

\* The data of a record whose name ends at q follow type, class, TTL and length.
DataAt(pkt, q) == q + 10
DataLen(pkt, q) == Word(pkt, q + 8)
BehindRecord(pkt, q) ==
  IF Has(pkt, q, 10) /\ Has(pkt, DataAt(pkt, q), DataLen(pkt, q))
  THEN DataAt(pkt, q) + DataLen(pkt, q) ELSE NoPos

\* The second loop: where it stands after k records, from first on.
NextRecord(pkt, label, p) ==
  IF p = NoPos THEN NoPos ELSE BehindRecord(pkt, name_matches(pkt, p, label).next)
Records(pkt, first, label) ==
  LET at[k \in 0 .. AnCount(pkt)] == IF k = 0 THEN first ELSE NextRecord(pkt, label, at[k - 1])
  IN  at

\* The record at p holds the address of label.local; its class is not looked at.
HoldsAddress(pkt, p, label) ==
  LET name == name_matches(pkt, p, label)
  IN  name.ok /\ Word(pkt, name.next) = TypeA /\ DataLen(pkt, name.next) = 4

\* The first address among the records that are there in full.
parse_answer(pkt, label) ==
  LET at == Records(pkt, Skipped(pkt)[QdCount(pkt)], label)
      hits == {k \in 1 .. AnCount(pkt) :
                 at[k] # NoPos /\ HoldsAddress(pkt, at[k - 1], label)}
      k == CHOOSE k \in hits : \A j \in hits : k <= j
  IN  IF Len(pkt) < 12 \/ Flags(pkt) < TopBit \/ hits = {} THEN NoAddr
      ELSE SubSeq(pkt, at[k] - 4, at[k] - 1)

-----------------------------------------------------------------------------
(* The messages of other hosts, as RFC 1035 writes them: a name is a run of *)
(* labels that ends in the root or in a compression pointer.                *)

Label == {l \in Seq(Byte) : Len(l) \in 1..63}
NameOf == [labels : Seq(Label), end : {Root} \cup ((192..255) \X Byte)]
Question == [name : NameOf, type : Short, class : Short]
Record ==
  [name : NameOf, type : Short, class : Short, ttl : Byte \X Byte \X Byte \X Byte,
   data : {d \in Seq(Byte) : Len(d) \in Short}]
Message ==
  {m \in [response : BOOLEAN, questions : Seq(Question), answers : Seq(Record)] :
     Len(m.questions) \in Short /\ Len(m.answers) \in Short}

\* The members of ss, one after the other.
Joined(ss) ==
  LET upto[i \in 0 .. Len(ss)] == IF i = 0 THEN <<>> ELSE upto[i - 1] \o ss[i]
  IN  upto[Len(ss)]

LabelBytes(l) == <<Len(l)>> \o l
WireName(name) == Joined([i \in DOMAIN name.labels |-> LabelBytes(name.labels[i])]) \o name.end
WireQuestion(q) == WireName(q.name) \o U16(q.type) \o U16(q.class)
WireRecord(a) ==
  WireName(a.name) \o U16(a.type) \o U16(a.class) \o a.ttl \o U16(Len(a.data)) \o a.data
Wire(m) ==
  Header(IF m.response THEN Response ELSE 0, Len(m.questions), Len(m.answers))
    \o Joined([i \in DOMAIN m.questions |-> WireQuestion(m.questions[i])])
    \o Joined([i \in DOMAIN m.answers |-> WireRecord(m.answers[i])])

\* What the message says of label.local; a pointer is never followed.
Names(name, label) ==
  /\ name.end = Root
  /\ [i \in DOMAIN name.labels |-> Lower(name.labels[i])] = <<Lower(label), Local>>
Asks(m, label) ==
  /\ ~m.response
  /\ \E i \in DOMAIN m.questions :
       LET q == m.questions[i]
       IN  Names(q.name, label) /\ q.type = TypeA /\ q.class % TopBit = ClassIn
Matching(m, label) ==
  {i \in DOMAIN m.answers :
     LET a == m.answers[i]
     IN  Names(a.name, label) /\ a.type = TypeA /\ Len(a.data) = 4}
Answer(m, label) ==
  IF ~m.response \/ Matching(m, label) = {} THEN NoAddr
  ELSE LET i == CHOOSE i \in Matching(m, label) : \A j \in Matching(m, label) : i <= j
       IN  m.answers[i].data

-----------------------------------------------------------------------------
(* Samples: the host "h" in both cases, a longer and a shorter name, a name *)
(* with a third label, names that are or end in a pointer.                  *)

Host == <<104>>
Peer == <<104, 104>>
Ip == <<10, 0, 1, 192>>

SampleNames ==
  [labels : {<<Host, Local>>, <<<<72>>, <<76, 79, 67, 65, 76>>>>, <<Host>>,
             <<Peer, Local>>, <<Host, Local, Peer>>, <<Local, Host>>}, end : {Root}]
  \cup [labels : {<<>>, <<Host>>, <<Host, Local>>}, end : {<<192, 12>>}]
SampleQuestions ==
  [name : SampleNames, type : {TypeA, 28}, class : {ClassIn, TopBit + ClassIn, 3}]
SampleRecords ==
  {a \in [name : SampleNames, type : {TypeA, 28}, class : {TopBit + ClassIn},
          ttl : {<<0, 0, 0, 9>>}, data : {Ip, <<10, 0, 0, 7>>, <<1, 4, 72, 0, 1>>}] :
     a.type = 28 => a.data # <<10, 0, 0, 7>>}
UpTo2(S) == {<<x>> : x \in S} \cup (S \X S)
EchoedQuestions ==
  {<<>>} \cup {<<q>> : q \in [name : SampleNames, type : {TypeA}, class : {ClassIn}]}

Messages ==
  [response : {FALSE}, questions : {<<>>} \cup UpTo2(SampleQuestions), answers : {<<>>}]
  \cup [response : {FALSE}, questions : EchoedQuestions, answers : {<<a>> : a \in SampleRecords}]
  \cup [response : {TRUE}, questions : {<<>>}, answers : UpTo2(SampleRecords)]
ShortMessages ==
  [response : BOOLEAN, questions : EchoedQuestions,
   answers : {<<>>} \cup {<<a>> : a \in SampleRecords}]

-----------------------------------------------------------------------------
(* Properties. *)

\* Both scanners find in a packet what it says of the host, whatever records,
\* names and questions stand around it: a record of another name, a name that is
\* compressed and a record with data of another length are stepped over exactly.
ScannersAgree ==
  \A m \in Messages \cup ShortMessages :
    LET pkt == Wire(m)
    IN  is_query_for(pkt, Host) = Asks(m, Host) /\ parse_answer(pkt, Host) = Answer(m, Host)

\* A packet cut short anywhere is never read past its end (an index outside the
\* packet would stop the run), and says nothing that the whole did not say.
CutsAreHarmless ==
  \A m \in ShortMessages :
    LET pkt == Wire(m)
    IN  \A n \in 0 .. Len(pkt) - 1 :
          LET cut == SubSeq(pkt, 1, n)
          IN  /\ is_query_for(cut, Host) => Asks(m, Host)
              /\ parse_answer(cut, Host) \in {NoAddr, Answer(m, Host)}

\* Two devices that run this code find each other, and neither takes an answer
\* for a question or a question for an answer.
PeersUnderstand ==
  \A l \in {Host, Peer} :
    /\ is_query_for(build_query(l), Host) <=> l = Host
    /\ parse_answer(build_answer(l, Ip), Host) = (IF l = Host THEN Ip ELSE NoAddr)
    /\ ~is_query_for(build_answer(l, Ip), l)
    /\ parse_answer(build_query(l), l) = NoAddr
=============================================================================

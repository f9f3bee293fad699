--------------------------- MODULE AlvikLinkProofs ---------------------------
(***************************************************************************)
(* The two halves of the Alvik link, which share no state.                 *)
(*                                                                         *)
(* Commands: TypeOK and InSync for every set of slots, every queue         *)
(* capacity and every bring-up sequence.  InSync is not inductive: a       *)
(* diffed slot may be written away from the value its flush system         *)
(* remembers and back again without a flush, so the link must be shown to  *)
(* settle at the remembered value all along.                               *)
(*                                                                         *)
(* Status: no reading is lost, the masks follow the robot and the lift     *)
(* events alternate, for every set of messages, bits and readings.  The    *)
(* alternation is not inductive alone: it needs that the edge detector's   *)
(* memory has the lift bit exactly when the masks have it, although the    *)
(* two start out different.                                                *)
(***************************************************************************)
EXTENDS AlvikCommandLink, AlvikStatusLink, FiniteSetTheorems,
        WellFoundedInduction, TLAPS

-----------------------------------------------------------------------------
(* The command half. *)

\* The value of slot s most recently handed to ALVIK_OUT, as the flush systems
\* know it; None when the slot is waiting to be flushed.
Sent(s) ==
  IF s \in Motion
  THEN IF s \in changed THEN None ELSE comp[s]
  ELSE last[s]

LinkInv ==
  /\ TypeOK
  /\ writing # None => drv = "pump"
  /\ \A s \in Slots :
       Sent(s) # None /\ s \notin lost => WillSettleAt(s, Sent(s))

-----------------------------------------------------------------------------

LEMMA TypeInit == Init => TypeOK
<1> SUFFICES ASSUME Init PROVE TypeOK
  OBVIOUS
<1> USE LinkAssumption DEF LinkAssumption, Init
<1>1. queue \in Seq(Command) /\ Len(queue) <= Depth
  OBVIOUS
<1>2. last \in [Diffed -> Values \cup {None}] /\ changed \subseteq Motion
  OBVIOUS
<1>3. robot \in [Slots -> Values \cup {None}] /\ comp \in [Slots -> Values]
  OBVIOUS
<1>4. initTodo \in Seq(Command) /\ writing \in Command \cup {None}
  OBVIOUS
<1> QED
  BY <1>1, <1>2, <1>3, <1>4 DEF TypeOK

LEMMA TypeNext == TypeOK /\ [Next]_vars => TypeOK'
<1> SUFFICES ASSUME TypeOK, [Next]_vars PROVE TypeOK'
  OBVIOUS
<1> USE LinkAssumption DEF LinkAssumption, TypeOK, ecsVars, drvVars
<1>1. CASE BeginFrame
  BY <1>1 DEF BeginFrame
<1>2. CASE TriggerResetOnError
  BY <1>2 DEF TriggerResetOnError, ResetScene, Motion
<1>3. CASE BeginPostUpdate
  BY <1>3 DEF BeginPostUpdate
<1>4. ASSUME NEW s \in Slots, Flush(s) PROVE TypeOK'
  <2>1. [slot |-> s, val |-> comp[s]] \in Command
    BY DEF Command
  <2>2. last' \in [Diffed -> Values \cup {None}]
    BY <1>4 DEF Flush, Diffed
  <2>3. queue' \in Seq(Command) /\ Len(queue') <= Depth /\ lost' \subseteq Slots
    <3> DEFINE c == [slot |-> s, val |-> comp[s]]
    <3>1. c.slot = s
      OBVIOUS
    <3>2. /\ Append(queue, c) \in Seq(Command)
          /\ Len(Append(queue, c)) = Len(queue) + 1 /\ Len(queue) \in Nat
      BY <2>1
    <3>3. CASE Dirty(s)
      <4>1. Send(c)
        BY <1>4, <3>3 DEF Flush
      <4> HIDE DEF c
      <4>2. CASE Len(queue) < Depth
        <5>1. queue' = Append(queue, c) /\ lost' = lost \ {c.slot}
          BY <4>1, <4>2 DEF Send
        <5>2. Len(queue') <= Depth
          BY <5>1, <3>2, <4>2
        <5> QED
          BY <5>1, <5>2, <3>2
      <4>3. CASE ~(Len(queue) < Depth)
        BY <3>1, <4>1, <4>3 DEF Send
      <4> QED
        BY <4>2, <4>3
    <3>4. CASE ~Dirty(s)
      BY <1>4, <3>4 DEF Flush
    <3> QED
      BY <3>3, <3>4
  <2> QED
    BY <1>4, <2>2, <2>3 DEF Flush
<1>5. CASE EndFrame
  BY <1>5 DEF EndFrame
<1>6. ASSUME NEW s \in Slots, NEW v \in Values, AppWrite(s, v) PROVE TypeOK'
  BY <1>6 DEF AppWrite
<1>7. CASE AppReset
  BY <1>7 DEF AppReset, ResetScene
<1>8. CASE RaiseError
  BY <1>8 DEF RaiseError
<1>9. CASE PowerOn
  BY <1>9 DEF PowerOn
<1>10. CASE HandshakeDone
  BY <1>10 DEF HandshakeDone
<1>11. CASE WriteInit
  <2>1. Head(initTodo) \in Command /\ Tail(initTodo) \in Seq(Command)
    BY <1>11 DEF WriteInit
  <2>2. robot' \in [Slots -> Values \cup {None}]
    BY <1>11, <2>1 DEF WriteInit, Command
  <2> QED
    BY <1>11, <2>1, <2>2 DEF WriteInit
<1>12. CASE BringUpDone
  BY <1>12 DEF BringUpDone
<1>13. CASE Dequeue
  <2>1. /\ Head(queue) \in Command
        /\ Tail(queue) \in Seq(Command) /\ Len(Tail(queue)) <= Depth
    BY <1>13 DEF Dequeue
  <2> QED
    BY <1>13, <2>1 DEF Dequeue
<1>14. CASE Written
  <2>1. writing \in Command
    BY <1>14 DEF Written
  <2>2. robot' \in [Slots -> Values \cup {None}]
    BY <1>14, <2>1 DEF Written, Command
  <2> QED
    BY <1>14, <2>2 DEF Written
<1>16. CASE WriteFails
  <2>1. writing \in Command
    BY <1>16 DEF WriteFails
  <2>2. lost' \subseteq Slots
    BY <1>16, <2>1 DEF WriteFails, Command
  <2> QED
    BY <1>16, <2>2 DEF WriteFails
<1>15. CASE UNCHANGED vars
  BY <1>15 DEF vars
<1> QED
  BY <1>1, <1>2, <1>3, <1>4, <1>5, <1>6, <1>7, <1>8, <1>9, <1>10, <1>11,
     <1>12, <1>13, <1>14, <1>15, <1>16 DEF Next, FrameStep, App, Driver

\* Type correctness and the capacity bound of ALVIK_OUT hold in every behaviour.
THEOREM LinkTypeCorrect == Spec => []TypeOK
  BY TypeInit, TypeNext, PTL DEF Spec

-----------------------------------------------------------------------------

\* A step that leaves queue and driver alone leaves every slot settling where
\* it was.
LEMMA SettleUnchanged ==
  ASSUME NEW s \in Slots, NEW v, WillSettleAt(s, v),
         UNCHANGED <<queue, drv, writing, robot>>
  PROVE  WillSettleAt(s, v)'
  BY DEF WillSettleAt, LastQueued, NoneQueued

\* A bring-up step cannot disturb a slot that is known to settle: before the
\* pump starts nothing has left the queue, so the slot's command is still in it.
LEMMA SettleBringUp ==
  ASSUME NEW s \in Slots, NEW v, WillSettleAt(s, v),
         drv # "pump", writing = None, UNCHANGED <<queue, writing>>
  PROVE  WillSettleAt(s, v)'
  BY DEF WillSettleAt, LastQueued, NoneQueued

\* Queueing a command settles its own slot at the new value.
LEMMA SettleAppendOwn ==
  ASSUME TypeOK, NEW s \in Slots, NEW c \in Command, c.slot = s,
         queue' = Append(queue, c)
  PROVE  WillSettleAt(s, c.val)'
<1> DEFINE n == Len(queue)
<1>1. /\ n \in Nat /\ Len(queue') = n + 1 /\ queue'[n + 1] = c
      /\ \A i \in 1..n : queue'[i] = queue[i]
  BY DEF TypeOK
<1>2. ASSUME NEW i \in 1..(n + 1), LastQueued(s, i)' PROVE queue'[i].val = c.val
  <2>1. i = n + 1
    BY <1>1, <1>2 DEF LastQueued
  <2> QED
    BY <1>1, <2>1
<1>3. ~NoneQueued(s)'
  <2>1. n + 1 \in 1..(n + 1)
    BY <1>1
  <2> QED
    BY <1>1, <2>1 DEF NoneQueued
<1> QED
  BY <1>1, <1>2, <1>3 DEF WillSettleAt

\* Queueing a command leaves every other slot settling where it was.
LEMMA SettleAppendOther ==
  ASSUME TypeOK, NEW s \in Slots, NEW v, WillSettleAt(s, v),
         NEW c \in Command, c.slot # s,
         queue' = Append(queue, c), UNCHANGED <<drv, writing, robot>>
  PROVE  WillSettleAt(s, v)'
<1> DEFINE n == Len(queue)
<1>1. /\ n \in Nat /\ Len(queue') = n + 1 /\ queue'[n + 1] = c
      /\ \A i \in 1..n : queue'[i] = queue[i]
  BY DEF TypeOK
<1>2. ASSUME NEW i \in 1..(n + 1), LastQueued(s, i)' PROVE queue'[i].val = v
  <2>1. i \in 1..n /\ LastQueued(s, i)
    BY <1>1, <1>2 DEF LastQueued
  <2> QED
    BY <1>1, <2>1 DEF WillSettleAt
<1>3. NoneQueued(s)' => NoneQueued(s)
  BY <1>1 DEF NoneQueued
<1> QED
  BY <1>1, <1>2, <1>3 DEF WillSettleAt

\* Taking the oldest command out of the queue and starting its write changes
\* nothing about where a slot settles.
LEMMA SettleDequeue ==
  ASSUME TypeOK, NEW s \in Slots, NEW v, WillSettleAt(s, v), Dequeue
  PROVE  WillSettleAt(s, v)'
<1> DEFINE n == Len(queue)
<1>1. /\ n \in Nat /\ n > 0 /\ Len(queue') = n - 1
      /\ \A i \in 1..(n - 1) : queue'[i] = queue[i + 1]
      /\ writing' = queue[1] /\ queue[1] \in Command
      /\ writing = None /\ drv' = "pump" /\ UNCHANGED <<drv, robot>>
  BY DEF TypeOK, Dequeue
<1>2. ASSUME NEW i \in 1..(n - 1), LastQueued(s, i)' PROVE queue'[i].val = v
  <2>1. i + 1 \in 1..n /\ queue[i + 1].slot = s
    BY <1>1, <1>2 DEF LastQueued
  <2>2. ASSUME NEW j \in (i + 1) + 1 .. n PROVE queue[j].slot # s
    <3>1. j - 1 \in i + 1 .. Len(queue') /\ j - 1 \in 1..(n - 1)
      BY <1>1
    <3>2. queue'[j - 1] = queue[j]
      BY <1>1, <3>1
    <3> QED
      BY <1>2, <3>1, <3>2 DEF LastQueued
  <2>3. LastQueued(s, i + 1)
    BY <2>1, <2>2 DEF LastQueued
  <2> QED
    BY <1>1, <2>1, <2>3 DEF WillSettleAt
<1>3. ASSUME NoneQueued(s)'
      PROVE  IF writing'.slot = s THEN writing'.val = v ELSE robot'[s] = v
  <2>1. ASSUME NEW j \in 2..n PROVE queue[j].slot # s
    <3>1. j - 1 \in 1..Len(queue') /\ queue'[j - 1] = queue[j]
      BY <1>1
    <3> QED
      BY <1>3, <3>1 DEF NoneQueued
  <2>2. CASE queue[1].slot = s
    <3>1. 1 \in 1..n /\ LastQueued(s, 1)
      BY <1>1, <2>1, <2>2 DEF LastQueued
    <3> QED
      BY <1>1, <2>2, <3>1 DEF WillSettleAt
  <2>3. CASE queue[1].slot # s
    <3>1. NoneQueued(s)
      BY <1>1, <2>1, <2>3 DEF NoneQueued
    <3> QED
      BY <1>1, <2>3, <3>1 DEF WillSettleAt
  <2> QED
    BY <2>2, <2>3
<1>4. writing' # None
  BY <1>1, LinkAssumption DEF LinkAssumption
<1> QED
  BY <1>1, <1>2, <1>3, <1>4 DEF WillSettleAt

\* A command leaves the writing stage with nothing queued behind it: done, it
\* has reached the robot; failed, its slot is counted as lost.
LEMMA SettleWriteEnds ==
  ASSUME TypeOK, drv = "pump", NEW s \in Slots, NEW v, WillSettleAt(s, v),
         Written \/ WriteFails, s \notin lost'
  PROVE  WillSettleAt(s, v)'
<1>1. writing \in Command /\ writing' = None /\ UNCHANGED <<queue, drv>>
  BY DEF Written, WriteFails, TypeOK, drvVars
<1>2. CASE \E i \in 1..Len(queue) : queue[i].slot = s
  BY <1>1, <1>2 DEF WillSettleAt, LastQueued, NoneQueued
<1>3. CASE NoneQueued(s)
  <2>1. CASE writing.slot = s
    <3>1. robot' = [robot EXCEPT ![s] = writing.val]
      BY <1>1, <1>3, <2>1 DEF Written, WriteFails, NoneQueued
    <3>2. robot'[s] = writing.val
      BY <3>1 DEF TypeOK
    <3>3. writing.val = v
      BY <1>1, <1>3, <2>1, LinkAssumption DEF WillSettleAt, LinkAssumption
    <3> QED
      BY <1>1, <1>3, <3>2, <3>3 DEF WillSettleAt, LastQueued, NoneQueued
  <2>2. CASE writing.slot # s
    <3>1. robot'[s] = robot[s]
      BY <1>1, <2>2 DEF Written, WriteFails, TypeOK
    <3> QED
      BY <1>1, <1>3, <2>2, <3>1 DEF WillSettleAt, LastQueued, NoneQueued
  <2> QED
    BY <2>1, <2>2
<1> QED
  BY <1>2, <1>3 DEF NoneQueued

-----------------------------------------------------------------------------

LEMMA LinkInvInit == Init => LinkInv
<1> SUFFICES ASSUME Init PROVE LinkInv
  OBVIOUS
<1>1. TypeOK
  BY TypeInit
<1>2. \A s \in Slots : Sent(s) = None
  BY DEF Init, Sent, Diffed
<1> QED
  BY <1>1, <1>2 DEF LinkInv, Init

LEMMA LinkInvNext == LinkInv /\ [Next]_vars => LinkInv'
<1> SUFFICES ASSUME LinkInv, [Next]_vars PROVE LinkInv'
  OBVIOUS
<1> USE DEF LinkInv
<1>1. TypeOK /\ TypeOK'
  BY TypeNext
<1>2. (writing # None => drv = "pump")'
  BY DEF Next, vars, ecsVars, drvVars, FrameStep, App, Driver, BeginFrame,
         TriggerResetOnError, BeginPostUpdate, Flush, EndFrame, AppWrite,
         AppReset, RaiseError, PowerOn, HandshakeDone, WriteInit, BringUpDone,
         Dequeue, Written, WriteFails
<1>3. SUFFICES ASSUME NEW t \in Slots, NEW v, Sent(t)' = v, v # None, t \notin lost'
               PROVE  WillSettleAt(t, v)'
  BY <1>1, <1>2
<1>4. ASSUME Sent(t) = v, t \notin lost PROVE WillSettleAt(t, v)
  BY <1>3, <1>4
\* Steps that move only the schedule.
<1>5. CASE BeginFrame \/ BeginPostUpdate \/ EndFrame \/ RaiseError \/ UNCHANGED vars
  <2>1. /\ UNCHANGED <<queue, drv, writing, robot>>
        /\ UNCHANGED <<comp, changed, last, lost>>
    BY <1>5 DEF BeginFrame, BeginPostUpdate, EndFrame, RaiseError, vars, drvVars
  <2> QED
    BY <1>3, <1>4, <2>1, SettleUnchanged DEF Sent
\* Steps that write components mark every Motion slot they change.
<1>6. ASSUME NEW s \in Slots, NEW w \in Values, AppWrite(s, w)
      PROVE  WillSettleAt(t, v)'
  <2>1. UNCHANGED <<queue, drv, writing, robot, last, lost>>
    BY <1>6 DEF AppWrite, drvVars
  <2>2. Sent(t)' = Sent(t)
    <3>1. t \in Motion => t \notin changed' /\ t # s /\ comp'[t] = comp[t]
      BY <1>1, <1>3, <1>6 DEF AppWrite, Sent, TypeOK
    <3> QED
      BY <1>6, <2>1, <3>1 DEF AppWrite, Sent
  <2> QED
    BY <1>3, <1>4, <2>1, <2>2, SettleUnchanged
<1>7. CASE TriggerResetOnError \/ AppReset
  <2>1. UNCHANGED <<queue, drv, writing, robot, last, lost>>
    BY <1>7 DEF TriggerResetOnError, AppReset, drvVars
  <2>2. Sent(t)' = Sent(t)
    BY <1>3, <1>7, <2>1 DEF TriggerResetOnError, AppReset, ResetScene, Sent
  <2> QED
    BY <1>3, <1>4, <2>1, <2>2, SettleUnchanged
<1>8. ASSUME NEW s \in Slots, Flush(s) PROVE WillSettleAt(t, v)'
  <2>1. PICK c \in Command : c = [slot |-> s, val |-> comp[s]]
    BY <1>1 DEF Command, TypeOK
  <2>2. UNCHANGED <<drv, writing, robot, comp>>
    BY <1>8 DEF Flush, drvVars
  <2>3. CASE Dirty(s)
    <3>1. Send(c)
      BY <1>8, <2>1, <2>3 DEF Flush
    <3>2. CASE t = s
      <4>1. Len(queue) < Depth
        BY <1>3, <2>1, <3>1, <3>2 DEF Send
      <4>2. queue' = Append(queue, c)
        BY <3>1, <4>1 DEF Send
      <4>3. WillSettleAt(s, c.val)'
        BY <1>1, <2>1, <4>2, SettleAppendOwn
      <4>4. v = comp[s]
        BY <1>3, <1>8, <2>2, <3>2 DEF Sent, Flush, Diffed
      <4> QED
        BY <2>1, <3>2, <4>3, <4>4
    <3>3. CASE t # s
      <4>1. Sent(t) = v /\ t \notin lost
        BY <1>1, <1>3, <1>8, <2>1, <2>2, <3>1, <3>3
           DEF Sent, Flush, Send, Diffed, Motion, TypeOK
      <4>2. CASE queue' = Append(queue, c)
        BY <1>1, <1>4, <2>1, <2>2, <3>3, <4>1, <4>2, SettleAppendOther
      <4>3. CASE queue' = queue
        BY <1>4, <2>2, <4>1, <4>3, SettleUnchanged
      <4> QED
        BY <3>1, <4>2, <4>3 DEF Send
    <3> QED
      BY <3>2, <3>3
  <2>4. CASE ~Dirty(s)
    <3>1. UNCHANGED <<queue, lost>>
      BY <1>8, <2>4 DEF Flush
    <3>2. Sent(t) = v
      BY <1>1, <1>3, <1>8, <2>2, <2>4 DEF Sent, Flush, Dirty, Diffed, TypeOK
    <3> QED
      BY <1>3, <1>4, <2>2, <3>1, <3>2, SettleUnchanged
  <2> QED
    BY <2>3, <2>4
\* Steps of the driver.
<1>9. CASE PowerOn \/ HandshakeDone \/ WriteInit \/ BringUpDone
  <2>1. /\ drv # "pump" /\ UNCHANGED <<queue, writing>>
        /\ UNCHANGED <<comp, changed, last, lost>>
    BY <1>9 DEF PowerOn, HandshakeDone, WriteInit, BringUpDone, ecsVars
  <2> QED
    BY <1>3, <1>4, <2>1, SettleBringUp DEF Sent
<1>10. CASE Dequeue
  <2>1. UNCHANGED <<comp, changed, last, lost>>
    BY <1>10 DEF Dequeue, ecsVars
  <2> QED
    BY <1>1, <1>3, <1>4, <1>10, <2>1, SettleDequeue DEF Sent
<1>11. CASE Written \/ WriteFails
  <2>1. UNCHANGED <<comp, changed, last>> /\ lost \subseteq lost' /\ drv = "pump"
    BY <1>11 DEF Written, WriteFails, ecsVars
  <2> QED
    BY <1>1, <1>3, <1>4, <1>11, <2>1, SettleWriteEnds DEF Sent
<1> QED
  BY <1>5, <1>6, <1>7, <1>8, <1>9, <1>10, <1>11
     DEF Next, FrameStep, App, Driver

\* The invariant implies the property: an undirty slot has been sent.
LEMMA LinkInvInSync == LinkInv => InSync
<1> SUFFICES ASSUME LinkInv, NEW s \in Slots, ~Dirty(s), s \notin lost
             PROVE  WillSettleAt(s, comp[s])
  BY DEF InSync
<1>1. Sent(s) = comp[s] /\ comp[s] # None
  BY LinkAssumption DEF LinkInv, TypeOK, Sent, Dirty, LinkAssumption
<1> QED
  BY <1>1 DEF LinkInv

\* For every set of slots, queue capacity and bring-up sequence: whatever is
\* neither waiting to be flushed nor dropped ends on the wire as the component
\* says, in every reachable state.
THEOREM LinkInSync == Spec => []InSync
  BY LinkInvInit, LinkInvNext, LinkInvInSync, PTL DEF Spec

-----------------------------------------------------------------------------
(* The status half. *)

\* A nonempty set of naturals has a least element.
LEMMA LeastNat ==
  ASSUME NEW S \in SUBSET Nat, S # {}
  PROVE  \E m \in S : \A k \in S : m <= k
<1>1. IsWellFoundedOn(OpToRel(<, Nat), Nat)
  BY NatLessThanWellFounded
<1>2. PICK m \in S : \A k \in S : ~(<<k, m>> \in OpToRel(<, Nat))
  <2> HIDE DEF OpToRel
  <2> QED
    BY <1>1, WFMin
<1>3. \A k \in S : ~(k < m)
  BY <1>2 DEF OpToRel
<1> QED
  BY <1>3

\* The greatest of some places of a sequence.
LEMMA MaxOfPlaces ==
  ASSUME NEW n \in Nat, NEW S \in SUBSET (1..n), S # {}
  PROVE  Max(S) \in S /\ \A y \in S : y <= Max(S)
<1> DEFINE T == {n - y : y \in S}
<1>1. T \subseteq Nat
  OBVIOUS
<1>2. PICK y \in S : TRUE
  OBVIOUS
<1>3. n - y \in T
  OBVIOUS
<1>4. PICK m \in T : \A k \in T : m <= k
  <2> HIDE DEF T
  <2> QED
    BY <1>1, <1>3, LeastNat
<1>5. \E t \in S : \A x \in S : t >= x
  <2>1. PICK t \in S : m = n - t
    BY <1>4
  <2>2. ASSUME NEW x \in S PROVE t >= x
    <3>1. n - x \in T /\ x \in Nat /\ t \in Nat
      OBVIOUS
    <3>2. n - t <= n - x
      BY <1>4, <2>1, <3>1
    <3> QED
      BY <3>1, <3>2
  <2> QED
    BY <2>2
<1>6. Max(S) \in S /\ \A x \in S : Max(S) >= x
  BY <1>5 DEF Max
<1> QED
  BY <1>6

\* A place of S that no place of S exceeds is the greatest.
LEMMA MaxIs ==
  ASSUME NEW n \in Nat, NEW S \in SUBSET (1..n), NEW x \in S, \A y \in S : y <= x
  PROVE  Max(S) = x
<1>1. Max(S) \in S
  BY MaxOfPlaces
<1>2. x <= Max(S)
  BY MaxOfPlaces
<1>3. Max(S) <= x
  BY <1>1
<1>4. \A a, b \in 1..n : a <= b /\ b <= a => a = b
  OBVIOUS
<1> QED
  BY <1>1, <1>2, <1>3, <1>4

LEMMA CardMeet ==
  ASSUME NEW S, NEW x
  PROVE  Cardinality(S \cap {x}) = IF x \in S THEN 1 ELSE 0
<1>1. CASE x \in S
  <2>1. S \cap {x} = {x}
    BY <1>1
  <2> QED
    BY <1>1, <2>1, FS_Singleton
<1>2. CASE x \notin S
  <2>1. S \cap {x} = {}
    BY <1>2
  <2> QED
    BY <1>2, <2>1, FS_EmptySet
<1> QED
  BY <1>1, <1>2

-----------------------------------------------------------------------------

\* The edge detector remembers the lift bit of the masks, although its memory
\* starts with a level robot and the masks with none.
PrevLift == LiftBit \in prev["motion"] <=> LiftBit \in masks["motion"]

\* The inductive invariant.
StatusLinkInv ==
  /\ StatusTypeOK /\ NothingCoalescedAway
  /\ MasksFollow /\ LiftsAlternate /\ PrevLift

\* Only the events of kind k queued so far decide what a frame drains.
LEMMA DrainedBits ==
  ASSUME StatusTypeOK, NEW k \in Kinds
  PROVE  /\ Drained(k) \subseteq Bits(k)
         /\ \A i \in Queued(k) : (\A j \in Queued(k) : j <= i) => Drained(k) = events[i].bits
<1>1. Queued(k) \subseteq 1..Len(events) /\ Len(events) \in Nat
  BY DEF StatusTypeOK, Queued
<1>2. ASSUME NEW i \in Queued(k) PROVE events[i].bits \subseteq Bits(k)
  <2>1. events[i] \in Discrete /\ events[i].kind = k
    BY <1>2 DEF StatusTypeOK, Queued
  <2> QED
    BY <2>1 DEF Discrete, Kinds, Bits
<1>3. CASE Queued(k) = {}
  <2>1. Drained(k) = masks[k]
    BY <1>3 DEF Drained
  <2> QED
    BY <1>3, <2>1 DEF StatusTypeOK, Masks
<1>4. CASE Queued(k) # {}
  <2>1. Max(Queued(k)) \in Queued(k)
    BY <1>1, <1>4, MaxOfPlaces
  <2>2. Drained(k) = events[Max(Queued(k))].bits
    BY <1>4 DEF Drained
  <2>3. ASSUME NEW i \in Queued(k), \A j \in Queued(k) : j <= i
        PROVE  Max(Queued(k)) = i
    BY <1>1, <2>3, MaxIs
  <2> QED
    BY <1>2, <2>1, <2>2, <2>3
<1> QED
  BY <1>3, <1>4

\* A message that finds room is what the next frame drains for its kind; other
\* kinds keep theirs, and a refused message is remembered as missed.
LEMMA EnqueueDrains ==
  ASSUME StatusTypeOK, NEW m \in Discrete, Enqueue(m), UNCHANGED masks
  PROVE  /\ events' \in Seq(Discrete) /\ Len(events') <= EventDepth
         /\ missed' \subseteq Kinds
         /\ \A k \in Kinds : k # m.kind =>
              (Drained(k))' = Drained(k) /\ (k \in missed' <=> k \in missed)
         /\ m.kind \in Kinds /\ m.kind \notin missed' => (Drained(m.kind))' = m.bits
<1>1. events \in Seq(Discrete) /\ Len(events) \in Nat /\ EventDepth \in Nat
  BY StatusAssumption DEF StatusTypeOK, StatusAssumption
<1>2. CASE Len(events) < EventDepth
  <2>1. events' = Append(events, m) /\ missed' = missed \ {m.kind}
    BY <1>2 DEF Enqueue
  <2>2. /\ events' \in Seq(Discrete) /\ Len(events') = Len(events) + 1
        /\ \A i \in 1..Len(events) : events'[i] = events[i]
        /\ events'[Len(events) + 1] = m
    BY <1>1, <2>1
  <2>3. ASSUME NEW k \in Kinds, k # m.kind PROVE (Drained(k))' = Drained(k)
    <3>1. (Queued(k))' = Queued(k) /\ Queued(k) \subseteq 1..Len(events)
      BY <1>1, <2>2, <2>3 DEF Queued
    <3>2. CASE Queued(k) = {}
      BY <3>1, <3>2 DEF Drained
    <3>3. CASE Queued(k) # {}
      <4>1. Max(Queued(k)) \in 1..Len(events)
        BY <1>1, <3>1, <3>3, MaxOfPlaces
      <4> QED
        BY <2>2, <3>1, <3>3, <4>1 DEF Drained
    <3> QED
      BY <3>2, <3>3
  <2>4. ASSUME m.kind \in Kinds PROVE (Drained(m.kind))' = m.bits
    <3> DEFINE q == Len(events) + 1
    <3>1. (Queued(m.kind))' = Queued(m.kind) \cup {q}
      BY <1>1, <2>2 DEF Queued
    <3>2. Queued(m.kind) \subseteq 1..Len(events)
      BY <1>1 DEF Queued
    <3>3. Max((Queued(m.kind))') = q
      <4>1. q \in Nat /\ (Queued(m.kind))' \in SUBSET (1..q)
        BY <1>1, <3>1, <3>2
      <4>2. q \in (Queued(m.kind))' /\ \A y \in (Queued(m.kind))' : y <= q
        BY <1>1, <3>1, <3>2
      <4> HIDE DEF q
      <4> QED
        BY <4>1, <4>2, MaxIs
    <3> QED
      BY <2>2, <3>1, <3>3 DEF Drained
  <2> QED
    BY <1>1, <1>2, <2>1, <2>2, <2>3, <2>4 DEF StatusTypeOK
<1>3. CASE ~(Len(events) < EventDepth)
  <2>1. events' = events /\ missed' = missed \cup ({m.kind} \cap Kinds)
    BY <1>3 DEF Enqueue
  <2>2. \A k \in Kinds : (Drained(k))' = Drained(k)
    BY <2>1 DEF Drained, Queued
  <2> QED
    BY <1>1, <2>1, <2>2 DEF StatusTypeOK
<1> QED
  BY <1>2, <1>3

LEMMA StatusLinkInit == StatusInit => StatusLinkInv
<1> SUFFICES ASSUME StatusInit PROVE StatusLinkInv
  OBVIOUS
<1> USE StatusAssumption DEF StatusAssumption, StatusInit
<1>1. snapshot \in Snapshot /\ sensors \in [Components -> Readings]
  BY DEF Snapshot
<1>2. masks \in Masks /\ prev \in Masks /\ heard \in Masks
  BY DEF Masks, Kinds, Bits
<1>3. events \in Seq(Discrete) /\ Len(events) = 0
  OBVIOUS
<1>4. Len(events) <= EventDepth
  BY <1>3
<1>5. /\ phase \in {"bring_up", "pump"} /\ fw \in BOOLEAN
      /\ latest \in Snapshot \cup {NoSnapshot}
      /\ connected \in BOOLEAN
      /\ missed \subseteq Kinds
  OBVIOUS
<1>6. StatusTypeOK
  BY ONLY <1>1, <1>2, <1>3, <1>4, <1>5 DEF StatusTypeOK
<1>7. \A k \in Kinds : Drained(k) = heard[k]
  BY DEF Drained, Queued
<1>8. Cardinality({}) = 0 /\ masks["motion"] \cap {LiftBit} = {}
  BY FS_EmptySet DEF Kinds
<1>9. PrevLift
  BY DEF PrevLift, Kinds
<1>10. sensors = Shown(snapshot)
  BY DEF Shown, Components
<1> QED
  BY <1>6, <1>7, <1>8, <1>9, <1>10
     DEF StatusLinkInv, NothingCoalescedAway, MasksFollow, LiftsAlternate

\* A frame: the pending snapshot is applied, the queue is drained, and the lift
\* events follow the lift bit.
LEMMA PreUpdateInv == ASSUME StatusLinkInv, PreUpdate PROVE StatusLinkInv'
<1> USE DEF StatusLinkInv, PreUpdate
<1>1. masks' = [k \in Kinds |-> Drained(k)] /\ events' = <<>> /\ UNCHANGED <<heard, missed>>
  BY DEF ApplyStatus
<1>2. masks' \in Masks
  <2>1. \A k \in Kinds : Drained(k) \subseteq Bits(k)
    BY DrainedBits
  <2>2. \A k \in Kinds : Bits(k) \subseteq TouchBits \cup MotionBits
    BY DEF Bits
  <2> QED
    BY <1>1, <2>1, <2>2 DEF Masks
<1>3. StatusTypeOK'
  <2>1. sensors' \in [Components -> Readings] /\ latest' \in Snapshot \cup {NoSnapshot}
    BY DEF ApplyStatus, StatusTypeOK, Snapshot, Shown, Components
  <2>2. prev' \in Masks
    BY <1>2 DEF DetectEvents
  <2>3. events' \in Seq(Discrete) /\ Len(events') <= EventDepth
    BY <1>1, StatusAssumption DEF StatusAssumption
  <2>4. connected' \in BOOLEAN
    BY DEF ApplyStatus
  <2> QED
    BY <1>1, <1>2, <2>1, <2>2, <2>3, <2>4 DEF StatusTypeOK
<1>4. NothingCoalescedAway'
  BY DEF NothingCoalescedAway, ApplyStatus
<1>5. MasksFollow'
  <2>1. \A k \in Kinds : (Drained(k))' = masks'[k]
    BY <1>1 DEF Drained, Queued
  <2> QED
    BY <1>1, <2>1 DEF MasksFollow
<1>6. PrevLift'
  BY DEF PrevLift, DetectEvents
<1>7. LiftsAlternate'
  <2> DEFINE new == masks'["motion"]
  <2>1. fired' = Edges(prev, masks') /\ lifts' = NetLift(fired')
    BY DEF DetectEvents
  <2>2. <<"Motion", LiftBit>> \in fired' <=> LiftBit \in new /\ LiftBit \notin prev["motion"]
    BY <2>1 DEF Edges, Rising, Falling
  <2>3. <<"Dropped", LiftBit>> \in fired' <=> LiftBit \in prev["motion"] /\ LiftBit \notin new
    BY <2>1 DEF Edges, Rising, Falling
  <2>4. lifts = IF LiftBit \in prev["motion"] THEN 1 ELSE 0
    BY CardMeet DEF LiftsAlternate, PrevLift
  <2>5. lifts' = lifts + (IF <<"Motion", LiftBit>> \in fired' THEN 1 ELSE 0)
                       - (IF <<"Dropped", LiftBit>> \in fired' THEN 1 ELSE 0)
    BY <2>1, CardMeet DEF NetLift
  <2>6. lifts' = IF LiftBit \in new THEN 1 ELSE 0
    <3> HIDE DEF new
    <3> QED
      BY <2>2, <2>3, <2>4, <2>5
  <2> QED
    BY <2>6, CardMeet DEF LiftsAlternate
<1> QED
  BY <1>3, <1>4, <1>5, <1>6, <1>7

LEMMA StatusLinkNext == StatusLinkInv /\ [StatusNext]_statusVars => StatusLinkInv'
<1> SUFFICES ASSUME StatusLinkInv, [StatusNext]_statusVars PROVE StatusLinkInv'
  OBVIOUS
<1> USE DEF StatusLinkInv, frameVars
\* What the driver's steps leave alone: the masks and what is read off them.
<1>1. ASSUME UNCHANGED <<masks, prev, lifts>> PROVE LiftsAlternate' /\ PrevLift'
  BY <1>1 DEF LiftsAlternate, PrevLift
<1>2. ASSUME UNCHANGED <<events, masks, heard, missed>> PROVE MasksFollow'
  BY <1>2 DEF MasksFollow, Drained, Queued
<1>3. CASE HearFirmware
  BY <1>1, <1>2, <1>3 DEF HearFirmware, StatusTypeOK, NothingCoalescedAway
<1>4. ASSUME NEW m \in Discrete, Enqueue(m), UNCHANGED <<snapshot, latest, frameVars>>,
             phase' \in {"bring_up", "pump"}, UNCHANGED fw,
             \/ m.kind \notin Kinds /\ UNCHANGED heard
             \/ m.kind \in Kinds /\ heard' = [heard EXCEPT ![m.kind] = m.bits]
      PROVE  StatusLinkInv'
  <2>1. UNCHANGED masks
    BY <1>4
  <2>2. /\ events' \in Seq(Discrete) /\ Len(events') <= EventDepth
        /\ missed' \subseteq Kinds
        /\ \A k \in Kinds : k # m.kind =>
             (Drained(k))' = Drained(k) /\ (k \in missed' <=> k \in missed)
        /\ m.kind \in Kinds /\ m.kind \notin missed' => (Drained(m.kind))' = m.bits
    BY <1>4, <2>1, EnqueueDrains
  <2>3. heard' \in Masks
    <3>1. m.kind \in Kinds => m.bits \subseteq Bits(m.kind)
      BY DEF Discrete, Kinds, Bits
    <3>2. \A k \in Kinds : Bits(k) \subseteq TouchBits \cup MotionBits
      BY DEF Bits
    <3> QED
      BY <1>4, <3>1, <3>2 DEF StatusTypeOK, Masks
  <2>4. StatusTypeOK'
    BY <1>4, <2>2, <2>3 DEF StatusTypeOK
  <2>5. \A k \in Kinds : heard'[k] = IF k = m.kind THEN m.bits ELSE heard[k]
    BY <1>4 DEF StatusTypeOK, Masks
  <2>6. MasksFollow'
    BY <2>2, <2>5 DEF MasksFollow
  <2> QED
    BY <1>1, <1>4, <2>4, <2>6 DEF NothingCoalescedAway
<1>5. [kind |-> "fw"] \in Discrete /\ [kind |-> "fw"].kind \notin Kinds
  BY DEF Discrete, Kinds
<1>6. CASE AnnounceFirmware
  <2>1. CASE fw
    <3>1. Enqueue([kind |-> "fw"]) /\ phase' = "pump"
          /\ UNCHANGED <<fw, snapshot, latest, heard, frameVars>>
      BY <1>6, <2>1 DEF AnnounceFirmware
    <3> QED
      BY <1>4, <1>5, <3>1
  <2>2. CASE ~fw
    BY <1>1, <1>2, <1>6, <2>2 DEF AnnounceFirmware, StatusTypeOK, NothingCoalescedAway
  <2> QED
    BY <2>1, <2>2
<1>7. ASSUME NEW m \in Messages, NEW r \in Readings, Continuous(m, r)
      PROVE  StatusLinkInv'
  <2>1. snapshot' \in Snapshot
    BY <1>7 DEF Continuous, StatusTypeOK, Snapshot
  <2>2. StatusTypeOK'
    BY <1>7, <2>1 DEF Continuous, StatusTypeOK
  <2>3. NothingCoalescedAway'
    BY <1>7, <2>1, StatusAssumption
       DEF Continuous, NothingCoalescedAway, StatusAssumption
  <2> QED
    BY <1>1, <1>2, <1>7, <2>2, <2>3 DEF Continuous
<1>8. ASSUME NEW k \in Kinds, NEW b \in SUBSET Bits(k), BitMessage(k, b)
      PROVE  StatusLinkInv'
  <2> DEFINE m == [kind |-> k, bits |-> b]
  <2>1. m \in Discrete /\ m.kind = k /\ m.bits = b
    BY DEF Discrete, Kinds, Bits
  <2>2. Enqueue(m) /\ heard' = [heard EXCEPT ![k] = b]
        /\ UNCHANGED <<phase, fw, snapshot, latest, frameVars>>
    BY <1>8 DEF BitMessage
  <2>3. phase' \in {"bring_up", "pump"}
    BY <2>2 DEF StatusTypeOK
  <2> HIDE DEF m
  <2> QED
    BY <1>4, <2>1, <2>2, <2>3
<1>9. CASE FirmwareMessage
  <2>1. Enqueue([kind |-> "fw"]) /\ UNCHANGED <<phase, fw, snapshot, latest, heard, frameVars>>
    BY <1>9 DEF FirmwareMessage
  <2>2. phase' \in {"bring_up", "pump"}
    BY <2>1 DEF StatusTypeOK
  <2> QED
    BY <1>4, <1>5, <2>1, <2>2
<1>10. CASE PreUpdate
  BY <1>10, PreUpdateInv
<1>11. CASE UNCHANGED statusVars
  BY <1>1, <1>2, <1>11 DEF statusVars, StatusTypeOK, NothingCoalescedAway
<1> QED
  BY <1>3, <1>6, <1>7, <1>8, <1>9, <1>10, <1>11 DEF StatusNext

LEMMA StatusLinkSafe == StatusSpec => []StatusLinkInv
  BY StatusLinkInit, StatusLinkNext, PTL DEF StatusSpec

\* For all messages, readings and queue capacities: the types and the bound of
\* ALVIK_EVENTS hold, and coalescing snapshots on ALVIK_STATE loses no reading.
THEOREM NoReadingLost == StatusSpec => []StatusInv
<1>1. StatusLinkInv => StatusInv
  BY DEF StatusLinkInv, StatusInv
<1> QED
  BY <1>1, StatusLinkSafe, PTL

\* For any number of queued events, what the next apply_status drains for a kind
\* is the last mask the pump decoded, unless the full queue refused that one.
THEOREM MasksFollowRobot == StatusSpec => []MasksFollow
<1>1. StatusLinkInv => MasksFollow
  BY DEF StatusLinkInv
<1> QED
  BY <1>1, StatusLinkSafe, PTL

\* However many masks are drained in one frame or refused by the queue, the
\* Lifted and Dropped events alternate and agree with the mask: detect_events
\* starts from a memory without the lift bit and always stores what it compared.
THEOREM LiftsTakeTurns == StatusSpec => []LiftsAlternate
<1>1. StatusLinkInv => LiftsAlternate
  BY DEF StatusLinkInv
<1> QED
  BY <1>1, StatusLinkSafe, PTL
=============================================================================

--------------------------- MODULE AsyncBridgeProofs ---------------------------
(***************************************************************************)
(* AsyncBridge implements RequestReply, for any callers, queue depth and   *)
(* number of calls, and for both kinds of responder.  The invariant says   *)
(* where the exchange of each call may be: in exactly one of the queue,    *)
(* the tasks, its own signal and its result.                               *)
(***************************************************************************)
EXTENDS AsyncBridge, TLAPS

\* The state a call that is queued, worked on or answered but not returned has.
Accepted(id) == outcome[id] \in {"open", "cancelled"}

Fresh(id) == id \notin tasks /\ signal[id] = None /\ result[id] = None

Distinct ==
  \A i, j \in 1..Len(queue) : i # j => queue[i] # queue[j]
QueuedFresh ==
  \A i \in 1..Len(queue) : Accepted(queue[i]) /\ Fresh(queue[i])
TasksPending ==
  \A id \in tasks : Accepted(id) /\ signal[id] = None /\ result[id] = None
SignalOwn ==
  \A id \in Calls : signal[id] # None =>
    /\ Accepted(id) /\ result[id] = None
    /\ signal[id].of = id /\ signal[id].out \in Out
    /\ signal[id] = [of |-> id, out |-> signal[id].out]
ResultWhenAnswered ==
  \A id \in Calls : result[id] # None <=> outcome[id] = "answered"

\* The inductive invariant.
BridgeInv ==
  /\ TypeOK /\ Distinct /\ QueuedFresh /\ TasksPending /\ SignalOwn
  /\ ResultWhenAnswered

LEMMA InitInv == Init => BridgeInv
<1> SUFFICES ASSUME Init PROVE BridgeInv
    OBVIOUS
<1>1. TypeOK
    BY BridgeAssumption DEF Init, TypeOK, Fate, BridgeAssumption
<1>2. Distinct /\ QueuedFresh /\ TasksPending
    BY DEF Init, Distinct, QueuedFresh, TasksPending
<1>3. SignalOwn /\ ResultWhenAnswered
    BY DEF Init, SignalOwn, ResultWhenAnswered
<1> QED BY <1>1, <1>2, <1>3 DEF BridgeInv

LEMMA StutterInv == BridgeInv /\ UNCHANGED vars => BridgeInv'
BY DEF BridgeInv, vars, TypeOK, Distinct, QueuedFresh, TasksPending, SignalOwn,
       ResultWhenAnswered, Accepted, Fresh

LEMMA CallInv == ASSUME BridgeInv, NEW id \in Calls, Call(id) PROVE BridgeInv'
<1>1. CASE Len(queue) < Depth
  <2> USE <1>1 DEF BridgeInv
  <2>0. /\ queue' = Append(queue, id) /\ outcome[id] = "new"
        /\ outcome' = [outcome EXCEPT ![id] = "open"]
        /\ UNCHANGED <<result, tasks, signal>>
      BY DEF Call, Ready
  <2>1. /\ queue \in Seq(Calls) /\ Len(queue') = Len(queue) + 1
        /\ \A i \in 1..Len(queue) : queue'[i] = queue[i]
        /\ queue'[Len(queue) + 1] = id /\ queue' \in Seq(Calls)
      BY <2>0 DEF TypeOK
  <2>2. TypeOK'
      BY <2>0, <2>1, BridgeAssumption DEF TypeOK, Fate, BridgeAssumption
  <2>3. \A i \in 1..Len(queue) : queue[i] # id
      BY <2>0 DEF QueuedFresh, Accepted
  <2>4. Distinct'
    <3> SUFFICES ASSUME NEW i \in 1..Len(queue'), NEW j \in 1..Len(queue'), i # j
                 PROVE queue'[i] # queue'[j]
        BY DEF Distinct
    <3>1. \A k \in 1..Len(queue') : k \in 1..Len(queue) \/ k = Len(queue) + 1
        BY <2>1
    <3> QED BY <2>1, <2>3, <3>1 DEF Distinct
  <2>5. signal[id] = None /\ result[id] = None /\ id \notin tasks
      BY <2>0 DEF SignalOwn, ResultWhenAnswered, TasksPending, Accepted
  <2>6. QueuedFresh'
    <3> SUFFICES ASSUME NEW i \in 1..Len(queue')
                 PROVE (Accepted(queue[i]) /\ Fresh(queue[i]))'
        BY DEF QueuedFresh
    <3>1. CASE i \in 1..Len(queue)
        BY <3>1, <2>0, <2>1, <2>3 DEF QueuedFresh, Accepted, Fresh, TypeOK
    <3>2. CASE i = Len(queue) + 1
        BY <3>2, <2>0, <2>1, <2>5 DEF Accepted, Fresh, TypeOK
    <3> QED BY <3>1, <3>2, <2>1
  <2>7. TasksPending'
      BY <2>0, <2>5 DEF TasksPending, Accepted, TypeOK
  <2>8. SignalOwn' /\ ResultWhenAnswered'
      BY <2>0, <2>5 DEF SignalOwn, ResultWhenAnswered, Accepted, TypeOK
  <2> QED BY <2>2, <2>4, <2>6, <2>7, <2>8
<1>2. CASE ~(Len(queue) < Depth)
  <2> USE <1>2 DEF BridgeInv
  <2>0. /\ outcome[id] = "new"
        /\ outcome' = [outcome EXCEPT ![id] = "rejected"]
        /\ UNCHANGED <<queue, result, tasks, signal>>
      BY DEF Call, Ready
  <2>1. TypeOK' /\ Distinct'
      BY <2>0 DEF TypeOK, Fate, Distinct
  <2>2. QueuedFresh' /\ TasksPending'
      BY <2>0 DEF QueuedFresh, TasksPending, Accepted, Fresh, TypeOK
  <2>3. SignalOwn' /\ ResultWhenAnswered'
      BY <2>0 DEF SignalOwn, ResultWhenAnswered, Accepted, TypeOK
  <2> QED BY <2>1, <2>2, <2>3
<1> QED BY <1>1, <1>2

LEMMA CancelInv == ASSUME BridgeInv, NEW id \in Calls, Cancel(id) PROVE BridgeInv'
<1> USE DEF BridgeInv
<1>0. /\ outcome[id] = "open"
      /\ outcome' = [outcome EXCEPT ![id] = "cancelled"]
      /\ UNCHANGED <<queue, result, tasks, signal>>
    BY DEF Cancel
<1>1. TypeOK' /\ Distinct'
    BY <1>0 DEF TypeOK, Fate, Distinct
<1>2. QueuedFresh' /\ TasksPending'
    BY <1>0 DEF QueuedFresh, TasksPending, Accepted, Fresh, TypeOK
<1>3. SignalOwn' /\ ResultWhenAnswered'
    BY <1>0 DEF SignalOwn, ResultWhenAnswered, Accepted, TypeOK
<1> QED BY <1>1, <1>2, <1>3

LEMMA TakeInv == ASSUME BridgeInv, Take PROVE BridgeInv'
<1> USE DEF BridgeInv
<1> DEFINE h == queue[1]
<1>0. /\ queue # <<>> /\ tasks' = tasks \cup {h} /\ queue' = Tail(queue)
      /\ UNCHANGED <<outcome, result, signal>>
    BY DEF Take, TypeOK
<1>1. /\ Len(queue) \in Nat \ {0} /\ Len(queue') = Len(queue) - 1
      /\ \A i \in 1..Len(queue') : queue'[i] = queue[i + 1]
      /\ queue' \in Seq(Calls) /\ h \in Calls /\ 1 \in 1..Len(queue)
    BY <1>0 DEF TypeOK
<1>2. TypeOK'
    BY <1>0, <1>1, BridgeAssumption DEF TypeOK, BridgeAssumption
<1>3. \A i \in 1..Len(queue') : i + 1 \in 1..Len(queue) /\ i + 1 # 1
    BY <1>1
<1>4. Distinct'
  <2> SUFFICES ASSUME NEW i \in 1..Len(queue'), NEW j \in 1..Len(queue'), i # j
               PROVE queue'[i] # queue'[j]
      BY DEF Distinct
  <2>1. i + 1 # j + 1
      BY <1>1
  <2> QED BY <2>1, <1>1, <1>3 DEF Distinct
<1>5. QueuedFresh'
  <2> SUFFICES ASSUME NEW i \in 1..Len(queue')
               PROVE (Accepted(queue[i]) /\ Fresh(queue[i]))'
      BY DEF QueuedFresh
  <2>1. queue[i + 1] # h
      BY <1>1, <1>3 DEF Distinct
  <2> QED BY <2>1, <1>0, <1>1, <1>3 DEF QueuedFresh, Accepted, Fresh
<1>6. TasksPending'
    BY <1>0, <1>1 DEF TasksPending, QueuedFresh, Accepted, Fresh
<1>7. SignalOwn' /\ ResultWhenAnswered'
    BY <1>0 DEF SignalOwn, ResultWhenAnswered, Accepted
<1> QED BY <1>2, <1>4, <1>5, <1>6, <1>7

LEMMA FinishInv ==
  ASSUME BridgeInv, NEW id \in Calls, NEW o \in Out, Finish(id, o)
  PROVE BridgeInv'
<1> USE DEF BridgeInv
<1>0. /\ id \in tasks /\ tasks' = tasks \ {id}
      /\ signal' = [signal EXCEPT ![id] = [of |-> id, out |-> o]]
      /\ UNCHANGED <<outcome, result, queue>>
    BY DEF Finish, Cell
<1>1. [of |-> id, out |-> o] \in Answer
    BY DEF Answer
<1>2. TypeOK' /\ Distinct'
    BY <1>0, <1>1 DEF TypeOK, Distinct
<1>3. \A i \in 1..Len(queue) : queue[i] # id
    BY <1>0 DEF QueuedFresh, Fresh
<1>4. QueuedFresh'
    BY <1>0, <1>3 DEF QueuedFresh, Accepted, Fresh, TypeOK
<1>5. TasksPending' /\ ResultWhenAnswered'
    BY <1>0 DEF TasksPending, ResultWhenAnswered, Accepted, TypeOK
<1>6. Accepted(id) /\ result[id] = None
    BY <1>0 DEF TasksPending
<1>7. SignalOwn'
  <2> SUFFICES ASSUME NEW k \in Calls, signal'[k] # None
               PROVE (/\ Accepted(k) /\ result[k] = None
                      /\ signal[k].of = k /\ signal[k].out \in Out
                      /\ signal[k] = [of |-> k, out |-> signal[k].out])'
      BY DEF SignalOwn
  <2>1. CASE k = id
      BY <2>1, <1>0, <1>6 DEF Accepted, TypeOK
  <2>2. CASE k # id
      BY <2>2, <1>0 DEF SignalOwn, Accepted, TypeOK
  <2> QED BY <2>1, <2>2
<1> QED BY <1>2, <1>4, <1>5, <1>7

LEMMA ReceiveInv == ASSUME BridgeInv, NEW id \in Calls, Receive(id) PROVE BridgeInv'
<1> USE DEF BridgeInv
<1>0. /\ outcome[id] = "open" /\ signal[id] # None
      /\ outcome' = [outcome EXCEPT ![id] = "answered"]
      /\ result' = [result EXCEPT ![id] = signal[id]]
      /\ signal' = [signal EXCEPT ![id] = None]
      /\ UNCHANGED <<queue, tasks>>
    BY DEF Receive, Cell
<1>1. TypeOK' /\ Distinct'
    BY <1>0 DEF TypeOK, Distinct, Fate
<1>2. id \notin tasks /\ \A i \in 1..Len(queue) : queue[i] # id
    BY <1>0 DEF QueuedFresh, Fresh, TasksPending
<1>3. QueuedFresh' /\ TasksPending'
    BY <1>0, <1>2 DEF QueuedFresh, TasksPending, Accepted, Fresh, TypeOK
<1>4. SignalOwn'
    BY <1>0 DEF SignalOwn, Accepted, TypeOK
<1>5. ResultWhenAnswered'
    BY <1>0 DEF ResultWhenAnswered, TypeOK
<1> QED BY <1>1, <1>3, <1>4, <1>5

LEMMA NextInv == BridgeInv /\ [Next]_vars => BridgeInv'
BY StutterInv, CallInv, CancelInv, TakeInv, FinishInv, ReceiveInv DEF Next

\* The bridge's variables keep their types and the queue its bound.
THEOREM BridgeTypeCorrect == Spec => []TypeOK
<1>1. Spec => []BridgeInv
    BY InitInv, NextInv, PTL DEF Spec
<1> QED BY <1>1, PTL DEF BridgeInv

-----------------------------------------------------------------------------
(* The refinement, one lemma per action. *)

Work == [id \in Calls |-> WorkOf(id)]

LEMMA CallsSame == Calls = RR!Calls
BY DEF Calls, RR!Calls

LEMMA ReadySame == ASSUME NEW id \in Calls, Ready(id) PROVE RR!Ready(id)
BY CallsSame DEF Ready, RR!Ready

LEMMA CallRefines ==
  ASSUME BridgeInv, NEW id \in Calls, Call(id) PROVE RR!Open(id) \/ RR!Reject(id)
<1>1. UNCHANGED <<result, Work>>
    BY DEF Call, Work, WorkOf
<1>2. \/ outcome' = [outcome EXCEPT ![id] = "open"]
      \/ outcome' = [outcome EXCEPT ![id] = "rejected"]
    BY DEF Call
<1>3. RR!Ready(id)
    BY ReadySame DEF Call
<1> QED BY <1>1, <1>2, <1>3 DEF RR!Open, RR!Reject, Work

LEMMA CancelRefines ==
  ASSUME BridgeInv, NEW id \in Calls, Cancel(id) PROVE RR!Cancel(id)
<1>1. UNCHANGED <<result, Work>>
    BY DEF Cancel, Work, WorkOf
<1> QED BY <1>1 DEF Cancel, RR!Cancel, Work

LEMMA TakeRefines ==
  ASSUME BridgeInv, Take PROVE \E id \in RR!Calls : RR!StartWork(id)
<1> DEFINE h == queue[1]
<1>0. /\ queue # <<>> /\ tasks' = tasks \cup {h}
      /\ UNCHANGED <<outcome, result, signal>>
    BY DEF Take, TypeOK, BridgeInv
<1>1. h \in Calls /\ 1 \in 1..Len(queue)
    BY <1>0 DEF BridgeInv, TypeOK
<1>2. Accepted(h) /\ Fresh(h)
    BY <1>1 DEF BridgeInv, QueuedFresh
<1>3. Work[h] = "none"
    BY <1>1, <1>2 DEF Work, WorkOf, Fresh
<1>4. Work' = [Work EXCEPT ![h] = "started"]
    BY <1>0, <1>1 DEF Work, WorkOf
<1>5. RR!StartWork(h)
    BY <1>0, <1>2, <1>3, <1>4 DEF RR!StartWork, Work, Accepted
<1> QED BY <1>1, <1>5, CallsSame

LEMMA FinishRefines ==
  ASSUME BridgeInv, NEW id \in Calls, NEW o \in Out, Finish(id, o)
  PROVE RR!FinishWork(id)
<1>0. /\ id \in tasks /\ tasks' = tasks \ {id}
      /\ signal' = [signal EXCEPT ![id] = [of |-> id, out |-> o]]
      /\ UNCHANGED <<outcome, result, queue>>
    BY DEF Finish, Cell
<1>1. Work[id] = "started"
    BY <1>0 DEF Work, WorkOf
<1>2. [of |-> id, out |-> o] # None
    BY BridgeAssumption DEF BridgeAssumption, Answer
<1>3. signal \in [Calls -> Answer \cup {None}]
    BY DEF BridgeInv, TypeOK
<1>4. Work' = [Work EXCEPT ![id] = "done"]
    BY <1>0, <1>2, <1>3 DEF Work, WorkOf
<1> QED BY <1>0, <1>1, <1>4 DEF RR!FinishWork, Work

LEMMA ReceiveRefines ==
  ASSUME BridgeInv, NEW id \in Calls, Receive(id)
  PROVE \E o \in Out : RR!Deliver(id, o)
<1>0. /\ outcome[id] = "open" /\ signal[id] # None
      /\ outcome' = [outcome EXCEPT ![id] = "answered"]
      /\ result' = [result EXCEPT ![id] = signal[id]]
      /\ signal' = [signal EXCEPT ![id] = None]
      /\ UNCHANGED <<queue, tasks>>
    BY DEF Receive, Cell
<1>1. signal[id] = [of |-> id, out |-> signal[id].out] /\ signal[id].out \in Out
    BY <1>0 DEF BridgeInv, SignalOwn
<1>2. id \notin tasks
    BY <1>0 DEF BridgeInv, TasksPending
<1>3. Work[id] = "done"
    BY <1>0, <1>2 DEF Work, WorkOf
<1>4. result \in [Calls -> Answer \cup {None}] /\ signal \in [Calls -> Answer \cup {None}]
    BY DEF BridgeInv, TypeOK
<1>5. Work' = Work
    BY <1>0, <1>2, <1>4 DEF Work, WorkOf
<1>6. RR!Deliver(id, signal[id].out)
    BY <1>0, <1>1, <1>3, <1>5 DEF RR!Deliver, Work
<1> QED BY <1>1, <1>6

\* Every behaviour of the bridge is one of RequestReply.
THEOREM BridgeImplements == Spec => Implements
<1>1. Init => RR!Init
    BY CallsSame DEF Init, RR!Init, WorkOf
<1>2. BridgeInv /\ [Next]_vars => [RR!Next]_(RR!vars)
  <2> SUFFICES ASSUME BridgeInv, [Next]_vars PROVE [RR!Next]_(RR!vars)
      OBVIOUS
  <2>1. CASE UNCHANGED vars
      BY <2>1 DEF vars, RR!vars, WorkOf
  <2>2. ASSUME NEW id \in Calls, Call(id) PROVE RR!Next
      BY <2>2, CallRefines, CallsSame DEF RR!Next
  <2>3. ASSUME NEW id \in Calls, Cancel(id) PROVE RR!Next
      BY <2>3, CancelRefines, CallsSame DEF RR!Next
  <2>4. CASE Take
      BY <2>4, TakeRefines DEF RR!Next
  <2>5. ASSUME NEW id \in Calls, NEW o \in Out, Finish(id, o) PROVE RR!Next
      BY <2>5, FinishRefines, CallsSame DEF RR!Next
  <2>6. ASSUME NEW id \in Calls, Receive(id) PROVE RR!Next
      BY <2>6, ReceiveRefines, CallsSame DEF RR!Next
  <2> QED BY <2>1, <2>2, <2>3, <2>4, <2>5, <2>6 DEF Next
<1>3. Spec => []BridgeInv
    BY InitInv, NextInv, PTL DEF Spec
<1> QED BY <1>1, <1>2, <1>3, PTL DEF Spec, Implements, RR!Spec
=============================================================================

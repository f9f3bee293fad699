------------------------------ MODULE AsyncBridge ------------------------------
(***************************************************************************)
(* AsyncBridge (src/src/esp32_utils/async_bridge.rs): a bounded queue of   *)
(* exchanges, each carrying the input of one call and a handle on that     *)
(* call's one-shot signal, drained either by one embassy task that serves  *)
(* a call at a time (run_worker) or by a per-frame ECS system that starts  *)
(* a task for every queued call (drain_to_async).                          *)
(*                                                                         *)
(* A call is identified by its caller and its number; its input is its     *)
(* identity and its answer says which input it was computed from.  The     *)
(* work done for a call is opaque and may answer anything in Out.  Nobody  *)
(* else shares a step of call, recv or send: each runs between two awaits. *)
(***************************************************************************)
EXTENDS Naturals, Sequences, FiniteSets

CONSTANTS
  Callers,
  MaxCalls,   \* bound on the calls of one caller
  Depth,      \* N, the capacity of the queue
  Serial,     \* TRUE: run_worker; FALSE: drain_to_async
  Out,        \* what a worker can answer
  None

Calls == Callers \X (1..MaxCalls)
Answer == [of : Calls, out : Out]
Fate == {"new", "open", "rejected", "cancelled", "answered"}

ASSUME BridgeAssumption ==
  /\ MaxCalls \in Nat /\ Depth \in Nat \ {0} /\ Serial \in BOOLEAN
  /\ None \notin Answer

VARIABLES
  outcome,    \* what each call came to
  result,     \* the answer each call returned, or None
  queue,      \* the queued exchanges
  tasks,      \* calls taken by the responder whose worker is running
  signal      \* the one-shot signals, one per call

vars == <<outcome, result, queue, tasks, signal>>

Init ==
  /\ outcome = [id \in Calls |-> "new"]
  /\ result = [id \in Calls |-> None]
  /\ queue = <<>>
  /\ tasks = {}
  /\ signal = [id \in Calls |-> None]

-----------------------------------------------------------------------------

\* Mutant of Cell: one signal per caller instead of one per call.
CellPerCaller(id) == <<id[1], 1>>

\* The signal a call waits on: a fresh Arc<Signal> for every call.
Cell(id) == id

\* A caller awaits one call at a time.
Ready(id) ==
  /\ outcome[id] = "new"
  /\ \A j \in Calls : j[1] = id[1] =>
       /\ outcome[j] # "open"
       /\ j[2] < id[2] => outcome[j] # "new"

\* Mutant of Call: the capacity test is off by one.
CallOffByOne(id) ==
  /\ Ready(id)
  /\ IF Len(queue) <= Depth
     THEN /\ queue' = Append(queue, id)
          /\ outcome' = [outcome EXCEPT ![id] = "open"]
     ELSE /\ outcome' = [outcome EXCEPT ![id] = "rejected"]
          /\ UNCHANGED queue
  /\ UNCHANGED <<result, tasks, signal>>

\* call: a full queue hands the input back; otherwise the exchange is queued
\* and the caller awaits the signal.
Call(id) ==
  /\ Ready(id)
  /\ IF Len(queue) < Depth
     THEN /\ queue' = Append(queue, id)
          /\ outcome' = [outcome EXCEPT ![id] = "open"]
     ELSE /\ outcome' = [outcome EXCEPT ![id] = "rejected"]
          /\ UNCHANGED queue
  /\ UNCHANGED <<result, tasks, signal>>

\* The caller's future is dropped, by a select or with its task: the exchange
\* stays where it is.
Cancel(id) ==
  /\ outcome[id] = "open"
  /\ outcome' = [outcome EXCEPT ![id] = "cancelled"]
  /\ UNCHANGED <<result, queue, tasks, signal>>

\* Mutant of Take: only the first queued call is served, the rest is dropped.
TakeDropsRest ==
  /\ queue # <<>>
  /\ Serial => tasks = {}
  /\ tasks' = tasks \cup {Head(queue)}
  /\ queue' = <<>>
  /\ UNCHANGED <<outcome, result, signal>>

\* recv (run_worker) or try_recv (drain_to_async), then split.
Take ==
  /\ queue # <<>>
  /\ Serial => tasks = {}
  /\ tasks' = tasks \cup {Head(queue)}
  /\ queue' = Tail(queue)
  /\ UNCHANGED <<outcome, result, signal>>

\* The worker returns and Reply::send raises the signal.
Finish(id, o) ==
  /\ id \in tasks
  /\ tasks' = tasks \ {id}
  /\ signal' = [signal EXCEPT ![Cell(id)] = [of |-> id, out |-> o]]
  /\ UNCHANGED <<outcome, result, queue>>

\* signal.wait() returns the value and clears the signal.
Receive(id) ==
  /\ outcome[id] = "open" /\ signal[Cell(id)] # None
  /\ outcome' = [outcome EXCEPT ![id] = "answered"]
  /\ result' = [result EXCEPT ![id] = signal[Cell(id)]]
  /\ signal' = [signal EXCEPT ![Cell(id)] = None]
  /\ UNCHANGED <<queue, tasks>>

Next ==
  \/ \E id \in Calls : Call(id) \/ Cancel(id) \/ Receive(id)
  \/ Take
  \/ \E id \in Calls, o \in Out : Finish(id, o)

Spec == Init /\ [][Next]_vars

\* Both executors poll woken tasks for ever, and no worker of this instance
\* hangs: the ones that can (an mDNS lookup nobody serves) are ClientResolver's.
FairSpec ==
  /\ Spec
  /\ WF_vars(Take)
  /\ \A id \in Calls :
       WF_vars(\E o \in Out : Finish(id, o)) /\ WF_vars(Receive(id))

-----------------------------------------------------------------------------
(* Properties. *)

\* Types, and the bound N on queued exchanges.
TypeOK ==
  /\ outcome \in [Calls -> Fate]
  /\ result \in [Calls -> Answer \cup {None}]
  /\ queue \in Seq(Calls) /\ Len(queue) <= Depth
  /\ tasks \subseteq Calls
  /\ signal \in [Calls -> Answer \cup {None}]

\* Where the work for a call is, read off the bridge: its answer is in the
\* signal, and stays there when the call was cancelled, or has been returned.
WorkOf(id) ==
  IF id \in tasks THEN "started"
  ELSE IF signal[id] # None \/ result[id] # None THEN "done"
  ELSE "none"

RR == INSTANCE RequestReply WITH work <- [id \in Calls |-> WorkOf(id)]

\* The bridge implements RequestReply: a call returns the answer computed for
\* itself, no work runs for a rejected call (its input went back to a caller
\* that has already done its fallback), and none runs twice.
Implements == RR!Spec

\* Every accepted call is answered unless its caller drops it, whatever is
\* queued in front of it and however many of those were abandoned.
Answered == \A id \in Calls : outcome[id] = "open" ~> outcome[id] # "open"
=============================================================================

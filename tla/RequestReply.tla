----------------------------- MODULE RequestReply -----------------------------
(***************************************************************************)
(* What AsyncBridge (src/src/esp32_utils/async_bridge.rs) promises to the  *)
(* two sides of a request/reply pipe, without its queue, tasks or signals: *)
(* a call is rejected at once or stays open until it is answered, with the *)
(* answer computed for this very call, or until its caller gives it up;    *)
(* work is never started for a rejected call and at most once for any.     *)
(***************************************************************************)
EXTENDS Naturals

CONSTANTS
  Callers,
  MaxCalls,   \* bound on the calls of one caller
  Out,        \* what a worker can answer
  None

Calls == Callers \X (1..MaxCalls)

VARIABLES
  outcome,    \* the fate of each call
  result,     \* the answer each call returned
  work        \* the state of the work done for each call

Init ==
  /\ outcome = [id \in Calls |-> "new"]
  /\ result = [id \in Calls |-> None]
  /\ work = [id \in Calls |-> "none"]

\* The first call of its caller not made yet, when that one awaits none.
Ready(id) ==
  /\ outcome[id] = "new"
  /\ \A j \in Calls : j[1] = id[1] =>
       /\ outcome[j] # "open"
       /\ j[2] < id[2] => outcome[j] # "new"

Open(id) ==
  /\ Ready(id)
  /\ outcome' = [outcome EXCEPT ![id] = "open"]
  /\ UNCHANGED <<result, work>>

Reject(id) ==
  /\ Ready(id)
  /\ outcome' = [outcome EXCEPT ![id] = "rejected"]
  /\ UNCHANGED <<result, work>>

StartWork(id) ==
  /\ work[id] = "none" /\ outcome[id] \in {"open", "cancelled"}
  /\ work' = [work EXCEPT ![id] = "started"]
  /\ UNCHANGED <<outcome, result>>

FinishWork(id) ==
  /\ work[id] = "started"
  /\ work' = [work EXCEPT ![id] = "done"]
  /\ UNCHANGED <<outcome, result>>

Deliver(id, o) ==
  /\ outcome[id] = "open" /\ work[id] = "done"
  /\ outcome' = [outcome EXCEPT ![id] = "answered"]
  /\ result' = [result EXCEPT ![id] = [of |-> id, out |-> o]]
  /\ UNCHANGED work

Cancel(id) ==
  /\ outcome[id] = "open"
  /\ outcome' = [outcome EXCEPT ![id] = "cancelled"]
  /\ UNCHANGED <<result, work>>

Next ==
  \E id \in Calls :
    \/ Open(id) \/ Reject(id) \/ Cancel(id)
    \/ StartWork(id) \/ FinishWork(id)
    \/ \E o \in Out : Deliver(id, o)

vars == <<outcome, result, work>>
Spec == Init /\ [][Next]_vars
=============================================================================

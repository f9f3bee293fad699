----------------------------- MODULE HttpServerLoop -----------------------------
(***************************************************************************)
(* The HTTP server backend (src/src/net/http_server.rs): a facet of the    *)
(* ECS starts an embassy accept loop once the network stack exists and     *)
(* stops it, in whatever way the facet ends, through a latched signal; the *)
(* loop serves one connection at a time and calls the ECS on               *)
(* SERVER_BRIDGE, the AsyncBridge all servers share, whose responder is a  *)
(* per-frame system that starts a task for every request.                  *)
(*                                                                         *)
(* The bridge's variables vars are those of SERVER_BRIDGE (4 deep) and its *)
(* callers the servers, MaxCalls bounds the requests each dispatches.  A   *)
(* server is one HttpServer entity, started once; what it receives is a    *)
(* request or noise.  The peers and the ECS dispatch are external: a peer  *)
(* sends a request or its socket times out, a dispatch answers.            *)
(***************************************************************************)
EXTENDS AsyncBridge

Servers == Callers

\* drain_to_async starts a task for every request; a dispatch always responds.
ASSUME ServerAssumption == Serial = FALSE /\ Out = {"response"}

VARIABLES
  stack,     \* start_wifi has published the Stack
  facet,     \* the backend future: "new", "starting", "open" or "ended"
  asked,     \* its world().with(..) is waiting for a sync point
  stop,      \* the StopSignal is raised
  loop       \* where the accept loop is

serverVars == <<vars, stack, facet, asked, stop, loop>>

ServerInit ==
  /\ Init
  /\ stack = FALSE
  /\ facet = [s \in Servers |-> "new"]
  /\ asked = [s \in Servers |-> FALSE]
  /\ stop = [s \in Servers |-> FALSE]
  /\ loop = [s \in Servers |-> "none"]

\* start_wifi inserts the Stack.
PublishStack ==
  /\ ~stack /\ stack' = TRUE
  /\ UNCHANGED <<vars, facet, asked, stop, loop>>

-----------------------------------------------------------------------------
(* The facet: start_esp_server. *)

StartFacet(s) ==
  /\ facet[s] = "new"
  /\ facet' = [facet EXCEPT ![s] = "starting"]
  /\ UNCHANGED <<vars, stack, asked, stop, loop>>

\* One turn of its loop awaits a closure in the world.
AskWorld(s) ==
  /\ facet[s] = "starting" /\ ~asked[s]
  /\ asked' = [asked EXCEPT ![s] = TRUE]
  /\ UNCHANGED <<vars, stack, facet, stop, loop>>

\* Mutant of SpawnLoop: a missing Stack is not retried.
SpawnLoopOnce(s) ==
  /\ asked[s]
  /\ asked' = [asked EXCEPT ![s] = FALSE]
  /\ facet' = [facet EXCEPT ![s] = IF @ = "starting" THEN "open" ELSE @]
  /\ loop' = [loop EXCEPT ![s] = IF stack THEN "accept" ELSE @]
  /\ UNCHANGED <<vars, stack, stop>>

\* The closure runs in the sync point, even when the facet was dropped since:
\* without a Stack the facet asks again, with one it spawns the accept loop.
SpawnLoop(s) ==
  /\ asked[s]
  /\ asked' = [asked EXCEPT ![s] = FALSE]
  /\ IF stack
     THEN /\ loop' = [loop EXCEPT ![s] = "accept"]
          /\ facet' = [facet EXCEPT ![s] = IF @ = "starting" THEN "open" ELSE @]
     ELSE UNCHANGED <<loop, facet>>
  /\ UNCHANGED <<vars, stack, stop>>

\* Mutant of EndFacet: the signal is raised only by a facet that was open.
EndFacetIfOpen(s) ==
  /\ facet[s] \in {"starting", "open"}
  /\ facet' = [facet EXCEPT ![s] = "ended"]
  /\ stop' = [stop EXCEPT ![s] = facet[s] = "open"]
  /\ UNCHANGED <<vars, stack, asked, loop>>

\* The facet returns after shutdown or is dropped with its entity: StopOnDrop
\* raises the signal.
EndFacet(s) ==
  /\ facet[s] \in {"starting", "open"}
  /\ facet' = [facet EXCEPT ![s] = "ended"]
  /\ stop' = [stop EXCEPT ![s] = TRUE]
  /\ UNCHANGED <<vars, stack, asked, loop>>

-----------------------------------------------------------------------------
(* The accept loop: server_loop under select(serve, stop.wait()). *)

Accept(s) ==
  /\ loop[s] = "accept"
  /\ loop' = [loop EXCEPT ![s] = "read"]
  /\ UNCHANGED <<vars, stack, facet, asked, stop>>

\* What was read is no request: 400, close, accept the next connection.
Malformed(s) ==
  /\ loop[s] = "read"
  /\ loop' = [loop EXCEPT ![s] = "accept"]
  /\ UNCHANGED <<vars, stack, facet, asked, stop>>

\* Mutant of Dispatch: a full queue is awaited like an accepted call.
DispatchAwaitsRefused(s) ==
  /\ loop[s] = "read"
  /\ \E id \in Calls : id[1] = s /\ Call(id)
  /\ loop' = [loop EXCEPT ![s] = "await"]
  /\ UNCHANGED <<stack, facet, asked, stop>>

\* A request is dispatched on the bridge; a full queue is a 503.
Dispatch(s) ==
  /\ loop[s] = "read"
  /\ \E id \in Calls :
       /\ id[1] = s /\ Call(id)
       /\ loop' = [loop EXCEPT ![s] =
            IF outcome'[id] = "rejected" THEN "accept" ELSE "await"]
  /\ UNCHANGED <<stack, facet, asked, stop>>

\* Mutant of TakeAnswer: the answer of any of the server's calls is taken.
TakeAnyAnswer(s) ==
  /\ loop[s] = "await"
  /\ \E id \in Calls, j \in Calls :
       /\ id[1] = s /\ outcome[id] = "open" /\ signal[j] # None
       /\ outcome' = [outcome EXCEPT ![id] = "answered"]
       /\ result' = [result EXCEPT ![id] = signal[j]]
       /\ signal' = [signal EXCEPT ![j] = None]
  /\ loop' = [loop EXCEPT ![s] = "write"]
  /\ UNCHANGED <<queue, tasks, stack, facet, asked, stop>>

\* The response arrives.
TakeAnswer(s) ==
  /\ loop[s] = "await"
  /\ \E id \in Calls : id[1] = s /\ Receive(id)
  /\ loop' = [loop EXCEPT ![s] = "write"]
  /\ UNCHANGED <<stack, facet, asked, stop>>

\* The response is written, or serialising or writing it fails; close.
Respond(s) ==
  /\ loop[s] = "write"
  /\ loop' = [loop EXCEPT ![s] = "accept"]
  /\ UNCHANGED <<vars, stack, facet, asked, stop>>

\* select drops the loop where it is, with its connection and its call.
StopLoop(s) ==
  /\ stop[s] /\ loop[s] \notin {"none", "ended"}
  /\ loop' = [loop EXCEPT ![s] = "ended"]
  /\ IF loop[s] = "await"
     THEN \E id \in Calls : id[1] = s /\ Cancel(id)
     ELSE UNCHANGED vars
  /\ UNCHANGED <<stack, facet, asked, stop>>

-----------------------------------------------------------------------------
(* The ECS responder: drain_server_requests and its dispatch tasks. *)

Drain ==
  /\ Take
  /\ UNCHANGED <<stack, facet, asked, stop, loop>>

DispatchEnds(id) ==
  /\ Finish(id, "response")
  /\ UNCHANGED <<stack, facet, asked, stop, loop>>

Loop(s) ==
  \/ Accept(s) \/ Malformed(s) \/ Dispatch(s)
  \/ TakeAnswer(s) \/ Respond(s)

ServerNext ==
  \/ PublishStack
  \/ \E s \in Servers :
       \/ StartFacet(s) \/ AskWorld(s) \/ SpawnLoop(s) \/ EndFacet(s)
       \/ Loop(s) \/ StopLoop(s)
  \/ Drain
  \/ \E id \in Calls : DispatchEnds(id)

ServerSpec == ServerInit /\ [][ServerNext]_serverVars

\* Wi-Fi starts; frames tick, so closures, drains and dispatches are served
\* (no dispatch of this instance runs for ever); a woken loop is polled, and a
\* raised signal is seen however busy the loop is, since select polls it on
\* every wake of the task.
ServerFairSpec ==
  /\ ServerSpec
  /\ WF_serverVars(PublishStack) /\ WF_serverVars(Drain)
  /\ \A id \in Calls : WF_serverVars(DispatchEnds(id))
  /\ \A s \in Servers :
       /\ WF_serverVars(AskWorld(s)) /\ WF_serverVars(SpawnLoop(s))
       /\ WF_serverVars(Loop(s)) /\ WF_serverVars(StopLoop(s))

-----------------------------------------------------------------------------
(* Properties. *)

OpenCalls(s) == {id \in Calls : id[1] = s /\ outcome[id] = "open"}

\* Types; a loop awaits the bridge exactly while it has a call open.
ServerTypeOK ==
  /\ TypeOK /\ stack \in BOOLEAN
  /\ facet \in [Servers -> {"new", "starting", "open", "ended"}]
  /\ asked \in [Servers -> BOOLEAN] /\ stop \in [Servers -> BOOLEAN]
  /\ loop \in [Servers -> {"none", "accept", "read", "await", "write", "ended"}]
  /\ \A s \in Servers :
       Cardinality(OpenCalls(s)) = IF loop[s] = "await" THEN 1 ELSE 0

\* The servers together are the callers of one AsyncBridge, whatever stops
\* while its requests are queued or dispatched: no response of a stopped
\* server's request ever reaches another connection.
ServersShareBridge == Spec

\* No accept loop outlives its facet, also when the facet is dropped while the
\* spawn of the loop is still waiting for a sync point.
NoOrphanLoop ==
  \A s \in Servers :
    facet[s] = "ended" ~> loop[s] \in {"none", "ended"} /\ ~asked[s]

\* A facet that is not ended gets its accept loop once the network is there.
ServerStarts ==
  \A s \in Servers :
    facet[s] = "starting" ~> (loop[s] # "none" \/ facet[s] = "ended")
=============================================================================

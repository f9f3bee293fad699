------------------------- MODULE HttpServerLoopProofs -------------------------
(***************************************************************************)
(* All HTTP servers together are the callers of one AsyncBridge, for any   *)
(* number of servers and requests and any depth of SERVER_BRIDGE: every    *)
(* step of a server, also the one that drops an accept loop in the middle  *)
(* of a call, is a step the bridge allows or none of its business.  What   *)
(* AsyncBridgeProofs shows of the bridge therefore holds of the servers.   *)
(*                                                                         *)
(* That a loop awaits exactly one call is proved as an invariant: a call   *)
(* is only made where none of the same server is open.                     *)
(***************************************************************************)
EXTENDS HttpServerLoop, AsyncBridgeProofs, FiniteSetTheorems

\* Every step of the servers is one of the bridge, or leaves it alone.
LEMMA ServerStepIsBridgeStep == [ServerNext]_serverVars => [Next]_vars
<1> SUFFICES ASSUME [ServerNext]_serverVars PROVE [Next]_vars
  OBVIOUS
<1>1. ASSUME NEW s \in Servers, Dispatch(s) PROVE Next
  BY <1>1 DEF Dispatch, Next
<1>2. ASSUME NEW s \in Servers, TakeAnswer(s) PROVE Next
  BY <1>2 DEF TakeAnswer, Next
<1>3. ASSUME NEW s \in Servers, StopLoop(s) PROVE [Next]_vars
  <2>1. CASE loop[s] = "await"
    BY <1>3, <2>1 DEF StopLoop, Next
  <2>2. CASE loop[s] # "await"
    BY <1>3, <2>2 DEF StopLoop
  <2> QED
    BY <2>1, <2>2
<1>4. Drain => Next
  BY DEF Drain, Next
<1>5. ASSUME NEW id \in Calls, DispatchEnds(id) PROVE Next
  BY <1>5, ServerAssumption DEF DispatchEnds, Next, ServerAssumption
<1>6. CASE \/ PublishStack
           \/ \E s \in Servers :
                \/ StartFacet(s) \/ AskWorld(s) \/ SpawnLoop(s) \/ EndFacet(s)
                \/ Accept(s) \/ Malformed(s) \/ Respond(s)
           \/ UNCHANGED serverVars
  <2>1. UNCHANGED vars
    BY <1>6 DEF PublishStack, StartFacet, AskWorld, SpawnLoop, EndFacet, Accept,
                Malformed, Respond, serverVars
  <2> QED
    BY <2>1
<1> QED
  BY <1>1, <1>2, <1>3, <1>4, <1>5, <1>6 DEF ServerNext, Loop

\* For all servers, requests and depths: the servers, which start, stop and are
\* dropped at any point, use SERVER_BRIDGE as the callers of one AsyncBridge.
THEOREM ServersAreCallers == ServerSpec => ServersShareBridge
<1>1. ServerInit => Init
  BY DEF ServerInit
<1> QED
  BY <1>1, ServerStepIsBridgeStep, PTL DEF ServerSpec, Spec, ServersShareBridge

\* Hence no response reaches the connection of another server or of a later
\* request, none is computed for a refused request and none computed twice,
\* however many servers are stopped while their requests are queued or dispatched.
THEOREM ServersGetOwnResponses == ServerSpec => Implements
  BY ServersAreCallers, BridgeImplements DEF ServersShareBridge

-----------------------------------------------------------------------------

LoopTypeOK ==
  /\ stack \in BOOLEAN
  /\ facet \in [Servers -> {"new", "starting", "open", "ended"}]
  /\ asked \in [Servers -> BOOLEAN] /\ stop \in [Servers -> BOOLEAN]
  /\ loop \in [Servers -> {"none", "accept", "read", "await", "write", "ended"}]

\* A loop that awaits has one call open, every other has none.
AwaitsOne ==
  \A s \in Servers :
    IF loop[s] = "await" THEN \E id \in Calls : OpenCalls(s) = {id}
                         ELSE OpenCalls(s) = {}

\* A closure that waits for a sync point never finds an accept loop: a server
\* has one at most.
SpawnsOnce ==
  \A s \in Servers :
    /\ asked[s] \/ facet[s] \in {"new", "starting"} => loop[s] = "none"
    /\ facet[s] = "new" => ~asked[s]

LEMMA LoopTypeNext ==
  LoopTypeOK /\ [ServerNext]_serverVars => LoopTypeOK'
<1> SUFFICES ASSUME LoopTypeOK, [ServerNext]_serverVars PROVE LoopTypeOK'
  OBVIOUS
<1> USE DEF LoopTypeOK
<1>1. CASE PublishStack \/ UNCHANGED serverVars
  BY <1>1 DEF PublishStack, serverVars
<1>2. ASSUME NEW s \in Servers,
             StartFacet(s) \/ AskWorld(s) \/ SpawnLoop(s) \/ EndFacet(s)
      PROVE  LoopTypeOK'
  BY <1>2 DEF StartFacet, AskWorld, SpawnLoop, EndFacet
<1>3. ASSUME NEW s \in Servers, Loop(s) \/ StopLoop(s) PROVE LoopTypeOK'
  BY <1>3 DEF Loop, Accept, Malformed, Dispatch, TakeAnswer, Respond, StopLoop
<1>4. CASE Drain \/ \E id \in Calls : DispatchEnds(id)
  BY <1>4 DEF Drain, DispatchEnds
<1> QED
  BY <1>1, <1>2, <1>3, <1>4 DEF ServerNext

\* A step of server s that changes the outcome of one call of s at most.
LEMMA OthersAwait ==
  ASSUME NEW s \in Servers, NEW id \in Calls, id[1] = s,
         AwaitsOne, LoopTypeOK, TypeOK, NEW f, NEW l,
         outcome' = [outcome EXCEPT ![id] = f], loop' = [loop EXCEPT ![s] = l],
         OpenCalls(s) \subseteq {id}, f = "open" <=> l = "await"
  PROVE  AwaitsOne'
<1>1. ASSUME NEW t \in Servers, t # s
      PROVE  (OpenCalls(t))' = OpenCalls(t) /\ loop'[t] = loop[t]
  BY <1>1 DEF OpenCalls, TypeOK, LoopTypeOK
<1>2. (OpenCalls(s))' = IF f = "open" THEN {id} ELSE {}
  BY DEF OpenCalls, TypeOK
<1>3. loop'[s] = l
  BY DEF LoopTypeOK
<1> QED
  BY <1>1, <1>2, <1>3 DEF AwaitsOne

LEMMA SpawnsOnceNext ==
  SpawnsOnce /\ LoopTypeOK /\ [ServerNext]_serverVars => SpawnsOnce'
<1> SUFFICES ASSUME SpawnsOnce, LoopTypeOK, [ServerNext]_serverVars
             PROVE  SpawnsOnce'
  OBVIOUS
<1> USE DEF SpawnsOnce, LoopTypeOK
<1>1. CASE PublishStack \/ UNCHANGED serverVars
  BY <1>1 DEF PublishStack, serverVars
<1>2. ASSUME NEW s \in Servers,
             StartFacet(s) \/ AskWorld(s) \/ SpawnLoop(s) \/ EndFacet(s)
      PROVE  SpawnsOnce'
  BY <1>2 DEF StartFacet, AskWorld, SpawnLoop, EndFacet
\* The loop moves on: it was there, so its facet is past its start.
<1>3. ASSUME NEW s \in Servers, Loop(s) \/ StopLoop(s) PROVE SpawnsOnce'
  <2>1. loop[s] # "none" /\ UNCHANGED <<facet, asked>>
    BY <1>3 DEF Loop, Accept, Malformed, Dispatch, TakeAnswer, Respond, StopLoop
  <2>2. \A t \in Servers : t # s => loop'[t] = loop[t]
    BY <1>3 DEF Loop, Accept, Malformed, Dispatch, TakeAnswer, Respond, StopLoop
  <2> QED
    BY <2>1, <2>2
<1>4. CASE Drain \/ \E id \in Calls : DispatchEnds(id)
  BY <1>4 DEF Drain, DispatchEnds
<1> QED
  BY <1>1, <1>2, <1>3, <1>4 DEF ServerNext

LEMMA AwaitsOneNext ==
  AwaitsOne /\ SpawnsOnce /\ LoopTypeOK /\ TypeOK /\ [ServerNext]_serverVars
    => AwaitsOne'
<1> SUFFICES ASSUME AwaitsOne, SpawnsOnce, LoopTypeOK, TypeOK,
                    [ServerNext]_serverVars
             PROVE  AwaitsOne'
  OBVIOUS
<1>1. ASSUME UNCHANGED outcome,
             \A s \in Servers : (loop'[s] = "await") <=> (loop[s] = "await")
      PROVE  AwaitsOne'
  BY <1>1 DEF AwaitsOne, OpenCalls
<1>2. CASE PublishStack \/ UNCHANGED serverVars
  BY <1>1, <1>2 DEF PublishStack, serverVars, vars
<1>3. ASSUME NEW s \in Servers, StartFacet(s) \/ AskWorld(s) \/ EndFacet(s)
      PROVE  AwaitsOne'
  BY <1>1, <1>3 DEF StartFacet, AskWorld, EndFacet, vars
<1>4. ASSUME NEW s \in Servers, SpawnLoop(s) PROVE AwaitsOne'
  BY <1>1, <1>4 DEF SpawnLoop, SpawnsOnce, LoopTypeOK, vars
<1>5. ASSUME NEW s \in Servers, Accept(s) \/ Malformed(s) \/ Respond(s)
      PROVE  AwaitsOne'
  BY <1>1, <1>5 DEF Accept, Malformed, Respond, LoopTypeOK, vars
<1>6. CASE Drain \/ \E id \in Calls : DispatchEnds(id)
  BY <1>1, <1>6 DEF Drain, DispatchEnds, Take, Finish
<1>7. ASSUME NEW s \in Servers, Dispatch(s) PROVE AwaitsOne'
  <2>1. PICK id \in Calls :
          /\ id[1] = s /\ Call(id)
          /\ loop' = [loop EXCEPT ![s] =
               IF outcome'[id] = "rejected" THEN "accept" ELSE "await"]
    BY <1>7 DEF Dispatch
  <2>2. OpenCalls(s) = {}
    BY <2>1 DEF Call, Ready, OpenCalls
  <2>3. CASE Len(queue) < Depth
    <3>1. outcome' = [outcome EXCEPT ![id] = "open"]
      BY <2>1, <2>3 DEF Call
    <3>2. loop' = [loop EXCEPT ![s] = "await"]
      BY <2>1, <3>1 DEF TypeOK
    <3> QED
      BY <2>1, <2>2, <3>1, <3>2, OthersAwait
  <2>4. CASE ~(Len(queue) < Depth)
    <3>1. outcome' = [outcome EXCEPT ![id] = "rejected"]
      BY <2>1, <2>4 DEF Call
    <3>2. loop' = [loop EXCEPT ![s] = "accept"]
      BY <2>1, <3>1 DEF TypeOK
    <3> QED
      BY <2>1, <2>2, <3>1, <3>2, OthersAwait
  <2> QED
    BY <2>3, <2>4
\* The one open call ends with the answer or with the loop.
<1>8. ASSUME NEW s \in Servers, NEW id \in Calls, id[1] = s, outcome[id] = "open"
      PROVE  OpenCalls(s) \subseteq {id}
  BY <1>8 DEF AwaitsOne, OpenCalls
<1>9. ASSUME NEW s \in Servers, TakeAnswer(s) PROVE AwaitsOne'
  <2>1. PICK id \in Calls : id[1] = s /\ Receive(id)
    BY <1>9 DEF TakeAnswer
  <2>2. outcome[id] = "open" /\ outcome' = [outcome EXCEPT ![id] = "answered"]
    BY <2>1 DEF Receive
  <2>3. loop' = [loop EXCEPT ![s] = "write"]
    BY <1>9 DEF TakeAnswer
  <2> QED
    BY <1>8, <2>1, <2>2, <2>3, OthersAwait
<1>10. ASSUME NEW s \in Servers, StopLoop(s), loop[s] = "await" PROVE AwaitsOne'
  <2>1. PICK id \in Calls : id[1] = s /\ Cancel(id)
    BY <1>10 DEF StopLoop
  <2>2. outcome[id] = "open" /\ outcome' = [outcome EXCEPT ![id] = "cancelled"]
    BY <2>1 DEF Cancel
  <2>3. loop' = [loop EXCEPT ![s] = "ended"]
    BY <1>10 DEF StopLoop
  <2> QED
    BY <1>8, <2>1, <2>2, <2>3, OthersAwait
<1>11. ASSUME NEW s \in Servers, StopLoop(s), loop[s] # "await" PROVE AwaitsOne'
  BY <1>1, <1>11 DEF StopLoop, LoopTypeOK, vars
<1> QED
  BY <1>2, <1>3, <1>4, <1>5, <1>6, <1>7, <1>9, <1>10, <1>11 DEF ServerNext, Loop

LEMMA ServerInvInit == ServerInit => LoopTypeOK /\ SpawnsOnce /\ AwaitsOne
<1> SUFFICES ASSUME ServerInit PROVE LoopTypeOK /\ SpawnsOnce /\ AwaitsOne
  OBVIOUS
<1>1. LoopTypeOK /\ SpawnsOnce
  BY DEF ServerInit, LoopTypeOK, SpawnsOnce
<1>2. AwaitsOne
  BY DEF ServerInit, Init, AwaitsOne, OpenCalls
<1> QED
  BY <1>1, <1>2

\* The invariant gives the count ServerTypeOK speaks of.
LEMMA AwaitsOneCounts == TypeOK /\ LoopTypeOK /\ AwaitsOne => ServerTypeOK
<1> SUFFICES ASSUME TypeOK, LoopTypeOK, AwaitsOne, NEW s \in Servers
             PROVE  Cardinality(OpenCalls(s)) = IF loop[s] = "await" THEN 1 ELSE 0
  BY DEF ServerTypeOK, LoopTypeOK
<1>1. CASE loop[s] = "await"
  <2>1. PICK id \in Calls : OpenCalls(s) = {id}
    BY <1>1 DEF AwaitsOne
  <2> QED
    BY <1>1, <2>1, FS_Singleton
<1>2. CASE loop[s] # "await"
  <2>1. OpenCalls(s) = {}
    BY <1>2 DEF AwaitsOne
  <2> QED
    BY <1>2, <2>1, FS_EmptySet
<1> QED
  BY <1>1, <1>2

\* Every bridge type comes from the refinement, the rest from the invariant.
LEMMA ServerInvariant ==
  ServerSpec => [](TypeOK /\ LoopTypeOK /\ SpawnsOnce /\ AwaitsOne)
<1>1. ServerSpec => []TypeOK
  BY ServersAreCallers, BridgeTypeCorrect, PTL DEF ServersShareBridge
<1>2. TypeOK /\ LoopTypeOK /\ SpawnsOnce /\ AwaitsOne /\ [ServerNext]_serverVars
        => (LoopTypeOK /\ SpawnsOnce /\ AwaitsOne)'
  BY LoopTypeNext, SpawnsOnceNext, AwaitsOneNext
<1> QED
  BY <1>1, <1>2, ServerInvInit, PTL DEF ServerSpec

\* For all servers, requests and depths: the types hold, and an accept loop waits
\* on SERVER_BRIDGE exactly while one call of its server is open.
THEOREM ServerTypeCorrect == ServerSpec => []ServerTypeOK
  BY ServerInvariant, AwaitsOneCounts, PTL

\* A server has one accept loop at most: a closure that spawns one, however late
\* its sync point comes and whatever became of the facet, finds none running.
THEOREM ServerSpawnsOnce ==
  ServerSpec => [](\A s \in Servers : asked[s] => loop[s] = "none")
<1>1. SpawnsOnce => \A s \in Servers : asked[s] => loop[s] = "none"
  BY DEF SpawnsOnce
<1> QED
  BY <1>1, ServerInvariant, PTL
=============================================================================

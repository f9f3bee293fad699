------------------------------ MODULE MdnsProofs ------------------------------
(***************************************************************************)
(* What depends on mDNS, for any applications, servers, hosts and bounds.  *)
(*                                                                         *)
(* ClientResolver: the client driver is a serial worker of CLIENT_BRIDGE   *)
(* whatever its exchange does, and RESOLVER never refuses it.  For that    *)
(* the invariant follows the one lookup the driver awaits: it is queued,   *)
(* held by one mDNS task, answered or lost, never two of these, so that    *)
(* the queue is empty when the driver calls.                               *)
(*                                                                         *)
(* MdnsBrowser: BrowserInv is inductive as it stands.                      *)
(*                                                                         *)
(* MdnsWire: both scanners understand every message of RFC 1035, in which  *)
(* a compressed name matches nothing, for every label; and a packet cut    *)
(* short says nothing the whole does not say.  A scanner's loop is a       *)
(* recursive function, so that it exists and is the only one of its form   *)
(* comes first, each from a least counterexample.  What holds of a name    *)
(* then goes backwards from its end, label by label, and what holds of a   *)
(* packet forwards over its questions and records, whose places are those  *)
(* of the sequences that Wire joins.  On a packet and a cut of it the two  *)
(* cursors move together until the cut one has nothing left to read.       *)
(***************************************************************************)
EXTENDS MCClientResolver, MdnsBrowser, SequenceTheorems, WellFoundedInduction,
        TLAPS

-----------------------------------------------------------------------------
(* The client and the resolver. *)

\* Every step of the client side is one of CLIENT_BRIDGE, or leaves it alone.
LEMMA ClientStepIsBridgeStep ==
  Cl!TypeOK /\ [Next]_vars => [Cl!Next]_clVars
<1> SUFFICES ASSUME Cl!TypeOK, [Next]_vars PROVE [Cl!Next]_clVars
  OBVIOUS
<1> USE DEF clVars, reVars, mdVars
<1>1. ASSUME NEW id \in Cl!Calls,
             SendRequest(id) \/ ReceiveResponse(id) \/ DropRequest(id)
      PROVE  Cl!Next
  BY <1>1 DEF SendRequest, ReceiveResponse, DropRequest, Cl!Next
<1>2. TakeJob => Cl!Next
  BY DEF TakeJob, Cl!Next
<1>3. ASSUME NEW o \in {"response", "error"}, Reply(o) PROVE Cl!Next
  <2>1. PICK id \in clTasks : Cl!Finish(id, o)
    BY <1>3 DEF Reply
  <2>2. id \in Cl!Calls
    BY <2>1 DEF Cl!TypeOK
  <2> QED
    BY <2>1, <2>2 DEF Cl!Next
<1>4. DnsQuery \/ Resolve \/ Resolved \/ Transport => Cl!Next \/ UNCHANGED clVars
  BY <1>3 DEF DnsQuery, Resolve, Resolved, Transport
<1>5. DhcpUp => UNCHANGED clVars
  BY DEF DhcpUp
<1>6. ASSUME NEW s \in Servers, StartServer(s) \/ MDnsTask(s) \/ StopServer(s)
      PROVE  UNCHANGED clVars
  BY <1>6 DEF StartServer, MDnsTask, JoinGroup, TakeLookup, AnswerLookup, StopServer
<1> QED
  BY <1>1, <1>2, <1>4, <1>5, <1>6 DEF Next, Driver, vars

\* The types of an AsyncBridge survive its steps, here for CLIENT_BRIDGE.
LEMMA ClientTypes == Cl!TypeOK /\ [Cl!Next]_clVars => Cl!TypeOK'
<1> SUFFICES ASSUME Cl!TypeOK, [Cl!Next]_clVars PROVE Cl!TypeOK'
  OBVIOUS
<1> USE DEF Cl!TypeOK, clVars
<1>1. clQueue \in Seq(Cl!Calls) /\ Len(clQueue) \in Nat /\ ClientDepth \in Nat \ {0}
  BY ResolverAssumption DEF ResolverAssumption, Cl!BridgeAssumption
<1>2. ASSUME NEW id \in Cl!Calls, Cl!Call(id) PROVE Cl!TypeOK'
  <2>1. clOutcome' \in [Cl!Calls -> Cl!Fate]
    BY <1>2 DEF Cl!Call, Cl!Fate
  <2>2. clQueue' \in Seq(Cl!Calls) /\ Len(clQueue') <= ClientDepth
    <3>1. CASE Len(clQueue) < ClientDepth
      <4>1. clQueue' = Append(clQueue, id)
        BY <1>2, <3>1 DEF Cl!Call
      <4>2. clQueue' \in Seq(Cl!Calls) /\ Len(clQueue') = Len(clQueue) + 1
        BY <1>1, <4>1
      <4> QED
        BY <1>1, <3>1, <4>2
    <3>2. CASE ~(Len(clQueue) < ClientDepth)
      BY <1>2, <3>2 DEF Cl!Call
    <3> QED
      BY <3>1, <3>2
  <2> QED
    BY <1>2, <2>1, <2>2 DEF Cl!Call
<1>3. ASSUME NEW id \in Cl!Calls, Cl!Cancel(id) PROVE Cl!TypeOK'
  BY <1>3 DEF Cl!Cancel, Cl!Fate
<1>4. ASSUME NEW id \in Cl!Calls, Cl!Receive(id) PROVE Cl!TypeOK'
  BY <1>4 DEF Cl!Receive, Cl!Fate, Cl!Cell
<1>5. CASE Cl!Take
  <2>1. clQueue # <<>> /\ clQueue' = Tail(clQueue)
    BY <1>5 DEF Cl!Take
  <2>2. Head(clQueue) \in Cl!Calls /\ clQueue' \in Seq(Cl!Calls)
        /\ Len(clQueue') = Len(clQueue) - 1
    BY <1>1, <2>1
  <2>3. Len(clQueue) <= ClientDepth
    OBVIOUS
  <2>4. Len(clQueue') <= ClientDepth
    BY <1>1, <2>2, <2>3
  <2> QED
    BY <1>5, <2>2, <2>4 DEF Cl!Take
<1>6. ASSUME NEW id \in Cl!Calls, NEW o \in {"response", "error"}, Cl!Finish(id, o)
      PROVE  Cl!TypeOK'
  <2>1. [of |-> id, out |-> o] \in Cl!Answer
    BY DEF Cl!Answer
  <2> QED
    BY <1>6, <2>1 DEF Cl!Finish, Cl!Cell
<1>7. CASE UNCHANGED clVars
  BY <1>7
<1> QED
  BY <1>2, <1>3, <1>4, <1>5, <1>6, <1>7 DEF Cl!Next

LEMMA ClientInit == Init => Cl!Init /\ Cl!TypeOK
<1> SUFFICES ASSUME Init PROVE Cl!Init /\ Cl!TypeOK
  OBVIOUS
<1>1. Cl!Init
  BY DEF Init
<1>2. Len(clQueue) <= ClientDepth /\ clQueue \in Seq(Cl!Calls)
  BY <1>1, ResolverAssumption DEF Cl!Init, ResolverAssumption, Cl!BridgeAssumption
<1> QED
  BY <1>1, <1>2 DEF Cl!Init, Cl!TypeOK, Cl!Fate

\* For all applications, servers and queue sizes: whatever the driver's exchange
\* does, resolving .local names or not, answered or not, the driver is a serial
\* worker of CLIENT_BRIDGE.
THEOREM ClientServesBridge == Spec => ClientIsBridge
<1>1. Spec => []Cl!TypeOK
  BY ClientInit, ClientStepIsBridgeStep, ClientTypes, PTL DEF Spec
<1>2. Cl!vars = clVars
  BY DEF Cl!vars, clVars
<1>3. Cl!TypeOK /\ [Next]_vars => [Cl!Next]_Cl!vars
  BY <1>2, ClientStepIsBridgeStep DEF Cl!vars, clVars
<1> QED
  BY <1>1, <1>3, ClientInit, PTL DEF Spec, ClientIsBridge, Cl!Spec

\* The same for RESOLVER.
LEMMA ResolverTypes == Re!TypeOK /\ [Re!Next]_reVars => Re!TypeOK'
<1> SUFFICES ASSUME Re!TypeOK, [Re!Next]_reVars PROVE Re!TypeOK'
  OBVIOUS
<1> USE DEF Re!TypeOK, reVars
<1>1. reQueue \in Seq(Re!Calls) /\ Len(reQueue) \in Nat /\ ResolverDepth \in Nat \ {0}
  BY ResolverAssumption DEF ResolverAssumption, Re!BridgeAssumption
<1>2. ASSUME NEW id \in Re!Calls, Re!Call(id) PROVE Re!TypeOK'
  <2>1. reOutcome' \in [Re!Calls -> Re!Fate]
    BY <1>2 DEF Re!Call, Re!Fate
  <2>2. reQueue' \in Seq(Re!Calls) /\ Len(reQueue') <= ResolverDepth
    <3>1. CASE Len(reQueue) < ResolverDepth
      <4>1. reQueue' = Append(reQueue, id)
        BY <1>2, <3>1 DEF Re!Call
      <4>2. reQueue' \in Seq(Re!Calls) /\ Len(reQueue') = Len(reQueue) + 1
        BY <1>1, <4>1
      <4> QED
        BY <1>1, <3>1, <4>2
    <3>2. CASE ~(Len(reQueue) < ResolverDepth)
      BY <1>2, <3>2 DEF Re!Call
    <3> QED
      BY <3>1, <3>2
  <2> QED
    BY <1>2, <2>1, <2>2 DEF Re!Call
<1>3. ASSUME NEW id \in Re!Calls, Re!Cancel(id) PROVE Re!TypeOK'
  BY <1>3 DEF Re!Cancel, Re!Fate
<1>4. ASSUME NEW id \in Re!Calls, Re!Receive(id) PROVE Re!TypeOK'
  BY <1>4 DEF Re!Receive, Re!Fate, Re!Cell
<1>5. CASE Re!Take
  <2>1. reQueue # <<>> /\ reQueue' = Tail(reQueue)
    BY <1>5 DEF Re!Take
  <2>2. Head(reQueue) \in Re!Calls /\ reQueue' \in Seq(Re!Calls)
        /\ Len(reQueue') = Len(reQueue) - 1
    BY <1>1, <2>1
  <2>3. Len(reQueue) <= ResolverDepth
    OBVIOUS
  <2>4. Len(reQueue') <= ResolverDepth
    BY <1>1, <2>2, <2>3
  <2> QED
    BY <1>5, <2>2, <2>4 DEF Re!Take
<1>6. ASSUME NEW id \in Re!Calls, NEW o \in {"addr", "none"}, Re!Finish(id, o)
      PROVE  Re!TypeOK'
  <2>1. [of |-> id, out |-> o] \in Re!Answer
    BY DEF Re!Answer
  <2> QED
    BY <1>6, <2>1 DEF Re!Finish, Re!Cell
<1>7. CASE UNCHANGED reVars
  BY <1>7
<1> QED
  BY <1>2, <1>3, <1>4, <1>5, <1>6, <1>7 DEF Re!Next

-----------------------------------------------------------------------------
(* The resolver: who holds which lookup. *)

Looking(rid) == reOutcome[rid] = "open"

\* The client driver serves one job at a time.
DriverJob ==
  /\ dhcp \in BOOLEAN /\ driver \in {"idle", "exchange", "resolving", "transport"}
  /\ (driver = "idle") <=> (clTasks = {})
  /\ \A a, b \in clTasks : a = b

\* Who resolves what: no lookup is held by two mDNS tasks.
Holders ==
  /\ mdns \in [Servers -> MDnsState]
  /\ held \in [Servers -> Re!Calls \cup {None}]
  /\ \A s \in Servers : (mdns[s] = "resolving") <=> (held[s] # None)
  /\ reTasks = {held[s] : s \in Servers} \ {None}
  /\ \A s, t \in Servers : held[s] # None /\ held[s] = held[t] => s = t

\* The driver awaits one lookup at most, which is queued, held or answered but
\* never two of these.
OneLookup ==
  /\ \A a, b \in Re!Calls : Looking(a) /\ Looking(b) => a = b
  /\ driver # "resolving" => \A rid \in Re!Calls : ~Looking(rid)
  /\ Len(reQueue) <= 1
  /\ \A i \in 1..Len(reQueue) : Looking(reQueue[i]) /\ reQueue[i] \notin reTasks
  /\ \A rid \in reTasks : Looking(rid)
  /\ \A rid \in Re!Calls : reSignal[rid] # None =>
       /\ Looking(rid) /\ rid \notin reTasks
       /\ \A i \in 1..Len(reQueue) : reQueue[i] # rid

\* The inductive invariant.
LookupInv ==
  /\ Cl!TypeOK /\ Re!TypeOK
  /\ DriverJob /\ Holders /\ OneLookup /\ ResolverNeverRefuses

\* The steps that neither touch RESOLVER nor what the mDNS tasks hold.
Aside ==
  /\ UNCHANGED <<reVars, held>>
  /\ (driver' = "resolving") <=> (driver = "resolving")
  /\ mdns' \in [Servers -> MDnsState]
  /\ \A s \in Servers : (mdns'[s] = "resolving") <=> (mdns[s] = "resolving")

LEMMA StepKinds ==
  ASSUME [Next]_vars, DriverJob, Holders
  PROVE  \/ Aside \/ Resolve \/ Resolved
         \/ \E s \in Servers : TakeLookup(s) \/ AnswerLookup(s) \/ StopServer(s)
<1> USE DEF reVars, mdVars, Aside
<1>1. CASE DhcpUp \/ UNCHANGED vars
  BY <1>1 DEF DhcpUp, vars, Holders
<1>2. ASSUME NEW id \in Cl!Calls,
             SendRequest(id) \/ ReceiveResponse(id) \/ DropRequest(id)
      PROVE  Aside
  BY <1>2 DEF SendRequest, ReceiveResponse, DropRequest, Holders
<1>3. CASE TakeJob
  BY <1>3 DEF TakeJob, Holders
<1>4. CASE DnsQuery
  BY <1>4 DEF DnsQuery, Reply, Holders
<1>5. CASE Transport
  BY <1>5 DEF Transport, Reply, Holders
<1>6. ASSUME NEW s \in Servers, StartServer(s) \/ JoinGroup(s) PROVE Aside
  BY <1>6 DEF StartServer, JoinGroup, Holders, MDnsState
<1> QED
  BY <1>1, <1>2, <1>3, <1>4, <1>5, <1>6 DEF Next, Driver, MDnsTask

\* Replying ends the one job.
LEMMA ReplyEndsJob ==
  ASSUME DriverJob, NEW o, Reply(o)
  PROVE  driver' = "idle" /\ clTasks' = {}
BY DEF DriverJob, Reply, Cl!Finish

LEMMA DriverJobNext == DriverJob /\ Cl!TypeOK /\ [Next]_vars => DriverJob'
<1> SUFFICES ASSUME DriverJob, Cl!TypeOK, [Next]_vars PROVE DriverJob'
  OBVIOUS
<1> USE DEF clVars, reVars, mdVars
<1>1. CASE DhcpUp \/ UNCHANGED vars
  BY <1>1 DEF DhcpUp, vars, DriverJob
<1>2. ASSUME NEW id \in Cl!Calls,
             SendRequest(id) \/ ReceiveResponse(id) \/ DropRequest(id)
      PROVE  DriverJob'
  BY <1>2
     DEF SendRequest, ReceiveResponse, DropRequest, Cl!Call, Cl!Receive, Cl!Cancel,
         DriverJob
<1>3. CASE TakeJob
  BY <1>3 DEF TakeJob, Cl!Take, DriverJob
<1>4. ASSUME UNCHANGED <<clVars, dhcp>>, driver # "idle",
             driver' \in {"resolving", "transport"}
      PROVE  DriverJob'
  BY <1>4 DEF DriverJob
<1>5. ASSUME NEW o, Reply(o), UNCHANGED dhcp PROVE DriverJob'
  BY <1>5, ReplyEndsJob DEF DriverJob
<1>6. CASE DnsQuery
  BY <1>4, <1>5, <1>6 DEF DnsQuery
<1>7. CASE Resolve
  BY <1>4, <1>5, <1>7 DEF Resolve
<1>8. CASE Resolved
  BY <1>4, <1>5, <1>8 DEF Resolved
<1>9. CASE Transport
  BY <1>5, <1>9 DEF Transport
<1>10. ASSUME NEW s \in Servers, StartServer(s) \/ MDnsTask(s) \/ StopServer(s)
       PROVE  DriverJob'
  BY <1>10 DEF StartServer, MDnsTask, JoinGroup, TakeLookup, AnswerLookup, StopServer,
               DriverJob
<1> QED
  BY <1>1, <1>2, <1>3, <1>6, <1>7, <1>8, <1>9, <1>10 DEF Next, Driver

LEMMA AsideKeeps ==
  ASSUME LookupInv, Aside
  PROVE  Re!TypeOK' /\ Holders' /\ OneLookup' /\ ResolverNeverRefuses'
<1> USE DEF LookupInv, Aside, reVars
<1>1. Re!TypeOK' /\ ResolverNeverRefuses'
  BY DEF Re!TypeOK, ResolverNeverRefuses
<1>2. Holders'
  BY DEF Holders
<1>3. OneLookup'
  BY DEF OneLookup, Looking
<1> QED
  BY <1>1, <1>2, <1>3

\* The driver calls RESOLVER: it awaits no other lookup, so the queue is empty and
\* takes this one.
LEMMA ResolveKeeps ==
  ASSUME LookupInv, Resolve
  PROVE  Re!TypeOK' /\ Holders' /\ OneLookup' /\ ResolverNeverRefuses'
<1> USE DEF LookupInv
<1>1. PICK rid \in Re!Calls :
        /\ Re!Call(rid)
        /\ IF reOutcome'[rid] = "rejected"
           THEN Reply("error")
           ELSE driver' = "resolving" /\ UNCHANGED clVars
  BY DEF Resolve
<1>2. \A id \in Re!Calls : ~Looking(id)
  BY DEF Resolve, OneLookup
<1>3. reQueue \in Seq(Re!Calls) /\ Len(reQueue) \in Nat
  BY DEF Re!TypeOK
<1>4. Len(reQueue) = 0
  <2> SUFFICES ASSUME Len(reQueue) # 0 PROVE FALSE
    OBVIOUS
  <2>1. 1 \in 1..Len(reQueue)
    BY <1>3
  <2>2. reQueue[1] \in Re!Calls
    BY <1>3, <2>1
  <2> QED
    BY <1>2, <2>1, <2>2 DEF OneLookup
<1>5. Len(reQueue) < ResolverDepth
  BY <1>4, ResolverAssumption DEF ResolverAssumption, Re!BridgeAssumption
<1>6. /\ reOutcome[rid] = "new" /\ reOutcome' = [reOutcome EXCEPT ![rid] = "open"]
      /\ reQueue' = Append(reQueue, rid) /\ UNCHANGED <<reResult, reTasks, reSignal>>
  BY <1>1, <1>5 DEF Re!Call, Re!Ready
<1>7. reOutcome' \in [Re!Calls -> Re!Fate] /\ reOutcome'[rid] = "open"
      /\ \A id \in Re!Calls : id # rid => reOutcome'[id] = reOutcome[id]
  BY <1>6 DEF Re!TypeOK, Re!Fate
<1>8. driver' = "resolving" /\ UNCHANGED <<dhcp, mdVars>>
  BY <1>1, <1>7 DEF Resolve
<1>9. reQueue' \in Seq(Re!Calls) /\ Len(reQueue') = 1 /\ reQueue'[1] = rid
  BY <1>3, <1>4, <1>6
<1>10. Re!TypeOK'
  <2>1. Len(reQueue') <= ResolverDepth
    BY <1>9, ResolverAssumption DEF ResolverAssumption, Re!BridgeAssumption
  <2> QED
    BY <1>6, <1>7, <1>9, <2>1 DEF Re!TypeOK
<1>11. Holders'
  BY <1>6, <1>8 DEF Holders, mdVars
<1>12. reTasks \subseteq Re!Calls
  BY DEF Re!TypeOK
<1>13. reTasks = {} /\ \A id \in Re!Calls : reSignal[id] = None
  BY <1>2, <1>12 DEF OneLookup
<1>14. OneLookup'
  BY <1>2, <1>6, <1>7, <1>8, <1>9, <1>13 DEF OneLookup, Looking
<1>15. ResolverNeverRefuses'
  BY <1>6, <1>7 DEF ResolverNeverRefuses
<1> QED
  BY <1>10, <1>11, <1>14, <1>15

\* The answer is taken: nothing is awaited any more.
LEMMA ResolvedKeeps ==
  ASSUME LookupInv, Resolved
  PROVE  Re!TypeOK' /\ Holders' /\ OneLookup' /\ ResolverNeverRefuses'
<1> USE DEF LookupInv
<1>1. PICK rid \in Re!Calls :
        /\ Re!Receive(rid)
        /\ IF reResult'[rid].out = "addr"
           THEN driver' = "transport" /\ UNCHANGED clVars
           ELSE Reply("error")
  BY DEF Resolved
<1>2. driver' # "resolving" /\ UNCHANGED <<dhcp, mdVars>>
  BY <1>1 DEF Resolved, Reply
<1>3. /\ Looking(rid) /\ reSignal[rid] # None
      /\ reOutcome' = [reOutcome EXCEPT ![rid] = "answered"]
      /\ reSignal' = [reSignal EXCEPT ![rid] = None]
      /\ UNCHANGED <<reQueue, reTasks>>
  BY <1>1 DEF Re!Receive, Re!Cell, Looking
<1>4. Re!TypeOK'
  BY <1>1, ResolverTypes DEF Re!Next, reVars
<1>5. Holders'
  BY <1>2, <1>3 DEF Holders, mdVars
<1>6. \A id \in Re!Calls : reOutcome'[id] = IF id = rid THEN "answered" ELSE reOutcome[id]
  BY <1>3 DEF Re!TypeOK
<1>7. \A id \in Re!Calls : (~Looking(id))'
  BY <1>3, <1>6 DEF OneLookup, Looking
<1>8. reTasks = {} /\ Len(reQueue) = 0
  <2>1. rid \notin reTasks /\ \A i \in 1..Len(reQueue) : reQueue[i] # rid
    BY <1>3 DEF OneLookup
  <2>2. reTasks \subseteq Re!Calls /\ reQueue \in Seq(Re!Calls) /\ Len(reQueue) \in Nat
    BY DEF Re!TypeOK
  <2>3. \A id \in reTasks : id = rid
    BY <1>3, <2>2 DEF OneLookup
  <2>4. \A i \in 1..Len(reQueue) : reQueue[i] \in Re!Calls
    BY <2>2
  <2>5. \A i \in 1..Len(reQueue) : reQueue[i] = rid
    BY <1>3, <2>4 DEF OneLookup
  <2> QED
    BY <2>1, <2>2, <2>3, <2>5
<1>9. \A id \in Re!Calls : reSignal'[id] = None
  <2>1. \A id \in Re!Calls : id # rid => reSignal[id] = None
    BY <1>3 DEF OneLookup
  <2> QED
    BY <1>3, <2>1 DEF Re!TypeOK
<1>10. OneLookup'
  BY <1>2, <1>3, <1>7, <1>8, <1>9 DEF OneLookup
<1>11. ResolverNeverRefuses'
  BY <1>6 DEF ResolverNeverRefuses
<1> QED
  BY <1>4, <1>5, <1>10, <1>11

\* An mDNS task takes the queued lookup, which no other task holds.
LEMMA TakeLookupKeeps ==
  ASSUME LookupInv, NEW s \in Servers, TakeLookup(s)
  PROVE  Re!TypeOK' /\ Holders' /\ OneLookup' /\ ResolverNeverRefuses'
<1> USE DEF LookupInv
<1> DEFINE h == Head(reQueue)
<1>1. /\ mdns[s] = "idle" /\ reQueue # <<>>
      /\ reTasks' = reTasks \cup {h} /\ reQueue' = Tail(reQueue)
      /\ held' = [held EXCEPT ![s] = h] /\ mdns' = [mdns EXCEPT ![s] = "resolving"]
      /\ UNCHANGED <<reOutcome, reResult, reSignal, clVars, dhcp, driver>>
  BY DEF TakeLookup, Re!Take
<1>2. reQueue \in Seq(Re!Calls) /\ Len(reQueue) \in Nat
  BY DEF Re!TypeOK
<1>3. Len(reQueue) = 1
  <2>1. Len(reQueue) <= 1
    BY DEF OneLookup
  <2>2. Len(reQueue) # 0
    BY <1>1, <1>2
  <2>3. \A n \in Nat : n <= 1 /\ n # 0 => n = 1
    OBVIOUS
  <2> HIDE DEF LookupInv
  <2> QED
    BY <1>2, <2>1, <2>2, <2>3
<1>4. h = reQueue[1] /\ h \in Re!Calls /\ Len(reQueue') = 0
  BY <1>1, <1>2, <1>3
<1> HIDE DEF h
<1>5. Looking(h) /\ h \notin reTasks /\ h # None
  BY <1>3, <1>4, ResolverAssumption DEF OneLookup, ResolverAssumption
<1>6. Re!TypeOK'
  <2>1. Re!Take
    BY DEF TakeLookup
  <2> QED
    BY <2>1, ResolverTypes DEF Re!Next
<1>7. held[s] = None
  BY <1>1 DEF Holders
<1>8. \A t \in Servers : held'[t] = IF t = s THEN h ELSE held[t]
  BY <1>1 DEF Holders
<1>9. Holders'
  <2>1. mdns' \in [Servers -> MDnsState] /\ held' \in [Servers -> Re!Calls \cup {None}]
    BY <1>1, <1>4 DEF Holders, MDnsState
  <2>2. \A t \in Servers : (mdns'[t] = "resolving") <=> (held'[t] # None)
    BY <1>1, <1>5, <1>8 DEF Holders
  <2>3. reTasks' = {held'[t] : t \in Servers} \ {None}
    BY <1>1, <1>5, <1>7, <1>8 DEF Holders
  <2>4. \A t \in Servers : held[t] # h
    BY <1>5 DEF Holders
  <2>5. \A t, u \in Servers : held'[t] # None /\ held'[t] = held'[u] => t = u
    BY <1>8, <2>4 DEF Holders
  <2> QED
    BY <2>1, <2>2, <2>3, <2>5 DEF Holders
<1>10. OneLookup'
  <2>1. \A id \in Re!Calls : reSignal'[id] = None \/ id # h
    BY <1>1, <1>3, <1>4 DEF OneLookup
  <2> QED
    BY <1>1, <1>4, <1>5, <2>1 DEF OneLookup, Looking
<1>11. ResolverNeverRefuses'
  BY <1>1 DEF ResolverNeverRefuses
<1> QED
  BY <1>6, <1>9, <1>10, <1>11

\* Letting go of what task s holds, and of nothing else.
LEMMA ReleaseKeeps ==
  ASSUME Holders, NEW s \in Servers, held' = [held EXCEPT ![s] = None],
         reTasks' = reTasks \ {held[s]}, NEW m \in MDnsState, m # "resolving",
         mdns' = [mdns EXCEPT ![s] = m]
  PROVE  Holders'
<1>1. mdns' \in [Servers -> MDnsState] /\ held' \in [Servers -> Re!Calls \cup {None}]
  BY DEF Holders
<1>2. \A t \in Servers : held'[t] = IF t = s THEN None ELSE held[t]
  BY DEF Holders
<1>3. \A t \in Servers : (mdns'[t] = "resolving") <=> (held'[t] # None)
  BY <1>2 DEF Holders
<1>4. \A t \in Servers : t # s /\ held[t] # None => held[t] # held[s]
  BY DEF Holders
<1>5. reTasks' = {held'[t] : t \in Servers} \ {None}
  BY <1>2, <1>4 DEF Holders
<1>6. \A t, u \in Servers : held'[t] # None /\ held'[t] = held'[u] => t = u
  BY <1>2 DEF Holders
<1> QED
  BY <1>1, <1>3, <1>5, <1>6 DEF Holders

\* A task answers the lookup it holds: it is neither queued nor answered before.
LEMMA AnswerLookupKeeps ==
  ASSUME LookupInv, NEW s \in Servers, AnswerLookup(s)
  PROVE  Re!TypeOK' /\ Holders' /\ OneLookup' /\ ResolverNeverRefuses'
<1> USE DEF LookupInv
<1>1. PICK o \in {"addr", "none"} : Re!Finish(held[s], o)
  BY DEF AnswerLookup
<1>2. /\ mdns[s] = "resolving" /\ held[s] \in reTasks
      /\ reTasks' = reTasks \ {held[s]}
      /\ reSignal' = [reSignal EXCEPT ![held[s]] = [of |-> held[s], out |-> o]]
      /\ held' = [held EXCEPT ![s] = None] /\ mdns' = [mdns EXCEPT ![s] = "idle"]
      /\ UNCHANGED <<reOutcome, reResult, reQueue, clVars, dhcp, driver>>
  BY <1>1 DEF AnswerLookup, Re!Finish, Re!Cell
<1>3. held[s] \in Re!Calls
  BY <1>2 DEF Re!TypeOK
<1>4. Re!TypeOK'
  BY <1>1, <1>3, ResolverTypes DEF Re!Next
<1>5. Holders'
  <2>1. "idle" \in MDnsState /\ "idle" # "resolving"
    BY DEF MDnsState
  <2> QED
    BY <1>2, <2>1, ReleaseKeeps
<1>6. Looking(held[s]) /\ \A i \in 1..Len(reQueue) : reQueue[i] # held[s]
  BY <1>2 DEF OneLookup
<1>7. \A id \in Re!Calls : id # held[s] => reSignal'[id] = reSignal[id]
  BY <1>2 DEF Re!TypeOK
<1>8. OneLookup'
  BY <1>2, <1>6, <1>7 DEF OneLookup, Looking
<1>9. ResolverNeverRefuses'
  BY <1>2 DEF ResolverNeverRefuses
<1> QED
  BY <1>4, <1>5, <1>8, <1>9

\* A stopped server takes the lookup it holds with it; the driver awaits it still.
LEMMA StopServerKeeps ==
  ASSUME LookupInv, NEW s \in Servers, StopServer(s)
  PROVE  Re!TypeOK' /\ Holders' /\ OneLookup' /\ ResolverNeverRefuses'
<1> USE DEF LookupInv
<1>1. /\ held' = [held EXCEPT ![s] = None] /\ mdns' = [mdns EXCEPT ![s] = "ended"]
      /\ reTasks' = reTasks \ {held[s]}
      /\ UNCHANGED <<reOutcome, reResult, reQueue, reSignal, driver>>
  BY DEF StopServer
<1>2. Re!TypeOK'
  BY <1>1 DEF Re!TypeOK
<1>3. Holders'
  <2>1. "ended" \in MDnsState /\ "ended" # "resolving"
    BY DEF MDnsState
  <2> QED
    BY <1>1, <2>1, ReleaseKeeps
<1>4. OneLookup'
  BY <1>1 DEF OneLookup, Looking
<1>5. ResolverNeverRefuses'
  BY <1>1 DEF ResolverNeverRefuses
<1> QED
  BY <1>2, <1>3, <1>4, <1>5

LEMMA LookupInit == Init => LookupInv
<1> SUFFICES ASSUME Init PROVE LookupInv
  OBVIOUS
<1>1. Re!Init /\ driver = "idle" /\ dhcp = FALSE
      /\ mdns = [s \in Servers |-> "absent"] /\ held = [s \in Servers |-> None]
  BY DEF Init
<1>2. reQueue \in Seq(Re!Calls) /\ Len(reQueue) = 0 /\ Len(reQueue) <= ResolverDepth
  BY <1>1, ResolverAssumption DEF Re!Init, ResolverAssumption, Re!BridgeAssumption
<1>3. Re!TypeOK
  BY <1>1, <1>2 DEF Re!Init, Re!TypeOK, Re!Fate
<1>4. DriverJob
  BY <1>1, ClientInit DEF Cl!Init, DriverJob
<1>5. Holders
  BY <1>1 DEF Re!Init, Holders, MDnsState
<1>6. OneLookup
  BY <1>1, <1>2 DEF Re!Init, OneLookup, Looking
<1>7. ResolverNeverRefuses
  BY <1>1 DEF Re!Init, ResolverNeverRefuses
<1> QED
  BY <1>3, <1>4, <1>5, <1>6, <1>7, ClientInit DEF LookupInv

LEMMA LookupNext == LookupInv /\ [Next]_vars => LookupInv'
<1> SUFFICES ASSUME LookupInv, [Next]_vars PROVE LookupInv'
  OBVIOUS
<1>1. Cl!TypeOK'
  BY ClientStepIsBridgeStep, ClientTypes DEF LookupInv
<1>2. DriverJob'
  BY DriverJobNext DEF LookupInv
<1>3. Re!TypeOK' /\ Holders' /\ OneLookup' /\ ResolverNeverRefuses'
  BY StepKinds, AsideKeeps, ResolveKeeps, ResolvedKeeps, TakeLookupKeeps,
     AnswerLookupKeeps, StopServerKeeps DEF LookupInv
<1> QED
  BY <1>1, <1>2, <1>3 DEF LookupInv

\* For all applications, servers and queue sizes, with servers that come and go:
\* the types hold, every lookup is held by one mDNS task at most, and RESOLVER
\* never refuses the driver, so a lookup's None always comes from a task.
THEOREM ResolverSafe == Spec => []ResolverInv
<1>1. LookupInv => ResolverInv
  BY DEF LookupInv, ResolverInv, TypeOK, DriverJob, Holders
<1> QED
  BY <1>1, LookupInit, LookupNext, PTL DEF Spec

-----------------------------------------------------------------------------
(* The browser. *)

LEMMA ToSetAppend ==
  ASSUME NEW S, NEW q \in Seq(S), NEW x \in S
  PROVE  ToSet(Append(q, x)) = ToSet(q) \cup {x}
<1> DEFINE r == Append(q, x)
           n == Len(q)
<1>1. /\ n \in Nat /\ DOMAIN q = 1..n /\ DOMAIN r = 1..(n + 1)
      /\ \A i \in 1..n : r[i] = q[i]
      /\ r[n + 1] = x
  OBVIOUS
<1>2. 1..(n + 1) = (1..n) \cup {n + 1}
  BY <1>1
<1> HIDE DEF r, n
<1>3. {r[i] : i \in 1..(n + 1)} = {q[i] : i \in 1..n} \cup {x}
  BY <1>1, <1>2
<1> QED
  BY <1>1, <1>3 DEF ToSet, r

LEMMA ToSetSplit ==
  ASSUME NEW S, NEW q \in Seq(S), q # <<>>
  PROVE  /\ Head(q) \in S /\ Tail(q) \in Seq(S) /\ Len(Tail(q)) = Len(q) - 1
         /\ ToSet(q) \subseteq {Head(q)} \cup ToSet(Tail(q))
<1>1. /\ Head(q) = q[1] /\ Head(q) \in S /\ Len(q) \in Nat \ {0}
      /\ Tail(q) \in Seq(S) /\ Len(Tail(q)) = Len(q) - 1
      /\ \A i \in 1..(Len(q) - 1) : Tail(q)[i] = q[i + 1]
  OBVIOUS
<1>2. ASSUME NEW i \in 1..Len(q) PROVE q[i] \in {Head(q)} \cup ToSet(Tail(q))
  <2>1. CASE i = 1
    BY <1>1, <2>1
  <2>2. CASE i # 1
    <3>1. i - 1 \in 1..Len(Tail(q)) /\ Tail(q)[i - 1] = q[i]
      BY <1>1, <2>2
    <3>2. DOMAIN Tail(q) = 1..Len(Tail(q))
      BY <1>1
    <3> QED
      BY <3>1, <3>2 DEF ToSet
  <2> QED
    BY <2>1, <2>2
<1>3. DOMAIN q = 1..Len(q)
  OBVIOUS
<1> QED
  BY <1>1, <1>2, <1>3 DEF ToSet

\* The constants a step of the browser compares its counters with.
LEMMA BrowserBounds ==
  /\ Interval \in Nat \ {0} /\ Depth \in Nat \ {0} /\ SocketDepth \in Nat \ {0}
  /\ MaxChatter \in Nat /\ MaxLost \in Nat /\ Chatter \notin Hosts
BY BrowserAssumption DEF BrowserAssumption

Senders == Hosts \cup {Chatter}

\* A query has every host answer, or is lost, which is remembered.
LEMMA QueryAsks ==
  ASSUME Query, BrowserTypeOK
  PROVE  /\ quiet' \in 0..Interval /\ due' \subseteq Hosts /\ dropped' \in BOOLEAN
         /\ lost' \in 0..MaxLost
         /\ ~dropped' => due' = Hosts
<1>1. lost' \in 0..MaxLost
  BY BrowserBounds DEF Query, BrowserTypeOK
<1>2. quiet' \in 0..Interval
  BY BrowserBounds DEF Query
<1>3. CASE due' = Hosts /\ dropped' = FALSE
  BY <1>1, <1>2, <1>3
<1>4. CASE dropped' = TRUE /\ UNCHANGED due
  BY <1>1, <1>2, <1>4 DEF BrowserTypeOK
<1> QED
  BY <1>3, <1>4 DEF Query

\* What arrives is buffered, or its loss is remembered if it is an answer.
LEMMA ArriveKeeps ==
  ASSUME NEW h \in Senders, Arrive(h), BrowserTypeOK
  PROVE  /\ rx' \in Seq(Senders) /\ Len(rx') <= SocketDepth /\ dropped' \in BOOLEAN
         /\ ToSet(rx) \subseteq ToSet(rx') /\ (dropped => dropped')
         /\ h \in Hosts /\ ~dropped' => h \in ToSet(rx')
<1>1. rx \in Seq(Senders) /\ Len(rx) \in Nat /\ Len(rx) <= SocketDepth
  BY DEF BrowserTypeOK, Senders
<1>2. CASE listen = AnyAddress /\ Len(rx) < SocketDepth
  <2>1. rx' = Append(rx, h) /\ UNCHANGED dropped
    BY <1>2 DEF Arrive
  <2>2. ToSet(rx') = ToSet(rx) \cup {h}
    BY <1>1, <2>1, ToSetAppend
  <2>3. rx' \in Seq(Senders) /\ Len(rx') = Len(rx) + 1
    BY <1>1, <2>1
  <2>4. Len(rx') <= SocketDepth
    BY <1>1, <1>2, <2>3, BrowserBounds
  <2> QED
    BY <2>1, <2>2, <2>3, <2>4 DEF BrowserTypeOK
<1>3. CASE ~(listen = AnyAddress /\ Len(rx) < SocketDepth)
  <2>1. Drop(h) /\ UNCHANGED rx
    BY <1>3 DEF Arrive
  <2> QED
    BY <1>1, <2>1 DEF Drop, BrowserTypeOK
<1> QED
  BY <1>2, <1>3

LEMMA BrowserInitInv == BrowserInit => BrowserInv
<1> SUFFICES ASSUME BrowserInit PROVE BrowserInv
  OBVIOUS
<1>1. rx \in Seq(Senders) /\ Len(rx) = 0 /\ packets \in Seq(Senders) /\ Len(packets) = 0
  BY DEF BrowserInit
<1>2. BrowserTypeOK
  <2>1. Len(rx) <= SocketDepth /\ Len(packets) <= Depth
    BY <1>1, BrowserBounds
  <2>2. quiet \in 0..Interval /\ chatter \in 0..MaxChatter /\ lost \in 0..MaxLost
    BY BrowserBounds DEF BrowserInit
  <2> QED
    BY <1>1, <2>1, <2>2 DEF BrowserInit, BrowserTypeOK, Senders
<1>3. NothingVanishes
  BY DEF BrowserInit, NothingVanishes
<1> QED
  BY <1>2, <1>3 DEF BrowserInv

LEMMA BrowserNextInv == BrowserInv /\ [BrowserNext]_browserVars => BrowserInv'
<1> SUFFICES ASSUME BrowserTypeOK, NothingVanishes, [BrowserNext]_browserVars
             PROVE  BrowserTypeOK' /\ NothingVanishes'
  BY DEF BrowserInv
<1> USE DEF ecsVars, netVars
<1>1. CASE PublishStack \/ StartPending \/ UNCHANGED browserVars
  BY <1>1 DEF PublishStack, StartPending, browserVars, BrowserTypeOK, NothingVanishes
<1>2. CASE DrainPackets
  <2>1. packets' = <<>> /\ known' = known \cup (ToSet(packets) \cap Hosts)
    BY <1>2 DEF DrainPackets
  <2>2. packets' \in Seq(Senders) /\ Len(packets') = 0
    BY <2>1
  <2>3. BrowserTypeOK'
    BY <1>2, <2>1, <2>2, BrowserBounds DEF DrainPackets, BrowserTypeOK, Senders
  <2>4. NothingVanishes'
    BY <1>2, <2>1 DEF DrainPackets, NothingVanishes
  <2> QED
    BY <2>3, <2>4
<1>3. CASE Start
  <2>1. CASE task' = "up" /\ listen' = ListenOn(Unspecified) /\ Query
    <3>1. UNCHANGED <<ecsVars, rx, chatter>>
      BY <1>3 DEF Start
    <3>2. BrowserTypeOK'
      BY <2>1, <3>1, QueryAsks DEF BrowserTypeOK, ListenOn
    <3>3. NothingVanishes'
      BY <2>1, <3>1, QueryAsks DEF NothingVanishes
    <3> QED
      BY <3>2, <3>3
  <2>2. CASE task' = "ended" /\ UNCHANGED <<listen, quiet, due, dropped, lost>>
    BY <1>3, <2>2 DEF Start, BrowserTypeOK, NothingVanishes
  <2> QED
    BY <1>3, <2>1, <2>2 DEF Start
<1>4. CASE Receive
  <2>1. /\ rx # <<>> /\ rx \in Seq(Senders) /\ rx' = Tail(rx) /\ Len(rx) <= SocketDepth
        /\ packets \in Seq(Senders) /\ Len(packets) \in Nat /\ Len(packets) <= Depth
    BY <1>4 DEF Receive, BrowserTypeOK, Senders
  <2>2. /\ Head(rx) \in Senders /\ rx' \in Seq(Senders) /\ Len(rx') = Len(rx) - 1
        /\ ToSet(rx) \subseteq {Head(rx)} \cup ToSet(rx')
    BY <2>1, ToSetSplit
  <2>3. Len(rx') <= SocketDepth
    <3>1. Len(rx) \in Nat
      BY <2>1
    <3> QED
      BY <2>1, <2>2, <3>1, BrowserBounds
  <2>4. quiet' \in 0..Interval
    BY <1>4, BrowserBounds DEF Receive
  <2>5. UNCHANGED <<stack, task, listen, due, known, netVars>>
    BY <1>4 DEF Receive
  <2>6. CASE Len(packets) < Depth
    <3>1. packets' = Append(packets, Head(rx)) /\ UNCHANGED dropped
      BY <1>4, <2>6 DEF Receive
    <3>2. packets' \in Seq(Senders) /\ Len(packets') = Len(packets) + 1
      BY <2>1, <2>2, <3>1
    <3>3. Len(packets') <= Depth
      BY <2>1, <2>6, <3>2, BrowserBounds
    <3>4. ToSet(packets') = ToSet(packets) \cup {Head(rx)}
      BY <2>1, <2>2, <3>1, ToSetAppend
    <3>5. BrowserTypeOK'
      BY <2>2, <2>3, <2>4, <2>5, <3>1, <3>2, <3>3 DEF BrowserTypeOK, Senders
    <3>6. NothingVanishes'
      BY <2>2, <2>5, <3>1, <3>4 DEF NothingVanishes
    <3> QED
      BY <3>5, <3>6
  <2>7. CASE ~(Len(packets) < Depth)
    <3>1. Drop(Head(rx)) /\ UNCHANGED packets
      BY <1>4, <2>7 DEF Receive
    <3>2. BrowserTypeOK'
      BY <2>2, <2>3, <2>4, <2>5, <3>1 DEF Drop, BrowserTypeOK, Senders
    <3>3. NothingVanishes'
      BY <2>2, <2>5, <3>1 DEF Drop, NothingVanishes
    <3> QED
      BY <3>2, <3>3
  <2> QED
    BY <2>6, <2>7
<1>5. CASE Requery
  <2>1. Query /\ UNCHANGED <<ecsVars, task, listen, rx, chatter>>
    BY <1>5 DEF Requery
  <2>2. BrowserTypeOK'
    BY <2>1, QueryAsks DEF BrowserTypeOK
  <2>3. NothingVanishes'
    BY <2>1, QueryAsks DEF NothingVanishes
  <2> QED
    BY <2>2, <2>3
<1>6. ASSUME NEW h \in Hosts, HostAnswers(h) PROVE BrowserTypeOK' /\ NothingVanishes'
  <2>1. due' = due \ {h} /\ UNCHANGED <<ecsVars, task, listen, quiet, chatter>>
    BY <1>6 DEF HostAnswers
  <2>2. CASE Arrive(h) /\ UNCHANGED lost
    <3>1. /\ rx' \in Seq(Senders) /\ Len(rx') <= SocketDepth /\ dropped' \in BOOLEAN
          /\ ToSet(rx) \subseteq ToSet(rx') /\ (dropped => dropped')
          /\ ~dropped' => h \in ToSet(rx')
      <4>1. h \in Senders
        BY DEF Senders
      <4> QED
        BY <2>2, <4>1, ArriveKeeps
    <3>2. BrowserTypeOK'
      BY <2>1, <2>2, <3>1 DEF BrowserTypeOK, Senders
    <3>3. NothingVanishes'
      <4> SUFFICES ASSUME task' = "up", ~dropped', NEW x \in Hosts
                   PROVE  x \in known' \cup due' \cup ToSet(rx') \cup ToSet(packets')
        BY DEF NothingVanishes
      <4>1. ~dropped /\ UNCHANGED <<task, known, packets>>
        BY <2>1, <3>1
      <4>2. x \in known \cup due \cup ToSet(rx) \cup ToSet(packets)
        BY <4>1 DEF NothingVanishes
      <4>3. CASE x = h
        BY <3>1, <4>3
      <4>4. CASE x # h
        BY <2>1, <3>1, <4>1, <4>2, <4>4
      <4> QED
        BY <4>3, <4>4
    <3> QED
      BY <3>2, <3>3
  <2>3. CASE lost < MaxLost /\ lost' = lost + 1 /\ Drop(h) /\ UNCHANGED rx
    <3>1. lost' \in 0..MaxLost
      BY <2>3, BrowserBounds DEF BrowserTypeOK
    <3>2. dropped'
      BY <2>3, Zenon DEF Drop
    <3>3. dropped' \in BOOLEAN
      BY <2>3 DEF Drop
    <3>4. BrowserTypeOK'
      BY <2>1, <2>3, <3>1, <3>3 DEF BrowserTypeOK
    <3>5. NothingVanishes'
      BY <3>2 DEF NothingVanishes
    <3> QED
      BY <3>4, <3>5
  <2> QED
    BY <1>6, <2>2, <2>3 DEF HostAnswers
<1>7. CASE Chatters
  <2>1. /\ Arrive(Chatter) /\ UNCHANGED <<ecsVars, task, listen, quiet, due, lost>>
        /\ chatter < MaxChatter /\ chatter' = chatter + 1
    BY <1>7 DEF Chatters
  <2>2. /\ rx' \in Seq(Senders) /\ Len(rx') <= SocketDepth /\ dropped' \in BOOLEAN
        /\ ToSet(rx) \subseteq ToSet(rx') /\ (dropped => dropped')
    <3>1. Chatter \in Senders
      BY DEF Senders
    <3> QED
      BY <2>1, <3>1, ArriveKeeps
  <2>3. chatter' \in 0..MaxChatter
    BY <2>1, BrowserBounds DEF BrowserTypeOK
  <2>4. BrowserTypeOK'
    BY <2>1, <2>2, <2>3 DEF BrowserTypeOK, Senders
  <2>5. NothingVanishes'
    <3> SUFFICES ASSUME task' = "up", ~dropped', NEW x \in Hosts
                 PROVE  x \in known' \cup due' \cup ToSet(rx') \cup ToSet(packets')
      BY DEF NothingVanishes
    <3>1. ~dropped /\ UNCHANGED <<task, known, due, packets>>
      BY <2>1, <2>2
    <3>2. x \in known \cup due \cup ToSet(rx) \cup ToSet(packets)
      BY <3>1 DEF NothingVanishes
    <3> QED
      BY <2>2, <3>1, <3>2
  <2> QED
    BY <2>4, <2>5
<1>8. CASE Tick
  <2>1. quiet' \in 0..Interval
    BY <1>8, BrowserBounds DEF Tick, BrowserTypeOK
  <2> QED
    BY <1>8, <2>1 DEF Tick, BrowserTypeOK, NothingVanishes
<1> QED
  BY <1>1, <1>2, <1>3, <1>4, <1>5, <1>6, <1>7, <1>8 DEF BrowserNext

\* For any hosts, capacities and losses: the socket buffer and PACKETS stay within
\* their bounds, and an answer to the last query is known, still to come, buffered
\* or queued unless one was dropped, so what the browser misses is always told.
THEOREM NoAnswerVanishes == BrowserSpec => []BrowserInv
  BY BrowserInitInv, BrowserNextInv, PTL DEF BrowserSpec


-----------------------------------------------------------------------------
(* The packets.  Recursive functions, one that counts up and one that moves *)
(* on: that such a function exists and that there is no other is proved once *)
(* for each form, from a least counterexample.                              *)

LEMMA LeastNat ==
  ASSUME NEW S \in SUBSET Nat, S # {}
  PROVE  \E m \in S : \A k \in S : m <= k
<1>1. IsWellFoundedOn(OpToRel(<, Nat), Nat)
  BY NatLessThanWellFounded
<1>2. PICK m \in S : \A k \in S : ~(<<k, m>> \in OpToRel(<, Nat))
  <2> HIDE DEF OpToRel
  <2> QED
    BY <1>1, WFMin
<1>3. \A k \in S : ~(k < m)
  BY <1>2 DEF OpToRel
<1> QED
  BY <1>3

\* A set that holds the last place, and every place whose successor it holds.
LEMMA CountDown ==
  ASSUME NEW n \in Nat, NEW S, n + 1 \in S, \A i \in 1..n : i + 1 \in S => i \in S
  PROVE  \A i \in 1 .. n + 1 : i \in S
<1> DEFINE Missing == {k \in Nat : k <= n /\ n + 1 - k \notin S}
<1>1. ASSUME Missing # {} PROVE FALSE
  <2>1. PICK m \in Missing : \A k \in Missing : m <= k
    BY <1>1, LeastNat
  <2>2. m # 0 /\ m \in Nat /\ m <= n /\ n + 1 - m \notin S
    BY <2>1
  <2>3. m - 1 \in Nat /\ m - 1 <= n /\ ~(m <= m - 1)
    BY <2>2
  <2>4. m - 1 \notin Missing
    BY <2>1, <2>3
  <2>5. (n + 1 - m) + 1 = n + 1 - (m - 1) /\ n + 1 - m \in 1..n
    BY <2>2
  <2> QED
    BY <2>2, <2>3, <2>4, <2>5
<1>2. ASSUME NEW i \in 1 .. n + 1 PROVE i \in S
  <2>1. n + 1 - i \in Nat /\ n + 1 - i <= n /\ n + 1 - (n + 1 - i) = i
    OBVIOUS
  <2>2. n + 1 - i \notin Missing
    BY <1>1
  <2> QED
    BY <2>1, <2>2
<1> QED
  BY <1>2

\* A set that holds 0, and every number up to n whose predecessor it holds.
LEMMA CountUp ==
  ASSUME NEW n \in Nat, NEW S, 0 \in S, \A k \in 1..n : k - 1 \in S => k \in S
  PROVE  \A k \in 0..n : k \in S
<1> DEFINE Missing == {k \in 0..n : k \notin S}
<1>1. ASSUME Missing # {} PROVE FALSE
  <2>1. PICK m \in Missing : \A k \in Missing : m <= k
    <3>1. Missing \in SUBSET Nat
      OBVIOUS
    <3> QED
      BY <1>1, <3>1, LeastNat
  <2>2. m \in 1..n /\ m \notin S
    BY <2>1
  <2>3. m - 1 \in 0..n /\ ~(m <= m - 1)
    BY <2>2
  <2>4. m - 1 \in S
    BY <2>1, <2>3
  <2> QED
    BY <2>2, <2>4
<1> QED
  BY <1>1

\* f starts at e and goes on with g.
Steps(n, V) == [1..n -> [V -> V]]
Iterates(f, n, e, g) == f[0] = e /\ \A k \in 1..n : f[k] = g[k][f[k - 1]]

LEMMA IterExists ==
  ASSUME NEW n \in Nat, NEW V, NEW e \in V, NEW g \in Steps(n, V)
  PROVE  \E f \in [0..n -> V] : Iterates(f, n, e, g)
<1> USE DEF Steps
<1> DEFINE Upto(m, f) == f[0] = e /\ \A k \in 1..n : k <= m => f[k] = g[k][f[k - 1]]
           S == {m \in 0..n : \E f \in [0..n -> V] : Upto(m, f)}
<1>1. 0 \in S
  <2>1. [k \in 0..n |-> e] \in [0..n -> V] /\ Upto(0, [k \in 0..n |-> e])
    OBVIOUS
  <2> QED
    BY <2>1
<1>2. ASSUME NEW m \in 1..n, m - 1 \in S PROVE m \in S
  <2>1. PICK f \in [0..n -> V] : Upto(m - 1, f)
    BY <1>2
  <2> DEFINE h == [f EXCEPT ![m] = g[m][f[m - 1]]]
  <2>2. m \in 0..n /\ m - 1 \in 0..n /\ g[m][f[m - 1]] \in V
    OBVIOUS
  <2>3. h \in [0..n -> V] /\ \A k \in 0..n : h[k] = IF k = m THEN g[m][f[m - 1]] ELSE f[k]
    BY <2>2
  <2> HIDE DEF h
  <2>4. \A k \in 1..n : k - 1 \in 0..n /\ k \in 0..n /\ (k <= m => k - 1 # m)
                        /\ (k <= m /\ k # m => k <= m - 1)
    OBVIOUS
  <2>5. Upto(m, h)
    BY <2>1, <2>2, <2>3, <2>4
  <2> QED
    BY <2>2, <2>3, <2>5
<1> HIDE DEF S
<1>3. n \in S
  <2>1. \A k \in 0..n : k \in S
    BY <1>1, <1>2, CountUp
  <2>2. n \in 0..n
    OBVIOUS
  <2> QED
    BY <2>1, <2>2
<1>4. PICK f \in [0..n -> V] : Upto(n, f)
  BY <1>3 DEF S
<1>5. \A k \in 1..n : k <= n
  OBVIOUS
<1> QED
  BY <1>4, <1>5 DEF Iterates

LEMMA IterUnique ==
  ASSUME NEW n \in Nat, NEW V, NEW e \in V, NEW g \in Steps(n, V),
         NEW f \in [0..n -> V], Iterates(f, n, e, g),
         NEW h, h[0] = e, \A k \in 1..n : h[k - 1] \in V => h[k] = g[k][h[k - 1]]
  PROVE  \A k \in 0..n : h[k] = f[k]
<1> USE DEF Iterates
<1> DEFINE S == {k \in 0..n : h[k] = f[k]}
<1>1. 0 \in S
  OBVIOUS
<1>2. ASSUME NEW k \in 1..n, k - 1 \in S PROVE k \in S
  <2>1. k \in 0..n /\ k - 1 \in 0..n
    OBVIOUS
  <2> QED
    BY <1>2, <2>1
<1> HIDE DEF S
<1>3. \A k \in 0..n : k \in S
  BY <1>1, <1>2, CountUp
<1> QED
  BY <1>3 DEF S

\* A set that holds every element all of whose followers it holds.
LEMMA MeasureInduction ==
  ASSUME NEW D, NEW m \in [D -> Nat], NEW S,
         \A x \in D : (\A y \in D : m[y] < m[x] => y \in S) => x \in S
  PROVE  \A x \in D : x \in S
<1> DEFINE Missing == {m[x] : x \in {y \in D : y \notin S}}
<1>1. ASSUME Missing # {} PROVE FALSE
  <2>1. Missing \in SUBSET Nat
    OBVIOUS
  <2>2. PICK k \in Missing : \A j \in Missing : k <= j
    BY <1>1, <2>1, LeastNat
  <2>3. PICK x \in D : x \notin S /\ m[x] = k
    BY <2>2
  <2>4. ASSUME NEW y \in D, m[y] < m[x] PROVE y \in S
    BY <2>2, <2>3, <2>4, SMTT(30)
  <2> QED
    BY <2>3, <2>4
<1> QED
  BY <1>1

\* next leads from where there is no stop to where less is left.
MovesOn(D, left, bound, stop, next) ==
  /\ left \in [D -> Nat] /\ bound \in Nat /\ \A x \in D : left[x] <= bound
  /\ stop \in SUBSET D /\ next \in [D \ stop -> D]
  /\ \A x \in D \ stop : left[next[x]] < left[x]

\* f moves on with next until it stops with out.
Walks(f, D, stop, out, next) ==
  \A x \in D : f[x] = IF x \in stop THEN out[x] ELSE f[next[x]]

LEMMA WalkExists ==
  ASSUME NEW D, NEW left, NEW bound, NEW stop, NEW next, MovesOn(D, left, bound, stop, next),
         NEW V, NEW v \in V, NEW out \in [stop -> V]
  PROVE  \E f \in [D -> V] : Walks(f, D, stop, out, next)
<1> USE DEF MovesOn
<1> DEFINE Step(f, x) == IF x \in stop THEN out[x] ELSE f[next[x]]
           Upto(k, f) == \A x \in D : left[x] < k => f[x] = Step(f, x)
           S == {k \in 0 .. bound + 1 : \E f \in [D -> V] : Upto(k, f)}
<1>1. 0 \in S
  <2>1. [x \in D |-> v] \in [D -> V] /\ Upto(0, [x \in D |-> v])
    OBVIOUS
  <2> QED
    BY <2>1
<1>2. ASSUME NEW k \in 1 .. bound + 1, k - 1 \in S PROVE k \in S
  <2>1. PICK f \in [D -> V] : Upto(k - 1, f)
    BY <1>2
  <2> DEFINE h == [x \in D |-> IF left[x] = k - 1 THEN Step(f, x) ELSE f[x]]
  <2>2. h \in [D -> V] /\ \A x \in D : h[x] = IF left[x] = k - 1 THEN Step(f, x) ELSE f[x]
    OBVIOUS
  <2> HIDE DEF h
  <2>3. ASSUME NEW x \in D, left[x] < k PROVE h[x] = Step(h, x)
    <3>1. left[x] = k - 1 \/ left[x] < k - 1
      BY <2>3
    <3>2. h[x] = Step(f, x)
      BY <2>1, <2>2, <3>1
    <3>3. CASE x \in stop
      BY <3>2, <3>3
    <3>4. CASE x \notin stop
      <4>1. next[x] \in D /\ left[next[x]] # k - 1
        BY <2>3, <3>4
      <4>2. h[next[x]] = f[next[x]]
        BY <2>2, <4>1
      <4> QED
        BY <3>2, <3>4, <4>2
    <3> QED
      BY <3>3, <3>4
  <2>4. Upto(k, h)
    BY <2>3
  <2> QED
    BY <2>2, <2>4
<1> HIDE DEF S
<1>3. bound + 1 \in S
  BY <1>1, <1>2, CountUp
<1>4. PICK f \in [D -> V] : Upto(bound + 1, f)
  BY <1>3 DEF S
<1>5. \A x \in D : left[x] < bound + 1
  OBVIOUS
<1> QED
  BY <1>4, <1>5 DEF Walks

LEMMA WalkUnique ==
  ASSUME NEW D, NEW left, NEW bound, NEW stop, NEW next, MovesOn(D, left, bound, stop, next),
         NEW out, NEW f, Walks(f, D, stop, out, next), NEW h, Walks(h, D, stop, out, next)
  PROVE  \A x \in D : h[x] = f[x]
<1> DEFINE S == {x \in D : h[x] = f[x]}
<1>1. ASSUME NEW x \in D, \A y \in D : left[y] < left[x] => y \in S PROVE x \in S
  BY <1>1 DEF MovesOn, Walks
<1> HIDE DEF S
<1>2. left \in [D -> Nat]
  BY DEF MovesOn
<1>3. \A x \in D : x \in S
  BY <1>1, <1>2, MeasureInduction
<1> QED
  BY <1>3 DEF S

-----------------------------------------------------------------------------
(* The scanners, on any packet. *)

\* A label of fewer than lim bytes that lies within the packet is stepped over.
StepsOver(pkt, p, lim) == Has(pkt, p, 1) /\ pkt[p] \in 1 .. lim - 1 /\ Has(pkt, p + 1, pkt[p])
SkipEnd(pkt, p) ==
  IF Has(pkt, p, 1) /\ pkt[p] >= 192 /\ Has(pkt, p, 2) THEN p + 2
  ELSE IF Has(pkt, p, 1) /\ pkt[p] = 0 THEN p + 1 ELSE NoPos

LEMMA ByteIs ==
  ASSUME NEW x \in Byte
  PROVE  x \in Nat /\ x <= 255 /\ x \in 0..255
BY DEF Byte

LEMMA Positions ==
  ASSUME NEW pkt \in Seq(Byte), NEW p \in Pos(pkt)
  PROVE  /\ p \in Nat /\ p > 0 /\ EndOf(pkt) \in Nat /\ Len(pkt) \in Nat /\ p <= EndOf(pkt)
         /\ EndOf(pkt) = Len(pkt) + 1
         /\ Has(pkt, p, 1) => p <= Len(pkt) /\ pkt[p] \in 0..255
<1>1. Len(pkt) \in Nat /\ EndOf(pkt) = Len(pkt) + 1 /\ p \in 1 .. EndOf(pkt)
  BY DEF Pos, EndOf
<1>2. Has(pkt, p, 1) => p \in 1 .. Len(pkt)
  BY <1>1 DEF Has
<1>3. p \in 1 .. Len(pkt) => pkt[p] \in Byte
  OBVIOUS
<1> QED
  BY <1>1, <1>2, <1>3 DEF Byte

\* What the length byte of a name may be.
LEMMA LengthByte ==
  ASSUME NEW b \in 0..255
  PROVE  /\ b >= 192 \/ b \in 64..191 \/ b = 0 \/ b \in 1..63
         /\ b >= 192 => b \notin 1..63 /\ b \notin 64..191 /\ b # 0 /\ b \notin 1..191
         /\ b \in 64..191 => b \notin 1..63 /\ ~(b >= 192) /\ b # 0 /\ b \in 1..191
         /\ b = 0 => b \notin 1..63 /\ ~(b >= 192) /\ b \notin 64..191 /\ b \notin 1..191
         /\ b \in 1..63 => b # 0 /\ ~(b >= 192) /\ b \notin 64..191 /\ b \in 1..191
OBVIOUS

LEMMA SkipStepIs ==
  ASSUME NEW pkt \in Seq(Byte), NEW p \in Pos(pkt), NEW f
  PROVE  SkipStep(pkt, f, p)
           = IF StepsOver(pkt, p, 64) THEN f[p + 1 + pkt[p]] ELSE SkipEnd(pkt, p)
<1>1. CASE ~Has(pkt, p, 1)
  BY <1>1 DEF SkipStep, StepsOver, SkipEnd
<1>2. CASE Has(pkt, p, 1)
  <2>1. PICK b \in 0..255 : b = pkt[p]
    BY <1>2, Positions
  <2>2. 64 - 1 = 63
    OBVIOUS
  <2>3. CASE b >= 192
    <3>1. b \notin 1..63 /\ b \notin 64..191 /\ b # 0
      BY <2>3, LengthByte
    <3>2. SkipStep(pkt, f, p) = IF Has(pkt, p, 2) THEN p + 2 ELSE NoPos
      BY <1>2, <2>1, <2>3, <3>1 DEF SkipStep
    <3>3. ~StepsOver(pkt, p, 64)
      BY <2>1, <2>2, <3>1 DEF StepsOver
    <3>4. SkipEnd(pkt, p) = IF Has(pkt, p, 2) THEN p + 2 ELSE NoPos
      BY <1>2, <2>1, <2>3, <3>1 DEF SkipEnd
    <3> QED
      BY <3>2, <3>3, <3>4
  <2>4. CASE b \in 64..191
    BY <1>2, <2>1, <2>2, <2>4, LengthByte, ZenonT(30) DEF SkipStep, StepsOver, SkipEnd
  <2>5. CASE b = 0
    BY <1>2, <2>1, <2>2, <2>5, LengthByte DEF SkipStep, StepsOver, SkipEnd
  <2>6. CASE b \in 1..63
    <3>1. b # 0 /\ ~(b >= 192) /\ b \notin 64..191
      BY <2>6, LengthByte
    <3>2. SkipStep(pkt, f, p) = IF Has(pkt, p + 1, b) THEN f[p + 1 + b] ELSE NoPos
      BY <1>2, <2>1, <2>6, <3>1 DEF SkipStep
    <3>3. StepsOver(pkt, p, 64) <=> Has(pkt, p + 1, b)
      BY <1>2, <2>1, <2>2, <2>6 DEF StepsOver
    <3>4. SkipEnd(pkt, p) = NoPos
      BY <2>1, <3>1 DEF SkipEnd
    <3> QED
      BY <2>1, <3>2, <3>3, <3>4
  <2> QED
    BY <2>3, <2>4, <2>5, <2>6, LengthByte
<1> QED
  BY <1>1, <1>2

\* What is left of the packet is shorter behind a label.
LEMMA StepAhead ==
  ASSUME NEW pkt \in Seq(Byte), NEW p \in Pos(pkt), NEW lim \in 1..192, StepsOver(pkt, p, lim)
  PROVE  /\ p + 1 + pkt[p] \in Pos(pkt) /\ pkt[p] \in 1 .. lim - 1
         /\ p < p + 1 + pkt[p]
         /\ EndOf(pkt) - (p + 1 + pkt[p]) < EndOf(pkt) - p
<1> DEFINE b == pkt[p]
           e == EndOf(pkt)
<1>1. b \in 1 .. lim - 1 /\ p + 1 + b <= e
  BY DEF StepsOver, Has
<1>2. p \in Nat /\ e \in Nat
  BY Positions
<1> HIDE DEF b, e
<1>3. p + 1 + b \in 1..e /\ p < p + 1 + b /\ e - (p + 1 + b) < e - p
  BY <1>1, <1>2
<1> QED
  BY <1>1, <1>3 DEF Pos, b, e

\* skip_name is a function that satisfies its recursion, and ends behind p or not at all.
IsSkip(f, pkt) ==
  /\ f \in [Pos(pkt) -> 0 .. EndOf(pkt)]
  /\ \A p \in Pos(pkt) :
       /\ skip_name(pkt, p) = f[p]
       /\ f[p] = IF StepsOver(pkt, p, 64) THEN f[p + 1 + pkt[p]] ELSE SkipEnd(pkt, p)

LEMMA SkipIs ==
  ASSUME NEW pkt \in Seq(Byte)
  PROVE  \E f : IsSkip(f, pkt)
<1> DEFINE D == Pos(pkt)
           V == 0 .. EndOf(pkt)
           left == [p \in D |-> EndOf(pkt) - p]
           stop == {p \in D : ~StepsOver(pkt, p, 64)}
           out == [p \in stop |-> SkipEnd(pkt, p)]
           next == [p \in D \ stop |-> p + 1 + pkt[p]]
           bound == EndOf(pkt)
<1>1. EndOf(pkt) \in Nat /\ D = 1 .. EndOf(pkt)
  BY DEF EndOf, Pos
<1>2. left \in [D -> Nat] /\ bound \in Nat /\ \A x \in D : left[x] <= bound
  BY <1>1
<1>3. NoPos \in V
  BY <1>1 DEF NoPos
<1>4. ASSUME NEW p \in D PROVE SkipEnd(pkt, p) \in V
  BY <1>1 DEF SkipEnd, Has, NoPos
<1>5. stop \in SUBSET D /\ out \in [stop -> V]
  BY <1>4
<1>6. ASSUME NEW p \in D \ stop
      PROVE  p + 1 + pkt[p] \in D /\ EndOf(pkt) - (p + 1 + pkt[p]) < EndOf(pkt) - p
  <2>1. p \in Pos(pkt) /\ StepsOver(pkt, p, 64) /\ 64 \in 1..192
    BY <1>6
  <2> QED
    BY <2>1, StepAhead
<1>7. next \in [D \ stop -> D] /\ \A x \in D \ stop : left[next[x]] < left[x]
  BY <1>6
<1>8. ASSUME NEW f, NEW p \in D
      PROVE  SkipStep(pkt, f, p) = IF p \in stop THEN out[p] ELSE f[next[p]]
  BY SkipStepIs
<1> HIDE DEF D, V, left, stop, out, next, bound
<1>9. MovesOn(D, left, bound, stop, next)
  BY <1>2, <1>5, <1>7 DEF MovesOn
<1>10. PICK f \in [D -> V] : Walks(f, D, stop, out, next)
  BY <1>3, <1>5, <1>9, WalkExists
<1> DEFINE h == CHOOSE g : g = [p \in D |-> SkipStep(pkt, g, p)]
<1>11. f = [p \in D |-> SkipStep(pkt, f, p)]
  BY <1>8, <1>10 DEF Walks
<1>12. h = [p \in D |-> SkipStep(pkt, h, p)]
  BY <1>11
<1>13. \A p \in D : skip_name(pkt, p) = h[p]
  BY DEF skip_name, D
<1> HIDE DEF h
<1>14. Walks(h, D, stop, out, next)
  BY <1>8, <1>12 DEF Walks
<1>15. \A x \in D : h[x] = f[x]
  BY <1>9, <1>10, <1>14, WalkUnique
<1>16. \A p \in D : f[p] = IF StepsOver(pkt, p, 64) THEN f[p + 1 + pkt[p]] ELSE SkipEnd(pkt, p)
  BY <1>10 DEF D, stop, out, next, Walks
<1> QED
  BY <1>10, <1>13, <1>15, <1>16 DEF D, V, IsSkip

\* The same for name_matches, which walks over positions and numbers of matches.
Found(pkt) == [ok : BOOLEAN, next : Pos(pkt)]
Miss(pkt) == [ok |-> FALSE, next |-> EndOf(pkt)]
ScanEnd(pkt, p, idx) ==
  IF Has(pkt, p, 1) /\ pkt[p] >= 192 /\ Has(pkt, p, 2) THEN [ok |-> FALSE, next |-> p + 2]
  ELSE IF Has(pkt, p, 1) /\ pkt[p] = 0 THEN [ok |-> idx = 2, next |-> p + 1] ELSE Miss(pkt)
ScanOn(pkt, p, label, idx) ==
  <<p + 1 + pkt[p], Matched(pkt, p + 1, pkt[p], label, idx)>>

LEMMA ScanStepIs ==
  ASSUME NEW pkt \in Seq(Byte), NEW p \in Pos(pkt), NEW label, NEW idx, NEW f
  PROVE  ScanStep(pkt, label, f, p, idx)
           = IF StepsOver(pkt, p, 192) THEN f[ScanOn(pkt, p, label, idx)]
             ELSE ScanEnd(pkt, p, idx)
<1>1. CASE ~Has(pkt, p, 1)
  BY <1>1 DEF ScanStep, StepsOver, ScanEnd, Miss
<1>2. CASE Has(pkt, p, 1)
  <2>1. PICK b \in 0..255 : b = pkt[p]
    BY <1>2, Positions
  <2>2. 192 - 1 = 191
    OBVIOUS
  <2>3. CASE b >= 192
    <3>1. b \notin 1..191 /\ b # 0
      BY <2>3, LengthByte
    <3>2. ScanStep(pkt, label, f, p, idx)
            = IF Has(pkt, p, 2) THEN [ok |-> FALSE, next |-> p + 2] ELSE Miss(pkt)
      BY <1>2, <2>1, <2>3, <3>1 DEF ScanStep, Miss
    <3>3. ~StepsOver(pkt, p, 192)
      BY <2>1, <2>2, <3>1 DEF StepsOver
    <3>4. ScanEnd(pkt, p, idx)
            = IF Has(pkt, p, 2) THEN [ok |-> FALSE, next |-> p + 2] ELSE Miss(pkt)
      BY <1>2, <2>1, <2>3, <3>1 DEF ScanEnd
    <3> QED
      BY <3>2, <3>3, <3>4
  <2>4. CASE b = 0
    <3>1. b \notin 1..191 /\ ~(b >= 192)
      BY <2>4, LengthByte
    <3>2. ScanStep(pkt, label, f, p, idx) = [ok |-> idx = 2, next |-> p + 1]
      BY <1>2, <2>1, <2>4, <3>1 DEF ScanStep
    <3>3. ~StepsOver(pkt, p, 192)
      BY <2>1, <2>2, <3>1 DEF StepsOver
    <3>4. ScanEnd(pkt, p, idx) = [ok |-> idx = 2, next |-> p + 1]
      BY <1>2, <2>1, <2>4, <3>1 DEF ScanEnd
    <3> QED
      BY <3>2, <3>3, <3>4
  <2>5. CASE b \in 1..191
    <3>1. b # 0 /\ ~(b >= 192)
      BY <2>5, LengthByte
    <3>2. ScanStep(pkt, label, f, p, idx)
            = IF Has(pkt, p + 1, b) THEN f[ScanOn(pkt, p, label, idx)] ELSE Miss(pkt)
      BY <1>2, <2>1, <2>5, <3>1 DEF ScanStep, Miss, ScanOn
    <3>3. StepsOver(pkt, p, 192) <=> Has(pkt, p + 1, b)
      BY <1>2, <2>1, <2>2, <2>5 DEF StepsOver
    <3>4. ScanEnd(pkt, p, idx) = Miss(pkt)
      BY <2>1, <3>1 DEF ScanEnd
    <3> QED
      BY <3>2, <3>3, <3>4
  <2> QED
    BY <2>3, <2>4, <2>5, LengthByte
<1> QED
  BY <1>1, <1>2

IsScan(f, pkt, label) ==
  /\ f \in [Pos(pkt) \X (0..3) -> Found(pkt)]
  /\ \A p \in Pos(pkt) : name_matches(pkt, p, label) = f[<<p, 0>>]
  /\ \A p \in Pos(pkt), idx \in 0..3 :
       f[<<p, idx>>] = IF StepsOver(pkt, p, 192) THEN f[ScanOn(pkt, p, label, idx)]
                       ELSE ScanEnd(pkt, p, idx)

LEMMA ScanIs ==
  ASSUME NEW pkt \in Seq(Byte), NEW label
  PROVE  \E f : IsScan(f, pkt, label)
<1> DEFINE D == Pos(pkt) \X (0..3)
           V == Found(pkt)
           left == [c \in D |-> EndOf(pkt) - c[1]]
           stop == {c \in D : ~StepsOver(pkt, c[1], 192)}
           out == [c \in stop |-> ScanEnd(pkt, c[1], c[2])]
           next == [c \in D \ stop |-> ScanOn(pkt, c[1], label, c[2])]
           bound == EndOf(pkt)
<1>1. EndOf(pkt) \in Nat /\ Pos(pkt) = 1 .. EndOf(pkt) /\ EndOf(pkt) \in Pos(pkt)
  BY DEF EndOf, Pos
<1>2. left \in [D -> Nat] /\ bound \in Nat /\ \A x \in D : left[x] <= bound
  BY <1>1
<1>3. Miss(pkt) \in V
  BY <1>1 DEF Miss, Found
<1>4. ASSUME NEW p \in Pos(pkt), NEW idx \in 0..3 PROVE ScanEnd(pkt, p, idx) \in V
  <2>1. Has(pkt, p, 2) => p + 2 \in Pos(pkt)
    BY <1>1 DEF Has
  <2>2. Has(pkt, p, 1) => p + 1 \in Pos(pkt)
    BY <1>1 DEF Has
  <2> QED
    BY <1>3, <2>1, <2>2 DEF ScanEnd, Found
<1>5. stop \in SUBSET D /\ out \in [stop -> V]
  BY <1>4
<1>6. ASSUME NEW c \in D \ stop
      PROVE  /\ ScanOn(pkt, c[1], label, c[2]) \in D
             /\ EndOf(pkt) - ScanOn(pkt, c[1], label, c[2])[1] < EndOf(pkt) - c[1]
  <2>1. c[1] \in Pos(pkt) /\ c[2] \in 0..3 /\ StepsOver(pkt, c[1], 192) /\ 192 \in 1..192
    BY <1>6
  <2>2. /\ c[1] + 1 + pkt[c[1]] \in Pos(pkt)
        /\ EndOf(pkt) - (c[1] + 1 + pkt[c[1]]) < EndOf(pkt) - c[1]
    BY <2>1, StepAhead
  <2>3. Matched(pkt, c[1] + 1, pkt[c[1]], label, c[2]) \in 0..3
    BY <2>1 DEF Matched
  <2> QED
    BY <2>2, <2>3 DEF ScanOn
<1>7. next \in [D \ stop -> D] /\ \A x \in D \ stop : left[next[x]] < left[x]
  BY <1>6
<1>8. ASSUME NEW f, NEW c \in D
      PROVE  ScanStep(pkt, label, f, c[1], c[2]) = IF c \in stop THEN out[c] ELSE f[next[c]]
  <2>1. c[1] \in Pos(pkt)
    OBVIOUS
  <2> QED
    BY <2>1, ScanStepIs
<1> HIDE DEF D, V, left, stop, out, next, bound
<1>9. MovesOn(D, left, bound, stop, next)
  BY <1>2, <1>5, <1>7 DEF MovesOn
<1>10. PICK f \in [D -> V] : Walks(f, D, stop, out, next)
  BY <1>3, <1>5, <1>9, WalkExists
<1> DEFINE h == CHOOSE g : g = [c \in D |-> ScanStep(pkt, label, g, c[1], c[2])]
<1>11. f = [c \in D |-> ScanStep(pkt, label, f, c[1], c[2])]
  BY <1>8, <1>10 DEF Walks
<1>12. h = [c \in D |-> ScanStep(pkt, label, h, c[1], c[2])]
  BY <1>11
<1>13. \A p \in Pos(pkt) : name_matches(pkt, p, label) = h[<<p, 0>>]
  BY DEF name_matches, D
<1> HIDE DEF h
<1>14. Walks(h, D, stop, out, next)
  BY <1>8, <1>12 DEF Walks
<1>15. \A x \in D : h[x] = f[x]
  BY <1>9, <1>10, <1>14, WalkUnique
<1>16. ASSUME NEW p \in Pos(pkt), NEW idx \in 0..3
       PROVE  f[<<p, idx>>] = IF StepsOver(pkt, p, 192) THEN f[ScanOn(pkt, p, label, idx)]
                              ELSE ScanEnd(pkt, p, idx)
  <2>1. <<p, idx>> \in D /\ <<p, idx>>[1] = p /\ <<p, idx>>[2] = idx
    BY DEF D
  <2>2. <<p, idx>> \in stop <=> ~StepsOver(pkt, p, 192)
    BY <2>1 DEF stop
  <2> QED
    BY <1>10, <2>1, <2>2 DEF out, next, Walks
<1>17. \A p \in Pos(pkt) : <<p, 0>> \in D
  BY DEF D
<1>18. f \in [Pos(pkt) \X (0..3) -> Found(pkt)]
  BY <1>10 DEF D, V
<1>19. \A p \in Pos(pkt) : name_matches(pkt, p, label) = f[<<p, 0>>]
  BY <1>13, <1>15, <1>17
<1> QED
  BY <1>16, <1>18, <1>19 DEF IsScan

LEMMA ScannersTyped ==
  ASSUME NEW pkt \in Seq(Byte), NEW p \in Pos(pkt), NEW label
  PROVE  /\ skip_name(pkt, p) \in 0 .. EndOf(pkt)
         /\ name_matches(pkt, p, label) \in Found(pkt)
         /\ name_matches(pkt, p, label).next \in Pos(pkt)
<1>1. skip_name(pkt, p) \in 0 .. EndOf(pkt)
  BY SkipIs DEF IsSkip
<1>2. name_matches(pkt, p, label) \in Found(pkt)
  <2>1. <<p, 0>> \in Pos(pkt) \X (0..3)
    OBVIOUS
  <2>2. PICK f : IsScan(f, pkt, label)
    BY ScanIs
  <2> QED
    BY <2>1, <2>2 DEF IsScan
<1> QED
  BY <1>1, <1>2 DEF Found

LEMMA WordIs ==
  ASSUME NEW pkt \in Seq(Byte), NEW p \in Nat, p >= 1, p + 1 <= Len(pkt)
  PROVE  Word(pkt, p) \in Nat /\ Word(pkt, p) <= 65535
<1>1. p \in 1..Len(pkt) /\ p + 1 \in 1..Len(pkt)
  OBVIOUS
<1>2. pkt[p] \in Byte /\ pkt[p + 1] \in Byte
  BY <1>1
<1>3. PICK a, b : a \in Byte /\ b \in Byte /\ a = pkt[p] /\ b = pkt[p + 1]
  BY <1>2
<1>4. a \in Nat /\ b \in Nat /\ a <= 255 /\ b <= 255
  BY <1>3, ByteIs
<1>5. 256 * a + b \in Nat /\ 256 * a + b <= 65535
  BY <1>4
<1>6. Word(pkt, p) = 256 * a + b
  BY <1>3 DEF Word
<1> QED
  BY <1>5, <1>6

LEMMA CountsTyped ==
  ASSUME NEW pkt \in Seq(Byte), Len(pkt) >= 12
  PROVE  QdCount(pkt) \in Nat /\ AnCount(pkt) \in Nat /\ Flags(pkt) \in Nat
         /\ 13 \in 0 .. EndOf(pkt) /\ EndOf(pkt) \in Nat
<1>1. Len(pkt) \in Nat
  OBVIOUS
<1>2. ASSUME NEW p \in Nat, p >= 1, p <= 7 PROVE Word(pkt, p) \in Nat
  <2>1. p + 1 <= Len(pkt)
    BY <1>1, <1>2
  <2> QED
    BY <1>2, <2>1, WordIs
<1>3. QdCount(pkt) \in Nat
  BY <1>2 DEF QdCount
<1>4. AnCount(pkt) \in Nat
  BY <1>2 DEF AnCount
<1>5. Flags(pkt) \in Nat
  BY <1>2 DEF Flags
<1> QED
  BY <1>1, <1>3, <1>4, <1>5 DEF EndOf

LEMMA StepsTyped ==
  ASSUME NEW pkt \in Seq(Byte), NEW label, NEW p \in 0 .. EndOf(pkt)
  PROVE  /\ NextQuestion(pkt, label, p) \in 0 .. EndOf(pkt)
         /\ SkipQuestion(pkt, p) \in 0 .. EndOf(pkt)
         /\ NextRecord(pkt, label, p) \in 0 .. EndOf(pkt)
<1>1. EndOf(pkt) \in Nat /\ Len(pkt) \in Nat /\ EndOf(pkt) = Len(pkt) + 1
      /\ Pos(pkt) = 1 .. EndOf(pkt)
  BY DEF EndOf, Pos
<1>2. ASSUME NEW q \in 0 .. EndOf(pkt) PROVE BehindQuestion(pkt, q) \in 0 .. EndOf(pkt)
  BY <1>1 DEF BehindQuestion, Has, NoPos
<1>3. ASSUME NEW q \in Pos(pkt) PROVE BehindRecord(pkt, q) \in 0 .. EndOf(pkt)
  <2>1. CASE Has(pkt, q, 10) /\ Has(pkt, DataAt(pkt, q), DataLen(pkt, q))
    <3> DEFINE w == q + 8
    <3>1. w \in Nat /\ w >= 1 /\ w + 1 <= Len(pkt) /\ DataLen(pkt, q) = Word(pkt, w)
      BY <1>1, <2>1 DEF Has, DataLen
    <3> HIDE DEF w
    <3>2. PICK d \in Nat : d = DataLen(pkt, q)
      BY <3>1, WordIs
    <3> QED
      BY <1>1, <2>1, <3>2 DEF BehindRecord, Has, DataAt
  <2>2. CASE ~(Has(pkt, q, 10) /\ Has(pkt, DataAt(pkt, q), DataLen(pkt, q)))
    BY <1>1, <2>2 DEF BehindRecord, NoPos
  <2> QED
    BY <2>1, <2>2
<1>4. p # NoPos => p \in Pos(pkt)
  BY <1>1 DEF NoPos
<1>5. NoPos \in 0 .. EndOf(pkt)
  BY <1>1 DEF NoPos
<1>6. p # NoPos => /\ name_matches(pkt, p, label).next \in Pos(pkt)
                   /\ name_matches(pkt, p, label).next \in 0 .. EndOf(pkt)
                   /\ skip_name(pkt, p) \in 0 .. EndOf(pkt)
  <2>1. p # NoPos => /\ name_matches(pkt, p, label).next \in Pos(pkt)
                     /\ skip_name(pkt, p) \in 0 .. EndOf(pkt)
    BY <1>4, ScannersTyped
  <2>2. \A q \in Pos(pkt) : q \in 0 .. EndOf(pkt)
    BY <1>1
  <2> QED
    BY <2>1, <2>2
<1>7. NextQuestion(pkt, label, p) \in 0 .. EndOf(pkt)
  BY <1>2, <1>5, <1>6 DEF NextQuestion
<1>8. SkipQuestion(pkt, p) \in 0 .. EndOf(pkt)
  BY <1>2, <1>5, <1>6 DEF SkipQuestion
<1>9. NextRecord(pkt, label, p) \in 0 .. EndOf(pkt)
  BY <1>3, <1>5, <1>6 DEF NextRecord
<1> QED
  BY <1>7, <1>8, <1>9

\* at stands at first and goes on by step; so does h, as long as it stays in V.
Loops(at, n, first, step) ==
  at[0] = first /\ \A k \in 1..n : at[k] = step[at[k - 1]]
LoopsIn(h, n, V, first, step) ==
  /\ h = [k \in 0..n |-> h[k]] /\ h[0] = first
  /\ \A k \in 1..n : h[k - 1] \in V => h[k] = step[h[k - 1]]

LEMMA LoopExists ==
  ASSUME NEW n \in Nat, NEW V, NEW first \in V, NEW step \in [V -> V]
  PROVE  \E f \in [0..n -> V] : Loops(f, n, first, step)
<1> DEFINE g == [k \in 1..n |-> step]
<1>1. g \in Steps(n, V) /\ \A k \in 1..n : g[k] = step
  BY DEF Steps
<1> HIDE DEF g
<1>2. PICK f \in [0..n -> V] : Iterates(f, n, first, g)
  BY <1>1, IterExists
<1> QED
  BY <1>1, <1>2 DEF Loops, Iterates

LEMMA LoopUnique ==
  ASSUME NEW n \in Nat, NEW V, NEW first \in V, NEW step \in [V -> V],
         NEW f \in [0..n -> V], Loops(f, n, first, step),
         NEW h, LoopsIn(h, n, V, first, step)
  PROVE  h = f
<1> DEFINE g == [k \in 1..n |-> step]
<1>1. g \in Steps(n, V) /\ \A k \in 1..n : g[k] = step
  BY DEF Steps
<1> HIDE DEF g
<1>2. Iterates(f, n, first, g)
  BY <1>1 DEF Loops, Iterates
<1>3. h[0] = first /\ \A k \in 1..n : h[k - 1] \in V => h[k] = g[k][h[k - 1]]
  BY <1>1 DEF LoopsIn
<1>4. \A k \in 0..n : h[k] = f[k]
  BY <1>1, <1>2, <1>3, IterUnique
<1>5. f = [k \in 0..n |-> f[k]] /\ h = [k \in 0..n |-> h[k]]
  BY DEF LoopsIn
<1> QED
  BY <1>4, <1>5

LEMMA QuestionsIs ==
  ASSUME NEW pkt \in Seq(Byte), Len(pkt) >= 12, NEW host
  PROVE  /\ Questions(pkt, host) \in [0 .. QdCount(pkt) -> 0 .. EndOf(pkt)]
         /\ Questions(pkt, host)[0] = 13
         /\ \A k \in 1 .. QdCount(pkt) : Questions(pkt, host)[k] = NextQuestion(pkt, host, Questions(pkt, host)[k - 1])
<1> DEFINE n == QdCount(pkt)
           V == 0 .. EndOf(pkt)
           start == 13
           step == [p \in V |-> NextQuestion(pkt, host, p)]
           h == Questions(pkt, host)
<1>1. n \in Nat /\ start \in V
  BY CountsTyped
<1>2. step \in [V -> V] /\ \A p \in V : step[p] = NextQuestion(pkt, host, p)
  BY StepsTyped
<1>3. h = CHOOSE g : g = [k \in 0..n |-> IF k = 0 THEN start ELSE NextQuestion(pkt, host, g[k - 1])]
  BY DEF Questions
<1> HIDE DEF n, V, start, step, h
<1>4. PICK f \in [0..n -> V] : Loops(f, n, start, step)
  BY <1>1, <1>2, LoopExists
<1>5. f[0] = start /\ \A k \in 1..n : f[k] = NextQuestion(pkt, host, f[k - 1])
  <2>1. \A k \in 1..n : k - 1 \in 0..n
    BY <1>1
  <2> QED
    BY <1>2, <1>4, <2>1 DEF Loops
<1>6. f = [k \in 0..n |-> IF k = 0 THEN start ELSE NextQuestion(pkt, host, f[k - 1])]
  <2>1. f = [k \in 0..n |-> f[k]]
    OBVIOUS
  <2>2. \A k \in 0..n : k # 0 => k \in 1..n
    BY <1>1
  <2> QED
    BY <1>5, <2>1, <2>2
<1>7. h = [k \in 0..n |-> IF k = 0 THEN start ELSE NextQuestion(pkt, host, h[k - 1])]
  BY <1>3, <1>6
<1>8. /\ h = [k \in 0..n |-> h[k]] /\ h[0] = start
      /\ \A k \in 1..n : h[k] = NextQuestion(pkt, host, h[k - 1])
  <2>1. 0 \in 0..n /\ \A k \in 1..n : k \in 0..n /\ k # 0
    BY <1>1
  <2> QED
    BY <1>7, <2>1
<1>9. LoopsIn(h, n, V, start, step)
  BY <1>2, <1>8 DEF LoopsIn
<1>10. h = f
  BY <1>1, <1>2, <1>4, <1>9, LoopUnique
<1> QED
  BY <1>8, <1>10 DEF n, V, start, h

LEMMA SkippedIs ==
  ASSUME NEW pkt \in Seq(Byte), Len(pkt) >= 12
  PROVE  /\ Skipped(pkt) \in [0 .. QdCount(pkt) -> 0 .. EndOf(pkt)]
         /\ Skipped(pkt)[0] = 13
         /\ \A k \in 1 .. QdCount(pkt) : Skipped(pkt)[k] = SkipQuestion(pkt, Skipped(pkt)[k - 1])
<1> DEFINE n == QdCount(pkt)
           V == 0 .. EndOf(pkt)
           start == 13
           step == [p \in V |-> SkipQuestion(pkt, p)]
           h == Skipped(pkt)
<1>1. n \in Nat /\ start \in V
  BY CountsTyped
<1>2. step \in [V -> V] /\ \A p \in V : step[p] = SkipQuestion(pkt, p)
  BY StepsTyped
<1>3. h = CHOOSE g : g = [k \in 0..n |-> IF k = 0 THEN start ELSE SkipQuestion(pkt, g[k - 1])]
  BY DEF Skipped
<1> HIDE DEF n, V, start, step, h
<1>4. PICK f \in [0..n -> V] : Loops(f, n, start, step)
  BY <1>1, <1>2, LoopExists
<1>5. f[0] = start /\ \A k \in 1..n : f[k] = SkipQuestion(pkt, f[k - 1])
  <2>1. \A k \in 1..n : k - 1 \in 0..n
    BY <1>1
  <2> QED
    BY <1>2, <1>4, <2>1 DEF Loops
<1>6. f = [k \in 0..n |-> IF k = 0 THEN start ELSE SkipQuestion(pkt, f[k - 1])]
  <2>1. f = [k \in 0..n |-> f[k]]
    OBVIOUS
  <2>2. \A k \in 0..n : k # 0 => k \in 1..n
    BY <1>1
  <2> QED
    BY <1>5, <2>1, <2>2
<1>7. h = [k \in 0..n |-> IF k = 0 THEN start ELSE SkipQuestion(pkt, h[k - 1])]
  BY <1>3, <1>6
<1>8. /\ h = [k \in 0..n |-> h[k]] /\ h[0] = start
      /\ \A k \in 1..n : h[k] = SkipQuestion(pkt, h[k - 1])
  <2>1. 0 \in 0..n /\ \A k \in 1..n : k \in 0..n /\ k # 0
    BY <1>1
  <2> QED
    BY <1>7, <2>1
<1>9. LoopsIn(h, n, V, start, step)
  BY <1>2, <1>8 DEF LoopsIn
<1>10. h = f
  BY <1>1, <1>2, <1>4, <1>9, LoopUnique
<1> QED
  BY <1>8, <1>10 DEF n, V, start, h

LEMMA RecordsIs ==
  ASSUME NEW pkt \in Seq(Byte), Len(pkt) >= 12, NEW label,
         NEW first \in 0 .. EndOf(pkt)
  PROVE  /\ Records(pkt, first, label) \in [0 .. AnCount(pkt) -> 0 .. EndOf(pkt)]
         /\ Records(pkt, first, label)[0] = first
         /\ \A k \in 1 .. AnCount(pkt) : Records(pkt, first, label)[k] = NextRecord(pkt, label, Records(pkt, first, label)[k - 1])
<1> DEFINE n == AnCount(pkt)
           V == 0 .. EndOf(pkt)
           start == first
           step == [p \in V |-> NextRecord(pkt, label, p)]
           h == Records(pkt, first, label)
<1>1. n \in Nat /\ start \in V
  BY CountsTyped
<1>2. step \in [V -> V] /\ \A p \in V : step[p] = NextRecord(pkt, label, p)
  BY StepsTyped
<1>3. h = CHOOSE g : g = [k \in 0..n |-> IF k = 0 THEN start ELSE NextRecord(pkt, label, g[k - 1])]
  BY DEF Records
<1> HIDE DEF n, V, start, step, h
<1>4. PICK f \in [0..n -> V] : Loops(f, n, start, step)
  BY <1>1, <1>2, LoopExists
<1>5. f[0] = start /\ \A k \in 1..n : f[k] = NextRecord(pkt, label, f[k - 1])
  <2>1. \A k \in 1..n : k - 1 \in 0..n
    BY <1>1
  <2> QED
    BY <1>2, <1>4, <2>1 DEF Loops
<1>6. f = [k \in 0..n |-> IF k = 0 THEN start ELSE NextRecord(pkt, label, f[k - 1])]
  <2>1. f = [k \in 0..n |-> f[k]]
    OBVIOUS
  <2>2. \A k \in 0..n : k # 0 => k \in 1..n
    BY <1>1
  <2> QED
    BY <1>5, <2>1, <2>2
<1>7. h = [k \in 0..n |-> IF k = 0 THEN start ELSE NextRecord(pkt, label, h[k - 1])]
  BY <1>3, <1>6
<1>8. /\ h = [k \in 0..n |-> h[k]] /\ h[0] = start
      /\ \A k \in 1..n : h[k] = NextRecord(pkt, label, h[k - 1])
  <2>1. 0 \in 0..n /\ \A k \in 1..n : k \in 0..n /\ k # 0
    BY <1>1
  <2> QED
    BY <1>7, <2>1
<1>9. LoopsIn(h, n, V, start, step)
  BY <1>2, <1>8 DEF LoopsIn
<1>10. h = f
  BY <1>1, <1>2, <1>4, <1>9, LoopUnique
<1> QED
  BY <1>8, <1>10 DEF n, V, start, h

-----------------------------------------------------------------------------
(* A packet that is cut short. *)

CutOf(cut, pkt) ==
  /\ cut \in Seq(Byte) /\ pkt \in Seq(Byte) /\ Len(cut) <= Len(pkt)
  /\ \A i \in 1 .. Len(cut) : cut[i] = pkt[i]

LEMMA CutReads ==
  ASSUME NEW cut, NEW pkt, CutOf(cut, pkt), NEW p \in Nat, p > 0, NEW n \in Nat
  PROVE  /\ Has(cut, p, n) => Has(pkt, p, n)
         /\ Has(cut, p, 1) => cut[p] = pkt[p]
         /\ Has(cut, p, 2) => Word(cut, p) = Word(pkt, p)
         /\ Has(cut, p, n) => SubSeq(cut, p, p + n - 1) = SubSeq(pkt, p, p + n - 1)
<1>1. /\ Len(cut) \in Nat /\ Len(pkt) \in Nat /\ Len(cut) <= Len(pkt)
      /\ EndOf(cut) = Len(cut) + 1 /\ EndOf(pkt) = Len(pkt) + 1
  BY DEF CutOf, EndOf
<1>2. Has(cut, p, n) => Has(pkt, p, n)
  BY <1>1 DEF Has
<1>3. Has(cut, p, 1) => cut[p] = pkt[p]
  <2>1. Has(cut, p, 1) => p \in 1 .. Len(cut)
    BY <1>1 DEF Has
  <2> QED
    BY <2>1 DEF CutOf
<1>4. Has(cut, p, 2) => Word(cut, p) = Word(pkt, p)
  <2>1. Has(cut, p, 2) => p \in 1 .. Len(cut) /\ p + 1 \in 1 .. Len(cut)
    BY <1>1 DEF Has
  <2>2. Has(cut, p, 2) => cut[p] = pkt[p] /\ cut[p + 1] = pkt[p + 1]
    BY <2>1 DEF CutOf
  <2> QED
    BY <2>2 DEF Word
<1>5. ASSUME Has(cut, p, n) PROVE SubSeq(cut, p, p + n - 1) = SubSeq(pkt, p, p + n - 1)
  <2> DEFINE e == p + n - 1
  <2>1. e \in Int /\ e <= Len(cut) /\ e <= Len(pkt)
    BY <1>1, <1>5 DEF Has
  <2>2. \A i \in 1 .. (e + 1) - p : p + i - 1 \in 1 .. Len(cut)
    BY <1>1, <2>1
  <2>3. \A i \in 1 .. (e + 1) - p : cut[p + i - 1] = pkt[p + i - 1]
    BY <2>2 DEF CutOf
  <2> HIDE DEF e
  <2>4. /\ SubSeq(cut, p, e) = [i \in 1 .. (e + 1) - p |-> cut[p + i - 1]]
        /\ SubSeq(pkt, p, e) = [i \in 1 .. (e + 1) - p |-> pkt[p + i - 1]]
    BY <1>1, <2>1 DEF CutOf
  <2> QED
    BY <2>3, <2>4 DEF e
<1> QED
  BY <1>2, <1>3, <1>4, <1>5

LEMMA CutPlaces ==
  ASSUME NEW cut, NEW pkt, CutOf(cut, pkt), NEW p \in Pos(cut)
  PROVE  p \in Pos(pkt) /\ p \in Nat /\ p > 0 /\ ~Has(cut, EndOf(cut), 4) /\ ~Has(cut, EndOf(cut), 10)
         /\ EndOf(cut) - p \in Nat
BY DEF CutOf, Pos, EndOf, Has

LEMMA CutStepsOver ==
  ASSUME NEW cut, NEW pkt, CutOf(cut, pkt), NEW p \in Pos(cut), NEW lim \in 1..192,
         StepsOver(cut, p, lim)
  PROVE  /\ StepsOver(pkt, p, lim) /\ cut[p] = pkt[p]
         /\ p + 1 + cut[p] \in Pos(cut)
         /\ EndOf(cut) - (p + 1 + cut[p]) < EndOf(cut) - p
         /\ \A label, idx : ScanOn(cut, p, label, idx) = ScanOn(pkt, p, label, idx)
<1>1. cut \in Seq(Byte) /\ pkt \in Seq(Byte)
  BY DEF CutOf
<1>2. cut[p] \in 1 .. lim - 1 /\ p + 1 + cut[p] \in Pos(cut)
      /\ EndOf(cut) - (p + 1 + cut[p]) < EndOf(cut) - p
  BY <1>1, StepAhead
<1>3. p \in Nat /\ p > 0
  BY CutPlaces
<1>4. PICK b \in Nat : b = cut[p]
  BY <1>2
<1>5. cut[p] = pkt[p] /\ Has(pkt, p, 1)
  BY <1>3, CutReads DEF StepsOver
<1>6. p + 1 \in Nat /\ p + 1 > 0
  BY <1>3
<1>7. Has(pkt, p + 1, b) /\ SubSeq(cut, p + 1, p + 1 + b - 1) = SubSeq(pkt, p + 1, p + 1 + b - 1)
  <2>1. Has(cut, p + 1, b)
    BY <1>4 DEF StepsOver
  <2> QED
    BY <1>6, <2>1, CutReads
<1>8. StepsOver(pkt, p, lim)
  BY <1>4, <1>5, <1>7 DEF StepsOver
<1>9. \A label, idx : Matched(cut, p + 1, b, label, idx) = Matched(pkt, p + 1, b, label, idx)
  BY <1>7 DEF Matched
<1>10. \A label, idx : ScanOn(cut, p, label, idx) = ScanOn(pkt, p, label, idx)
  BY <1>4, <1>5, <1>9 DEF ScanOn
<1> QED
  BY <1>2, <1>5, <1>8, <1>10

LEMMA CutEnds ==
  ASSUME NEW cut, NEW pkt, CutOf(cut, pkt), NEW p \in Pos(cut), NEW idx
  PROVE  /\ \/ SkipEnd(cut, p) = NoPos
            \/ ~StepsOver(pkt, p, 64) /\ SkipEnd(cut, p) = SkipEnd(pkt, p)
         /\ \/ ScanEnd(cut, p, idx) = Miss(cut)
            \/ ~StepsOver(pkt, p, 192) /\ ScanEnd(cut, p, idx) = ScanEnd(pkt, p, idx)
<1>1. cut \in Seq(Byte) /\ pkt \in Seq(Byte) /\ p \in Nat /\ p > 0
  BY CutPlaces DEF CutOf
<1>2. CASE ~Has(cut, p, 1)
  BY <1>2 DEF SkipEnd, ScanEnd
<1>3. CASE Has(cut, p, 1)
  <2>1. PICK b \in 0..255 : b = cut[p]
    BY <1>1, <1>3, Positions
  <2>2. b = pkt[p] /\ Has(pkt, p, 1) /\ (Has(cut, p, 2) => Has(pkt, p, 2))
    BY <1>1, <1>3, <2>1, CutReads
  <2>3. 64 - 1 = 63 /\ 192 - 1 = 191
    OBVIOUS
  <2>4. CASE b >= 192 /\ Has(cut, p, 2)
    <3>1. b \notin 1..63 /\ b \notin 1..191 /\ b # 0
      BY <2>4, LengthByte
    <3>2. ~StepsOver(pkt, p, 64) /\ ~StepsOver(pkt, p, 192)
      BY <2>2, <2>3, <3>1 DEF StepsOver
    <3>3. SkipEnd(cut, p) = p + 2 /\ SkipEnd(pkt, p) = p + 2
      BY <1>3, <2>1, <2>2, <2>4 DEF SkipEnd
    <3>4. ScanEnd(cut, p, idx) = [ok |-> FALSE, next |-> p + 2]
          /\ ScanEnd(pkt, p, idx) = [ok |-> FALSE, next |-> p + 2]
      BY <1>3, <2>1, <2>2, <2>4 DEF ScanEnd
    <3> QED
      BY <3>2, <3>3, <3>4
  <2>5. CASE b = 0
    <3>1. b \notin 1..63 /\ b \notin 1..191 /\ ~(b >= 192)
      BY <2>5, LengthByte
    <3>2. ~StepsOver(pkt, p, 64) /\ ~StepsOver(pkt, p, 192)
      BY <2>2, <2>3, <3>1 DEF StepsOver
    <3>3. SkipEnd(cut, p) = p + 1 /\ SkipEnd(pkt, p) = p + 1
      BY <1>3, <2>1, <2>2, <2>5, <3>1 DEF SkipEnd
    <3>4. ScanEnd(cut, p, idx) = [ok |-> idx = 2, next |-> p + 1]
          /\ ScanEnd(pkt, p, idx) = [ok |-> idx = 2, next |-> p + 1]
      BY <1>3, <2>1, <2>2, <2>5, <3>1 DEF ScanEnd
    <3> QED
      BY <3>2, <3>3, <3>4
  <2>6. CASE ~(b >= 192 /\ Has(cut, p, 2)) /\ b # 0
    BY <2>1, <2>6 DEF SkipEnd, ScanEnd
  <2> QED
    BY <2>4, <2>5, <2>6
<1> QED
  BY <1>2, <1>3

\* A name in the part that is left is read as in the whole, or not at all.
LEMMA CutNames ==
  ASSUME NEW cut, NEW pkt, CutOf(cut, pkt), NEW p \in Pos(cut), NEW label
  PROVE  /\ skip_name(cut, p) = NoPos \/ skip_name(cut, p) = skip_name(pkt, p)
         /\ \/ name_matches(cut, p, label) = Miss(cut)
            \/ name_matches(cut, p, label) = name_matches(pkt, p, label)
<1>1. cut \in Seq(Byte) /\ pkt \in Seq(Byte)
  BY DEF CutOf
<1>2. PICK f, g : IsSkip(f, cut) /\ IsSkip(g, pkt)
  BY <1>1, SkipIs
<1>3. PICK a, b : IsScan(a, cut, label) /\ IsScan(b, pkt, label)
  BY <1>1, ScanIs
<1> DEFINE left == [q \in Pos(cut) |-> EndOf(cut) - q]
           S == {q \in Pos(cut) :
                   /\ f[q] = NoPos \/ f[q] = g[q]
                   /\ \A i \in 0..3 : a[<<q, i>>] = Miss(cut) \/ a[<<q, i>>] = b[<<q, i>>]}
<1>4. left \in [Pos(cut) -> Nat]
  BY CutPlaces
<1>5. ASSUME NEW q \in Pos(cut), \A r \in Pos(cut) : left[r] < left[q] => r \in S
      PROVE  q \in S
  <2>0. q \in Pos(pkt)
    BY CutPlaces
  <2>1. f[q] = NoPos \/ f[q] = g[q]
    <3>1. CASE StepsOver(cut, q, 64)
      <4> DEFINE r == q + 1 + cut[q]
      <4>1. 64 \in 1..192
        OBVIOUS
      <4>2. StepsOver(pkt, q, 64) /\ cut[q] = pkt[q] /\ r \in Pos(cut)
            /\ EndOf(cut) - r < EndOf(cut) - q
        BY <3>1, <4>1, CutStepsOver
      <4>3. f[q] = f[r] /\ g[q] = g[r]
        BY <1>2, <2>0, <3>1, <4>2 DEF IsSkip
      <4> HIDE DEF r
      <4>4. r \in S
        BY <1>5, <4>2
      <4> QED
        BY <4>3, <4>4
    <3>2. CASE ~StepsOver(cut, q, 64)
      <4>1. f[q] = SkipEnd(cut, q)
        BY <1>2, <3>2 DEF IsSkip
      <4>2. ~StepsOver(pkt, q, 64) => g[q] = SkipEnd(pkt, q)
        BY <1>2, <2>0 DEF IsSkip
      <4> QED
        BY <4>1, <4>2, CutEnds
    <3> QED
      BY <3>1, <3>2
  <2>2. ASSUME NEW i \in 0..3 PROVE a[<<q, i>>] = Miss(cut) \/ a[<<q, i>>] = b[<<q, i>>]
    <3>1. CASE StepsOver(cut, q, 192)
      <4> DEFINE r == q + 1 + cut[q]
                 j == Matched(cut, q + 1, cut[q], label, i)
      <4>1. 192 \in 1..192
        OBVIOUS
      <4>2. StepsOver(pkt, q, 192) /\ r \in Pos(cut) /\ EndOf(cut) - r < EndOf(cut) - q
            /\ ScanOn(cut, q, label, i) = ScanOn(pkt, q, label, i)
        BY <3>1, <4>1, CutStepsOver
      <4>3. a[<<q, i>>] = a[ScanOn(cut, q, label, i)]
        BY <1>3, <3>1 DEF IsScan
      <4>4. b[<<q, i>>] = b[ScanOn(cut, q, label, i)]
        <5>1. b[<<q, i>>] = b[ScanOn(pkt, q, label, i)]
          <6>1. StepsOver(pkt, q, 192)
            BY <4>2
          <6> QED
            BY <1>3, <2>0, <6>1 DEF IsScan
        <5> QED
          BY <4>2, <5>1
      <4>5. ScanOn(cut, q, label, i) = <<r, j>> /\ j \in 0..3
        BY DEF ScanOn, Matched
      <4> HIDE DEF r, j
      <4>6. r \in S
        BY <1>5, <4>2
      <4> QED
        BY <4>3, <4>4, <4>5, <4>6
    <3>2. CASE ~StepsOver(cut, q, 192)
      <4>1. a[<<q, i>>] = ScanEnd(cut, q, i)
        BY <1>3, <3>2 DEF IsScan
      <4>2. ~StepsOver(pkt, q, 192) => b[<<q, i>>] = ScanEnd(pkt, q, i)
        BY <1>3, <2>0 DEF IsScan
      <4> QED
        BY <4>1, <4>2, CutEnds
    <3> QED
      BY <3>1, <3>2
  <2> QED
    BY <2>1, <2>2
<1> HIDE DEF S, left
<1>6. p \in S
  BY <1>4, <1>5, MeasureInduction
<1>7. p \in Pos(pkt)
  BY CutPlaces
<1>8. skip_name(cut, p) = f[p] /\ skip_name(pkt, p) = g[p]
  BY <1>2, <1>7 DEF IsSkip
<1>9. name_matches(cut, p, label) = a[<<p, 0>>] /\ name_matches(pkt, p, label) = b[<<p, 0>>]
  BY <1>3, <1>7 DEF IsScan
<1>10. 0 \in 0..3
  OBVIOUS
<1> QED
  BY <1>6, <1>8, <1>9, <1>10 DEF S

LEMMA CutBehind ==
  ASSUME NEW cut, NEW pkt, CutOf(cut, pkt), NEW q \in Pos(cut)
  PROVE  /\ BehindQuestion(cut, q) # NoPos =>
              /\ BehindQuestion(pkt, q) = BehindQuestion(cut, q) /\ q # EndOf(cut)
              /\ Word(cut, q) = Word(pkt, q) /\ Word(cut, q + 2) = Word(pkt, q + 2)
         /\ BehindRecord(cut, q) # NoPos =>
              /\ BehindRecord(pkt, q) = BehindRecord(cut, q) /\ q # EndOf(cut)
              /\ Word(cut, q) = Word(pkt, q) /\ DataLen(cut, q) = DataLen(pkt, q)
              /\ DataLen(cut, q) = 4 =>
                   SubSeq(cut, BehindRecord(cut, q) - 4, BehindRecord(cut, q) - 1)
                     = SubSeq(pkt, BehindRecord(cut, q) - 4, BehindRecord(cut, q) - 1)
<1>1. /\ cut \in Seq(Byte) /\ q \in Nat /\ q > 0 /\ Len(cut) \in Nat
      /\ EndOf(cut) = Len(cut) + 1
      /\ ~Has(cut, EndOf(cut), 4) /\ ~Has(cut, EndOf(cut), 10)
  BY CutPlaces DEF CutOf, EndOf
<1>2. ASSUME Has(cut, q, 4)
      PROVE  /\ Has(pkt, q, 4) /\ Word(cut, q) = Word(pkt, q)
             /\ Word(cut, q + 2) = Word(pkt, q + 2)
  <2>1. Has(cut, q, 2) /\ Has(cut, q + 2, 2)
    BY <1>1, <1>2 DEF Has
  <2>2. Has(pkt, q, 4)
    BY <1>1, <1>2, CutReads
  <2>3. Word(cut, q) = Word(pkt, q)
    BY <1>1, <2>1, CutReads
  <2>4. Word(cut, q + 2) = Word(pkt, q + 2)
    <3>1. q + 2 \in Nat /\ q + 2 > 0
      BY <1>1
    <3> QED
      BY <2>1, <3>1, CutReads
  <2> QED
    BY <2>2, <2>3, <2>4
<1>3. ASSUME BehindQuestion(cut, q) # NoPos
      PROVE  /\ BehindQuestion(pkt, q) = BehindQuestion(cut, q) /\ q # EndOf(cut)
             /\ Word(cut, q) = Word(pkt, q) /\ Word(cut, q + 2) = Word(pkt, q + 2)
  <2>1. q # NoPos /\ Has(cut, q, 4)
    BY <1>3 DEF BehindQuestion
  <2> QED
    BY <1>1, <1>2, <2>1 DEF BehindQuestion
<1>4. ASSUME BehindRecord(cut, q) # NoPos
      PROVE  /\ BehindRecord(pkt, q) = BehindRecord(cut, q) /\ q # EndOf(cut)
             /\ Word(cut, q) = Word(pkt, q) /\ DataLen(cut, q) = DataLen(pkt, q)
             /\ DataLen(cut, q) = 4 =>
                  SubSeq(cut, BehindRecord(cut, q) - 4, BehindRecord(cut, q) - 1)
                    = SubSeq(pkt, BehindRecord(cut, q) - 4, BehindRecord(cut, q) - 1)
  <2>1. Has(cut, q, 10) /\ Has(cut, q + 10, DataLen(cut, q))
        /\ BehindRecord(cut, q) = q + 10 + DataLen(cut, q)
    BY <1>4 DEF BehindRecord, DataAt
  <2>2. Has(cut, q, 4) /\ Has(cut, q + 8, 2) /\ q + 8 \in Nat /\ q + 8 > 0
        /\ q + 8 >= 1 /\ q + 8 + 1 <= Len(cut)
    BY <1>1, <2>1 DEF Has
  <2>3. DataLen(cut, q) = DataLen(pkt, q)
    BY <2>2, CutReads DEF DataLen
  <2>4. PICK d \in Nat : d = DataLen(cut, q)
    BY <1>1, <2>2, WordIs DEF DataLen
  <2>5. q + 10 \in Nat /\ q + 10 > 0 /\ 10 \in Nat
    BY <1>1
  <2>6. Has(pkt, q, 10)
    BY <1>1, <2>1, <2>5, CutReads
  <2>7. Has(pkt, q + 10, d) /\ SubSeq(cut, q + 10, q + 10 + d - 1) = SubSeq(pkt, q + 10, q + 10 + d - 1)
    <3>1. Has(cut, q + 10, d)
      BY <2>1, <2>4
    <3> QED
      BY <2>5, <3>1, CutReads
  <2>8. BehindRecord(pkt, q) = BehindRecord(cut, q)
    BY <2>1, <2>3, <2>4, <2>6, <2>7 DEF BehindRecord, DataAt
  <2>9. ASSUME DataLen(cut, q) = 4
        PROVE  SubSeq(cut, BehindRecord(cut, q) - 4, BehindRecord(cut, q) - 1)
                 = SubSeq(pkt, BehindRecord(cut, q) - 4, BehindRecord(cut, q) - 1)
    <3>1. BehindRecord(cut, q) - 4 = q + 10 /\ BehindRecord(cut, q) - 1 = q + 10 + d - 1
      BY <1>1, <2>1, <2>4, <2>9
    <3> QED
      BY <2>7, <3>1
  <2> QED
    BY <1>1, <1>2, <2>1, <2>2, <2>3, <2>8, <2>9
<1> QED
  BY <1>3, <1>4

\* What a loop reads before it is cut short, it reads in the whole.
LEMMA CutQuestion ==
  ASSUME NEW cut, NEW pkt, CutOf(cut, pkt), NEW p \in Pos(cut), NEW label
  PROVE  /\ NextQuestion(cut, label, p) # NoPos =>
              /\ NextQuestion(pkt, label, p) = NextQuestion(cut, label, p)
              /\ ForHost(pkt, p, label) <=> ForHost(cut, p, label)
         /\ SkipQuestion(cut, p) # NoPos => SkipQuestion(pkt, p) = SkipQuestion(cut, p)
         /\ NextRecord(cut, label, p) # NoPos =>
              /\ NextRecord(pkt, label, p) = NextRecord(cut, label, p)
              /\ HoldsAddress(pkt, p, label) <=> HoldsAddress(cut, p, label)
              /\ HoldsAddress(cut, p, label) =>
                   SubSeq(cut, NextRecord(cut, label, p) - 4, NextRecord(cut, label, p) - 1)
                     = SubSeq(pkt, NextRecord(cut, label, p) - 4, NextRecord(cut, label, p) - 1)
<1>1. cut \in Seq(Byte) /\ p # NoPos
  BY CutPlaces DEF CutOf, NoPos
<1> DEFINE q == name_matches(cut, p, label).next
           r == skip_name(cut, p)
<1>2. q \in Pos(cut) /\ r \in 0 .. EndOf(cut)
  BY <1>1, ScannersTyped
<1>3. q # EndOf(cut) => name_matches(cut, p, label) = name_matches(pkt, p, label)
  BY CutNames DEF Miss
<1>4. r # NoPos => r \in Pos(cut) /\ skip_name(cut, p) = skip_name(pkt, p)
  <2>1. r # NoPos => r \in Pos(cut)
    BY <1>1, <1>2 DEF Pos, EndOf, NoPos
  <2> QED
    BY <2>1, CutNames
<1>5. ASSUME NextQuestion(cut, label, p) # NoPos
      PROVE  /\ NextQuestion(pkt, label, p) = NextQuestion(cut, label, p)
             /\ ForHost(pkt, p, label) <=> ForHost(cut, p, label)
  <2>1. NextQuestion(cut, label, p) = BehindQuestion(cut, q)
    BY <1>1 DEF NextQuestion
  <2>2. /\ BehindQuestion(pkt, q) = BehindQuestion(cut, q) /\ q # EndOf(cut)
        /\ Word(cut, q) = Word(pkt, q) /\ Word(cut, q + 2) = Word(pkt, q + 2)
    BY <1>2, <1>5, <2>1, CutBehind
  <2>3. name_matches(cut, p, label) = name_matches(pkt, p, label)
    BY <1>3, <2>2
  <2> QED
    BY <1>1, <2>1, <2>2, <2>3 DEF NextQuestion, ForHost
<1>6. ASSUME SkipQuestion(cut, p) # NoPos PROVE SkipQuestion(pkt, p) = SkipQuestion(cut, p)
  <2>1. SkipQuestion(cut, p) = BehindQuestion(cut, r)
    BY <1>1 DEF SkipQuestion
  <2>2. r # NoPos
    BY <1>6, <2>1 DEF BehindQuestion
  <2>3. BehindQuestion(pkt, r) = BehindQuestion(cut, r)
    BY <1>4, <1>6, <2>1, <2>2, CutBehind
  <2> QED
    BY <1>1, <1>4, <2>2, <2>3 DEF SkipQuestion
<1>7. ASSUME NextRecord(cut, label, p) # NoPos
      PROVE  /\ NextRecord(pkt, label, p) = NextRecord(cut, label, p)
             /\ HoldsAddress(pkt, p, label) <=> HoldsAddress(cut, p, label)
             /\ HoldsAddress(cut, p, label) =>
                  SubSeq(cut, NextRecord(cut, label, p) - 4, NextRecord(cut, label, p) - 1)
                    = SubSeq(pkt, NextRecord(cut, label, p) - 4, NextRecord(cut, label, p) - 1)
  <2>1. NextRecord(cut, label, p) = BehindRecord(cut, q)
    BY <1>1 DEF NextRecord
  <2>2. /\ BehindRecord(pkt, q) = BehindRecord(cut, q) /\ q # EndOf(cut)
        /\ Word(cut, q) = Word(pkt, q) /\ DataLen(cut, q) = DataLen(pkt, q)
        /\ DataLen(cut, q) = 4 =>
             SubSeq(cut, BehindRecord(cut, q) - 4, BehindRecord(cut, q) - 1)
               = SubSeq(pkt, BehindRecord(cut, q) - 4, BehindRecord(cut, q) - 1)
    BY <1>2, <1>7, <2>1, CutBehind
  <2>3. name_matches(cut, p, label) = name_matches(pkt, p, label)
    BY <1>3, <2>2
  <2> QED
    BY <1>1, <2>1, <2>2, <2>3 DEF NextRecord, HoldsAddress
<1> QED
  BY <1>5, <1>6, <1>7

\* A run of places that stops at NoPos agrees with the other up to there.
Follows(a, b, n) ==
  \A k \in 1..n : a[k] # NoPos => a[k - 1] # NoPos /\ (a[k - 1] = b[k - 1] => a[k] = b[k])
Agrees(a, b, n) ==
  \A k \in 0..n : a[k] # NoPos => \A j \in 0..k : a[j] # NoPos /\ a[j] = b[j]

LEMMA LoopAgrees ==
  ASSUME NEW n \in Nat, NEW a, NEW b, a[0] # NoPos => a[0] = b[0], Follows(a, b, n)
  PROVE  Agrees(a, b, n)
<1> USE DEF Follows, Agrees
<1> DEFINE S == {k \in 0..n : a[k] # NoPos => \A j \in 0..k : a[j] # NoPos /\ a[j] = b[j]}
<1>1. 0 \in S
  <2>1. \A j \in 0..0 : j = 0
    OBVIOUS
  <2> QED
    BY <2>1
<1>2. ASSUME NEW k \in 1..n, k - 1 \in S PROVE k \in S
  <2>1. ASSUME a[k] # NoPos, NEW j \in 0..k PROVE a[j] # NoPos /\ a[j] = b[j]
    <3>1. k - 1 \in 0 .. k - 1 /\ (j # k => j \in 0 .. k - 1)
      OBVIOUS
    <3>2. a[k - 1] = b[k - 1] /\ (j # k => a[j] # NoPos /\ a[j] = b[j])
      BY <1>2, <2>1, <3>1
    <3> QED
      BY <2>1, <3>2
  <2>2. k \in 0..n
    OBVIOUS
  <2> QED
    BY <2>1, <2>2
<1> HIDE DEF S
<1>3. \A k \in 0..n : k \in S
  BY <1>1, <1>2, CountUp
<1> QED
  BY <1>3 DEF S

\* Where parse_answer finds its records, and those that hold the address.
Places(pkt, label) == Records(pkt, Skipped(pkt)[QdCount(pkt)], label)
Hits(pkt, label) ==
  {k \in 1 .. AnCount(pkt) :
     Places(pkt, label)[k] # NoPos /\ HoldsAddress(pkt, Places(pkt, label)[k - 1], label)}
First(k, S) == k \in S /\ \A j \in S : k <= j

LEMMA FirstIs ==
  ASSUME NEW S \in SUBSET Nat
  PROVE  /\ S # {} => \E k \in S : First(k, S)
         /\ \A k : First(k, S) => (CHOOSE i \in S : \A j \in S : i <= j) = k
<1>1. S # {} => \E k \in S : First(k, S)
  BY LeastNat DEF First
<1>2. ASSUME NEW k, First(k, S) PROVE (CHOOSE i \in S : \A j \in S : i <= j) = k
  <2> DEFINE c == CHOOSE i \in S : \A j \in S : i <= j
  <2>1. c \in S /\ \A j \in S : c <= j
    BY <1>2 DEF First
  <2>2. k \in S /\ \A j \in S : k <= j
    BY <1>2 DEF First
  <2> HIDE DEF c
  <2>3. c \in Nat /\ k \in Nat /\ c <= k /\ k <= c
    BY <2>1, <2>2
  <2> QED
    BY <2>3 DEF c
<1> QED
  BY <1>1, <1>2

LEMMA AnswerIs ==
  ASSUME NEW pkt \in Seq(Byte), NEW label
  PROVE  /\ Len(pkt) < 12 \/ Flags(pkt) < TopBit \/ Hits(pkt, label) = {} =>
              parse_answer(pkt, label) = NoAddr
         /\ Len(pkt) >= 12 /\ Hits(pkt, label) # {} => \E k : First(k, Hits(pkt, label))
         /\ \A k : Len(pkt) >= 12 /\ ~(Flags(pkt) < TopBit) /\ First(k, Hits(pkt, label)) =>
              parse_answer(pkt, label)
                = SubSeq(pkt, Places(pkt, label)[k] - 4, Places(pkt, label)[k] - 1)
<1> DEFINE first == CHOOSE k \in Hits(pkt, label) : \A j \in Hits(pkt, label) : k <= j
<1>1. parse_answer(pkt, label)
        = IF Len(pkt) < 12 \/ Flags(pkt) < TopBit \/ Hits(pkt, label) = {} THEN NoAddr
          ELSE SubSeq(pkt, Places(pkt, label)[first] - 4, Places(pkt, label)[first] - 1)
  BY DEF parse_answer, Hits, Places
<1>2. Len(pkt) >= 12 => Hits(pkt, label) \in SUBSET Nat
  BY CountsTyped DEF Hits
<1>3. Len(pkt) \in Nat
  OBVIOUS
<1>4. Len(pkt) >= 12 /\ Hits(pkt, label) # {} => \E k : First(k, Hits(pkt, label))
  BY <1>2, FirstIs
<1>5. \A k : Len(pkt) >= 12 /\ First(k, Hits(pkt, label)) => first = k
  BY <1>2, FirstIs
<1>6. \A k : First(k, Hits(pkt, label)) => Hits(pkt, label) # {}
  BY DEF First
<1> HIDE DEF first
<1>7. ~(Len(pkt) >= 12 /\ Len(pkt) < 12)
  BY <1>3
<1> QED
  BY <1>1, <1>4, <1>5, <1>6, <1>7

LEMMA CutCounts ==
  ASSUME NEW cut, NEW pkt, CutOf(cut, pkt), Len(cut) >= 12
  PROVE  /\ cut \in Seq(Byte) /\ pkt \in Seq(Byte) /\ Len(pkt) >= 12
         /\ Flags(cut) = Flags(pkt) /\ QdCount(cut) = QdCount(pkt)
         /\ AnCount(cut) = AnCount(pkt)
<1>1. /\ cut \in Seq(Byte) /\ pkt \in Seq(Byte) /\ Len(cut) \in Nat /\ Len(pkt) \in Nat
      /\ Len(cut) <= Len(pkt)
  BY DEF CutOf
<1>2. ASSUME NEW p \in Nat, p > 0, p <= 7 PROVE Word(cut, p) = Word(pkt, p)
  <2>1. Has(cut, p, 2)
    BY <1>1, <1>2 DEF Has, EndOf
  <2> QED
    BY <1>2, <2>1, CutReads
<1>3. Word(cut, 3) = Word(pkt, 3) /\ Word(cut, 5) = Word(pkt, 5) /\ Word(cut, 7) = Word(pkt, 7)
  BY <1>2
<1> QED
  BY <1>1, <1>3 DEF Flags, QdCount, AnCount

\* The loops over what is left stand where those over the whole stand, or nowhere.
LEMMA CutLoops ==
  ASSUME NEW cut, NEW pkt, CutOf(cut, pkt), Len(cut) >= 12, NEW label
  PROVE  /\ Agrees(Questions(cut, label), Questions(pkt, label), QdCount(cut))
         /\ Agrees(Skipped(cut), Skipped(pkt), QdCount(cut))
         /\ Agrees(Places(cut, label), Places(pkt, label), AnCount(cut))
<1>1. /\ cut \in Seq(Byte) /\ pkt \in Seq(Byte) /\ Len(pkt) >= 12
      /\ QdCount(cut) = QdCount(pkt) /\ AnCount(cut) = AnCount(pkt)
      /\ QdCount(cut) \in Nat /\ AnCount(cut) \in Nat
  BY CutCounts, CountsTyped
<1>2. \A p \in 0 .. EndOf(cut) : p # NoPos => p \in Pos(cut)
  BY <1>1 DEF Pos, EndOf, NoPos
<1>3. \A n \in Nat : \A k \in 1..n : k - 1 \in 0..n
  OBVIOUS
<1>4. Agrees(Questions(cut, label), Questions(pkt, label), QdCount(cut))
  <2> DEFINE a == Questions(cut, label)
             b == Questions(pkt, label)
             n == QdCount(cut)
  <2>1. /\ a \in [0..n -> 0 .. EndOf(cut)] /\ a[0] = 13 /\ b[0] = 13
        /\ \A k \in 1..n : a[k] = NextQuestion(cut, label, a[k - 1])
                           /\ b[k] = NextQuestion(pkt, label, b[k - 1])
    BY <1>1, QuestionsIs
  <2> HIDE DEF a, b, n
  <2>2. ASSUME NEW k \in 1..n, a[k] # NoPos
        PROVE  a[k - 1] # NoPos /\ (a[k - 1] = b[k - 1] => a[k] = b[k])
    <3>1. a[k] = NextQuestion(cut, label, a[k - 1]) /\ b[k] = NextQuestion(pkt, label, b[k - 1])
      BY <2>1
    <3>2. a[k - 1] # NoPos
      BY <2>2, <3>1 DEF NextQuestion
    <3>3. a[k - 1] \in Pos(cut)
      BY <1>1, <1>2, <1>3, <2>1, <3>2 DEF n
    <3>4. NextQuestion(pkt, label, a[k - 1]) = NextQuestion(cut, label, a[k - 1])
      BY <2>2, <3>1, <3>3, CutQuestion
    <3> QED
      BY <3>1, <3>2, <3>4
  <2>3. n \in Nat /\ Follows(a, b, n)
    BY <1>1, <2>2 DEF n, Follows
  <2> QED
    BY <2>1, <2>3, LoopAgrees DEF a, b, n
<1>5. Agrees(Skipped(cut), Skipped(pkt), QdCount(cut))
  <2> DEFINE a == Skipped(cut)
             b == Skipped(pkt)
             n == QdCount(cut)
  <2>1. /\ a \in [0..n -> 0 .. EndOf(cut)] /\ a[0] = 13 /\ b[0] = 13
        /\ \A k \in 1..n : a[k] = SkipQuestion(cut, a[k - 1])
                           /\ b[k] = SkipQuestion(pkt, b[k - 1])
    BY <1>1, SkippedIs
  <2> HIDE DEF a, b, n
  <2>2. ASSUME NEW k \in 1..n, a[k] # NoPos
        PROVE  a[k - 1] # NoPos /\ (a[k - 1] = b[k - 1] => a[k] = b[k])
    <3>1. a[k] = SkipQuestion(cut, a[k - 1]) /\ b[k] = SkipQuestion(pkt, b[k - 1])
      BY <2>1
    <3>2. a[k - 1] # NoPos
      BY <2>2, <3>1 DEF SkipQuestion
    <3>3. a[k - 1] \in Pos(cut)
      BY <1>1, <1>2, <1>3, <2>1, <3>2 DEF n
    <3>4. SkipQuestion(pkt, a[k - 1]) = SkipQuestion(cut, a[k - 1])
      BY <2>2, <3>1, <3>3, CutQuestion
    <3> QED
      BY <3>1, <3>2, <3>4
  <2>3. n \in Nat /\ Follows(a, b, n)
    BY <1>1, <2>2 DEF n, Follows
  <2> QED
    BY <2>1, <2>3, LoopAgrees DEF a, b, n
<1>6. Agrees(Places(cut, label), Places(pkt, label), AnCount(cut))
  <2> DEFINE a == Places(cut, label)
             b == Places(pkt, label)
             n == AnCount(cut)
  <2>1. /\ Skipped(cut)[QdCount(cut)] \in 0 .. EndOf(cut)
        /\ Skipped(pkt)[QdCount(pkt)] \in 0 .. EndOf(pkt)
    <3>1. QdCount(cut) \in 0 .. QdCount(cut) /\ QdCount(pkt) \in 0 .. QdCount(pkt)
      BY <1>1
    <3> QED
      BY <1>1, <3>1, SkippedIs
  <2>2. /\ a \in [0..n -> 0 .. EndOf(cut)] /\ a[0] = Skipped(cut)[QdCount(cut)]
        /\ b[0] = Skipped(pkt)[QdCount(pkt)]
        /\ \A k \in 1..n : a[k] = NextRecord(cut, label, a[k - 1])
                           /\ b[k] = NextRecord(pkt, label, b[k - 1])
    BY <1>1, <2>1, RecordsIs, SMTT(30) DEF Places
  <2>3. a[0] # NoPos => a[0] = b[0]
    <3>1. QdCount(cut) \in 0 .. QdCount(cut)
      BY <1>1
    <3> QED
      BY <1>1, <1>5, <2>2, <3>1 DEF Agrees
  <2> HIDE DEF a, b, n
  <2>4. ASSUME NEW k \in 1..n, a[k] # NoPos
        PROVE  a[k - 1] # NoPos /\ (a[k - 1] = b[k - 1] => a[k] = b[k])
    <3>1. a[k] = NextRecord(cut, label, a[k - 1]) /\ b[k] = NextRecord(pkt, label, b[k - 1])
      BY <2>2
    <3>2. a[k - 1] # NoPos
      BY <2>4, <3>1 DEF NextRecord
    <3>3. a[k - 1] \in Pos(cut)
      BY <1>1, <1>2, <1>3, <2>2, <3>2 DEF n
    <3>4. NextRecord(pkt, label, a[k - 1]) = NextRecord(cut, label, a[k - 1])
      BY <2>4, <3>1, <3>3, CutQuestion
    <3> QED
      BY <3>1, <3>2, <3>4
  <2>5. n \in Nat /\ Follows(a, b, n)
    BY <1>1, <2>4 DEF n, Follows
  <2> QED
    BY <2>3, <2>5, LoopAgrees DEF a, b, n
<1> QED
  BY <1>4, <1>5, <1>6

\* A packet that is cut short says nothing that the whole does not say, whatever
\* bytes it is made of: no question for a host, and no other address than the
\* whole's.
THEOREM CutSaysNoMore ==
  ASSUME NEW cut, NEW pkt, CutOf(cut, pkt), NEW label
  PROVE  /\ is_query_for(cut, label) => is_query_for(pkt, label)
         /\ parse_answer(cut, label) \in {NoAddr, parse_answer(pkt, label)}
<1>1. cut \in Seq(Byte) /\ pkt \in Seq(Byte)
  BY DEF CutOf
<1>2. CASE Len(cut) < 12
  <2>1. Len(cut) \in Nat /\ ~(Len(cut) >= 12)
    BY <1>1, <1>2
  <2>2. parse_answer(cut, label) = NoAddr
    BY <1>1, <1>2, AnswerIs
  <2>3. ~is_query_for(cut, label)
    BY <2>1 DEF is_query_for
  <2> QED
    BY <2>2, <2>3
<1>3. CASE Len(cut) >= 12
  <2>1. /\ Len(pkt) >= 12 /\ Flags(cut) = Flags(pkt) /\ QdCount(cut) = QdCount(pkt)
        /\ AnCount(cut) = AnCount(pkt) /\ QdCount(cut) \in Nat /\ AnCount(cut) \in Nat
    BY <1>1, <1>3, CutCounts, CountsTyped
  <2>2. \A p \in 0 .. EndOf(cut) : p # NoPos => p \in Pos(cut)
    BY <1>1 DEF Pos, EndOf, NoPos
  <2>3. ASSUME is_query_for(cut, label) PROVE is_query_for(pkt, label)
    <3> DEFINE a == Questions(cut, label)
               b == Questions(pkt, label)
               n == QdCount(cut)
    <3>1. PICK k \in 1..n : a[k] # NoPos /\ ForHost(cut, a[k - 1], label)
      BY <2>3 DEF is_query_for
    <3>2. k \in 0..n /\ k \in 0..k /\ k - 1 \in 0..k /\ k - 1 \in 0..n
      BY <2>1
    <3>3. a[k] = b[k] /\ a[k - 1] = b[k - 1] /\ a[k - 1] # NoPos
      BY <1>3, <3>1, <3>2, CutLoops DEF Agrees
    <3>4. a[k - 1] \in Pos(cut) /\ a[k] = NextQuestion(cut, label, a[k - 1])
      BY <1>1, <1>3, <2>2, <3>2, <3>3, QuestionsIs
    <3>5. ForHost(pkt, a[k - 1], label)
      BY <3>1, <3>4, CutQuestion
    <3>6. k \in 1 .. QdCount(pkt) /\ b[k] # NoPos /\ ForHost(pkt, b[k - 1], label)
      BY <2>1, <3>1, <3>3, <3>5
    <3> QED
      BY <2>1, <2>3, <3>6 DEF is_query_for
  <2>4. ASSUME parse_answer(cut, label) # NoAddr
        PROVE  parse_answer(cut, label) = parse_answer(pkt, label)
    <3> DEFINE a == Places(cut, label)
               b == Places(pkt, label)
               n == AnCount(cut)
    <3>1. ~(Flags(cut) < TopBit) /\ Hits(cut, label) # {}
      BY <1>1, <2>4, AnswerIs
    <3>2. PICK k : First(k, Hits(cut, label))
      BY <1>1, <1>3, <3>1, AnswerIs
    <3>3. k \in 1..n /\ a[k] # NoPos /\ HoldsAddress(cut, a[k - 1], label)
      BY <3>2 DEF First, Hits
    <3>4. /\ \A i \in 0 .. AnCount(cut) : a[i] # NoPos =>
               \A j \in 0..i : a[j] # NoPos /\ a[j] = b[j]
          /\ Skipped(cut)[QdCount(cut)] \in 0 .. EndOf(cut)
      <4>1. QdCount(cut) \in 0 .. QdCount(cut)
        BY <2>1
      <4> QED
        BY <1>1, <1>3, <4>1, CutLoops, SkippedIs DEF Agrees
    <3>5. /\ a \in [0..n -> 0 .. EndOf(cut)]
          /\ \A i \in 1..n : a[i] = NextRecord(cut, label, a[i - 1])
      BY <1>1, <1>3, <3>4, RecordsIs DEF Places
    <3> HIDE DEF a, b
    <3>6. ASSUME NEW i \in 1..n, i <= k
          PROVE  /\ a[i] # NoPos /\ a[i] = b[i] /\ a[i - 1] = b[i - 1]
                 /\ HoldsAddress(pkt, a[i - 1], label) <=> HoldsAddress(cut, a[i - 1], label)
                 /\ HoldsAddress(cut, a[i - 1], label) =>
                      SubSeq(cut, a[i] - 4, a[i] - 1) = SubSeq(pkt, a[i] - 4, a[i] - 1)
      <4>1. k \in 0..n /\ i \in 0..k /\ i - 1 \in 0..k /\ i - 1 \in 0..n
        BY <2>1, <3>3, <3>6
      <4>2. a[i] # NoPos /\ a[i] = b[i] /\ a[i - 1] = b[i - 1] /\ a[i - 1] # NoPos
        BY <3>3, <3>4, <4>1
      <4>3. a[i - 1] \in Pos(cut) /\ a[i] = NextRecord(cut, label, a[i - 1])
        BY <2>2, <3>5, <4>1, <4>2
      <4>4. /\ HoldsAddress(pkt, a[i - 1], label) <=> HoldsAddress(cut, a[i - 1], label)
            /\ HoldsAddress(cut, a[i - 1], label) =>
                 SubSeq(cut, a[i] - 4, a[i] - 1) = SubSeq(pkt, a[i] - 4, a[i] - 1)
        <5> DEFINE p == a[i - 1]
        <5>1. p \in Pos(cut) /\ NextRecord(cut, label, p) = a[i] /\ NextRecord(cut, label, p) # NoPos
          BY <4>2, <4>3
        <5> HIDE DEF p
        <5>2. /\ HoldsAddress(pkt, p, label) <=> HoldsAddress(cut, p, label)
              /\ HoldsAddress(cut, p, label) =>
                   SubSeq(cut, NextRecord(cut, label, p) - 4, NextRecord(cut, label, p) - 1)
                     = SubSeq(pkt, NextRecord(cut, label, p) - 4, NextRecord(cut, label, p) - 1)
          BY <5>1, CutQuestion
        <5> QED
          BY <5>1, <5>2 DEF p
      <4> QED
        BY <4>2, <4>4
    <3>7. k <= k
      BY <2>1, <3>3
    <3>8. k \in Hits(pkt, label)
      BY <2>1, <3>3, <3>6, <3>7 DEF Hits, b
    <3>9. ASSUME NEW j \in Hits(pkt, label) PROVE k <= j
      <4>1. j \in 1..n /\ HoldsAddress(pkt, b[j - 1], label)
        BY <2>1 DEF Hits, b
      <4>2. CASE j <= k
        <5>1. j \in Hits(cut, label)
          BY <3>6, <4>1, <4>2 DEF Hits, a
        <5> QED
          BY <3>2, <5>1 DEF First
      <4> QED
        BY <2>1, <3>3, <4>1, <4>2
    <3>10. First(k, Hits(pkt, label))
      BY <3>8, <3>9 DEF First
    <3>11. parse_answer(cut, label) = SubSeq(cut, a[k] - 4, a[k] - 1)
      BY <1>1, <1>3, <3>1, <3>2, AnswerIs DEF a
    <3>12. parse_answer(pkt, label) = SubSeq(pkt, b[k] - 4, b[k] - 1)
      BY <1>1, <2>1, <3>1, <3>10, AnswerIs DEF b
    <3> QED
      BY <3>3, <3>6, <3>7, <3>11, <3>12
  <2> QED
    BY <2>3, <2>4
<1> QED
  <2>1. Len(cut) \in Nat
    BY <1>1
  <2> QED
    BY <1>2, <1>3, <2>1

-----------------------------------------------------------------------------
(* A packet that starts with the bytes of a message. *)

\* The bytes s stand in the packet from p on.
Holds(pkt, p, s) ==
  /\ pkt \in Seq(Byte) /\ s \in Seq(Byte) /\ p \in Nat /\ p > 0 /\ p + Len(s) <= EndOf(pkt)
  /\ \A i \in 1 .. Len(s) : pkt[p + i - 1] = s[i]

LEMMA HoldsConcat ==
  ASSUME NEW u \in Seq(Byte), NEW v \in Seq(Byte)
  PROVE  /\ u \o v \in Seq(Byte) /\ Len(u \o v) = Len(u) + Len(v)
         /\ \A pkt, p : Holds(pkt, p, u \o v) => Holds(pkt, p, u) /\ Holds(pkt, p + Len(u), v)
<1> DEFINE w == u \o v
           m == Len(u)
           n == Len(v)
<1>1. m \in Nat /\ n \in Nat
  OBVIOUS
<1>2. /\ w \in Seq(Byte) /\ Len(w) = m + n
      /\ \A i \in 1 .. m + n : w[i] = IF i <= m THEN u[i] ELSE v[i - m]
  BY ConcatProperties
<1>3. ASSUME NEW pkt, NEW p, Holds(pkt, p, w) PROVE Holds(pkt, p, u) /\ Holds(pkt, p + m, v)
  <2> HIDE DEF w, m, n
  <2>1. /\ pkt \in Seq(Byte) /\ p \in Nat /\ p > 0 /\ p + (m + n) <= EndOf(pkt)
        /\ \A i \in 1 .. m + n : pkt[p + i - 1] = w[i]
    BY <1>2, <1>3 DEF Holds
  <2>2. EndOf(pkt) \in Nat
    BY <2>1 DEF EndOf
  <2>3. p + m <= EndOf(pkt) /\ (p + m) + n <= EndOf(pkt) /\ p + m \in Nat /\ p + m > 0
    BY <1>1, <2>1, <2>2
  <2>4. ASSUME NEW i \in 1..m PROVE pkt[p + i - 1] = u[i]
    <3>1. i \in 1 .. m + n /\ i <= m
      BY <1>1
    <3> QED
      BY <1>2, <2>1, <3>1
  <2>5. ASSUME NEW i \in 1..n PROVE pkt[(p + m) + i - 1] = v[i]
    <3>1. m + i \in 1 .. m + n /\ ~(m + i <= m) /\ (m + i) - m = i
          /\ (p + m) + i - 1 = p + (m + i) - 1
      BY <1>1, <2>1
    <3>2. w[m + i] = v[i]
      BY <1>2, <3>1
    <3>3. pkt[p + (m + i) - 1] = w[m + i]
      BY <2>1, <3>1
    <3> QED
      BY <3>1, <3>2, <3>3
  <2>6. m = Len(u) /\ n = Len(v)
    BY DEF m, n
  <2>7. Holds(pkt, p, u)
    BY <2>1, <2>3, <2>4, <2>6 DEF Holds
  <2>8. Holds(pkt, p + m, v)
    BY <2>1, <2>3, <2>5, <2>6 DEF Holds
  <2> QED
    BY <2>7, <2>8
<1> QED
  BY <1>2, <1>3

LEMMA HoldsBytes ==
  ASSUME NEW pkt, NEW p, NEW s, Holds(pkt, p, s)
  PROVE  /\ pkt \in Seq(Byte) /\ p \in Pos(pkt) /\ p \in Nat /\ Has(pkt, p, Len(s))
         /\ Len(s) \in Nat /\ EndOf(pkt) \in Nat
         /\ SubSeq(pkt, p, p + Len(s) - 1) = s
         /\ \A i \in 1 .. Len(s) : pkt[p + i - 1] = s[i]
<1>1. /\ pkt \in Seq(Byte) /\ s \in Seq(Byte) /\ p \in Nat /\ p > 0
      /\ p + Len(s) <= EndOf(pkt) /\ \A i \in 1 .. Len(s) : pkt[p + i - 1] = s[i]
  BY DEF Holds
<1>2. Len(s) \in Nat /\ Len(pkt) \in Nat /\ EndOf(pkt) = Len(pkt) + 1
  BY <1>1 DEF EndOf
<1>3. p \in Pos(pkt) /\ Has(pkt, p, Len(s)) /\ EndOf(pkt) \in Nat
  BY <1>1, <1>2 DEF Pos, Has
<1>4. SubSeq(pkt, p, p + Len(s) - 1) = s
  <2> DEFINE e == p + Len(s) - 1
  <2>1. e \in Int /\ e <= Len(pkt) /\ (e + 1) - p = Len(s)
    BY <1>1, <1>2
  <2> HIDE DEF e
  <2>2. SubSeq(pkt, p, e) = [i \in 1 .. (e + 1) - p |-> pkt[p + i - 1]]
    BY <1>1, <1>2, <2>1
  <2>3. s = [i \in 1 .. Len(s) |-> s[i]]
    BY <1>1
  <2> QED
    BY <1>1, <2>1, <2>2, <2>3 DEF e
<1> QED
  BY <1>1, <1>2, <1>3, <1>4

LEMMA U16Is ==
  ASSUME NEW n \in Short
  PROVE  /\ U16(n) \in Seq(Byte) /\ Len(U16(n)) = 2
         /\ \A pkt, p : Holds(pkt, p, U16(n)) => Word(pkt, p) = n /\ Has(pkt, p, 2)
<1>1. n \in Nat /\ n <= 65535
  BY DEF Short
<1>2. PICK a \in Nat : a = n \div 256
  BY <1>1
<1>3. PICK b \in 0..255 : b = n % 256
  BY <1>1
<1>4. n = 256 * a + b
  BY <1>1, <1>2, <1>3
<1>5. a \in Byte /\ b \in Byte
  BY <1>1, <1>4 DEF Byte
<1>6. U16(n) = <<a, b>>
  BY <1>2, <1>3 DEF U16
<1>7. U16(n) \in Seq(Byte) /\ Len(U16(n)) = 2
  BY <1>5, <1>6
<1>8. ASSUME NEW pkt, NEW p, Holds(pkt, p, U16(n)) PROVE Word(pkt, p) = n /\ Has(pkt, p, 2)
  <2> DEFINE s == U16(n)
  <2>1. Len(s) = 2 /\ s[1] = a /\ s[2] = b
    BY <1>6
  <2>2. Holds(pkt, p, s)
    BY <1>8
  <2> HIDE DEF s
  <2>3. p \in Nat /\ Has(pkt, p, 2) /\ \A i \in 1..2 : pkt[p + i - 1] = s[i]
    <3>1. p \in Nat /\ Has(pkt, p, Len(s)) /\ \A i \in 1 .. Len(s) : pkt[p + i - 1] = s[i]
      BY <2>2, HoldsBytes
    <3> QED
      BY <2>1, <3>1
  <2>4. 1 \in 1..2 /\ 2 \in 1..2 /\ p + 1 - 1 = p /\ p + 2 - 1 = p + 1
    BY <2>3
  <2>5. pkt[p] = a /\ pkt[p + 1] = b
    BY <2>1, <2>3, <2>4
  <2> QED
    BY <1>4, <2>3, <2>5 DEF Word
<1> QED
  BY <1>7, <1>8

\* What Joined puts together stands in the packet piece by piece.
LaidOut(pkt, p, ss, at) ==
  /\ at[1] = p /\ at[Len(ss) + 1] = p + Len(Joined(ss))
  /\ \A i \in 1 .. Len(ss) + 1 : at[i] \in Nat
  /\ \A i \in 1 .. Len(ss) : at[i + 1] = at[i] + Len(ss[i]) /\ Holds(pkt, at[i], ss[i])

LEMMA JoinedIs ==
  ASSUME NEW ss \in Seq(Seq(Byte))
  PROVE  /\ Joined(ss) \in Seq(Byte)
         /\ \A pkt, p : Holds(pkt, p, Joined(ss)) => \E at : LaidOut(pkt, p, ss, at)
         /\ Len(ss) = 0 => Joined(ss) = << >>
         /\ Len(ss) = 1 => Joined(ss) = ss[1]
         /\ Len(ss) = 2 => Joined(ss) = ss[1] \o ss[2]
<1> DEFINE n == Len(ss)
           V == Seq(Byte)
           e == << >>
           g == [i \in 1..n |-> [u \in V |-> u \o ss[i]]]
           h == CHOOSE h : h = [i \in 0..n |-> IF i = 0 THEN e ELSE h[i - 1] \o ss[i]]
<1>1. n \in Nat /\ e \in V /\ e = << >> /\ \A i \in 1..n : ss[i] \in V
  OBVIOUS
<1>2. \A u, v \in V : u \o v \in V
  BY HoldsConcat
<1>3. g \in [1..n -> [V -> V]] /\ \A i \in 1..n, u \in V : g[i][u] = u \o ss[i]
  BY <1>1, <1>2
<1>4. Joined(ss) = h[n]
  BY DEF Joined
<1>5. h = CHOOSE f : f = [i \in 0..n |-> IF i = 0 THEN e ELSE f[i - 1] \o ss[i]]
  OBVIOUS
<1> HIDE DEF n, V, e, g, h
<1>6. PICK f \in [0..n -> V] : Iterates(f, n, e, g)
  BY <1>1, <1>3, IterExists DEF Steps
<1>7. f[0] = e /\ \A i \in 1..n : f[i] = f[i - 1] \o ss[i]
  <2>1. \A i \in 1..n : i - 1 \in 0..n
    BY <1>1
  <2> QED
    BY <1>3, <1>6, <2>1 DEF Iterates
<1>8. f = [i \in 0..n |-> IF i = 0 THEN e ELSE f[i - 1] \o ss[i]]
  <2>1. f = [i \in 0..n |-> f[i]]
    OBVIOUS
  <2>2. \A i \in 0..n : i # 0 => i \in 1..n
    BY <1>1
  <2> QED
    BY <1>7, <2>1, <2>2
<1>9. h = [i \in 0..n |-> IF i = 0 THEN e ELSE h[i - 1] \o ss[i]]
  BY <1>5, <1>8
<1>10. h[0] = e /\ \A i \in 1..n : h[i] = h[i - 1] \o ss[i]
  <2>1. 0 \in 0..n /\ \A i \in 1..n : i \in 0..n /\ i # 0
    BY <1>1
  <2> QED
    BY <1>9, <2>1
<1>11. \A i \in 0..n : h[i] \in V
  <2> DEFINE S == {i \in 0..n : h[i] \in V}
  <2>1. 0 \in S
    BY <1>1, <1>10
  <2>2. ASSUME NEW i \in 1..n, i - 1 \in S PROVE i \in S
    <3>1. i \in 0..n
      BY <1>1
    <3> QED
      BY <1>1, <1>2, <1>10, <2>2, <3>1
  <2> HIDE DEF S
  <2>3. \A i \in 0..n : i \in S
    BY <1>1, <2>1, <2>2, CountUp
  <2> QED
    BY <2>3 DEF S
<1>12. n \in 0..n
  BY <1>1
<1>13. Joined(ss) \in Seq(Byte)
  BY <1>4, <1>11, <1>12 DEF V
<1>14. ASSUME NEW pkt, NEW p, Holds(pkt, p, Joined(ss)) PROVE \E at : LaidOut(pkt, p, ss, at)
  <2> DEFINE at == [i \in 1 .. n + 1 |-> p + Len(h[i - 1])]
             S == {i \in 1 .. n + 1 : Holds(pkt, p, h[i - 1])}
  <2>1. n + 1 \in S
    <3>1. n + 1 \in 1 .. n + 1 /\ (n + 1) - 1 = n
      BY <1>1
    <3> QED
      BY <1>4, <1>14, <3>1
  <2>2. ASSUME NEW i \in 1..n
        PROVE  /\ i - 1 \in 0..n /\ i \in 0..n /\ (i + 1) - 1 = i /\ i \in 1 .. n + 1
               /\ i + 1 \in 1 .. n + 1
               /\ h[i] = h[i - 1] \o ss[i] /\ h[i - 1] \in Seq(Byte) /\ ss[i] \in Seq(Byte)
    <3>1. i - 1 \in 0..n /\ i \in 0..n /\ (i + 1) - 1 = i /\ i \in 1 .. n + 1 /\ i + 1 \in 1 .. n + 1
      BY <1>1
    <3> QED
      BY <1>1, <1>10, <1>11, <3>1 DEF V
  <2>3. ASSUME NEW i \in 1..n, i + 1 \in S PROVE i \in S
    <3>1. Holds(pkt, p, h[i - 1] \o ss[i])
      BY <2>2, <2>3
    <3>2. Holds(pkt, p, h[i - 1])
      BY <2>2, <3>1, HoldsConcat
    <3> QED
      BY <2>2, <3>2
  <2> HIDE DEF S
  <2>4. \A i \in 1 .. n + 1 : i \in S
    BY <1>1, <2>1, <2>3, CountDown
  <2>5. ASSUME NEW i \in 1..n
        PROVE  at[i + 1] = at[i] + Len(ss[i]) /\ Holds(pkt, at[i], ss[i])
    <3>1. at[i] = p + Len(h[i - 1]) /\ at[i + 1] = p + Len(h[i])
      BY <2>2
    <3>2. Holds(pkt, p, h[i - 1] \o ss[i])
      BY <2>2, <2>4 DEF S
    <3>3. Holds(pkt, p + Len(h[i - 1]), ss[i])
      BY <2>2, <3>2, HoldsConcat
    <3> DEFINE u == h[i - 1]
               v == ss[i]
    <3>4. h[i] = u \o v /\ u \in Seq(Byte) /\ v \in Seq(Byte) /\ p \in Nat
      BY <1>14, <2>2 DEF Holds
    <3> HIDE DEF u, v
    <3>5. Len(h[i]) = Len(u) + Len(v) /\ Len(u) \in Nat /\ Len(v) \in Nat
      BY <3>4, HoldsConcat
    <3>6. p + Len(h[i]) = (p + Len(u)) + Len(v)
      BY <3>4, <3>5
    <3> QED
      BY <3>1, <3>3, <3>6 DEF u, v
  <2>6. at[1] = p /\ at[n + 1] = p + Len(Joined(ss)) /\ \A i \in 1 .. n + 1 : at[i] \in Nat
    <3>1. 1 \in 1 .. n + 1 /\ n + 1 \in 1 .. n + 1 /\ (n + 1) - 1 = n /\ 1 - 1 = 0 /\ p \in Nat
      BY <1>1, <1>14 DEF Holds
    <3>2. at[1] = p + Len(e)
      BY <1>10, <3>1
    <3>3. Len(e) = 0
      BY DEF e
    <3>4. ASSUME NEW i \in 1 .. n + 1 PROVE at[i] \in Nat
      <4>1. i - 1 \in 0..n
        BY <1>1
      <4>2. Len(h[i - 1]) \in Nat
        BY <1>11, <4>1 DEF V
      <4> QED
        BY <3>1, <4>2
    <3> QED
      BY <1>4, <3>1, <3>2, <3>3, <3>4
  <2> HIDE DEF at
  <2>7. LaidOut(pkt, p, ss, at)
    BY <2>5, <2>6 DEF LaidOut, n
  <2> QED
    BY <2>7
<1>15. n = 0 => Joined(ss) = << >>
  BY <1>1, <1>4, <1>10
<1>16. n >= 1 => h[1] = ss[1]
  <2>1. n >= 1 => 1 \in 1..n /\ 1 - 1 = 0
    BY <1>1
  <2>2. n >= 1 => h[1] = << >> \o ss[1] /\ ss[1] \in Seq(Byte)
    BY <1>1, <1>10, <2>1 DEF V
  <2>3. \A u \in Seq(Byte) : << >> \o u = u
    BY ConcatEmptySeq
  <2> QED
    BY <2>2, <2>3
<1>17. n = 2 => h[2] = h[1] \o ss[2]
  <2>1. n = 2 => 2 \in 1..n /\ 2 - 1 = 1
    BY <1>1
  <2> QED
    BY <1>10, <2>1
<1>18. n = 1 => Joined(ss) = ss[1]
  BY <1>4, <1>16
<1>19. n = 2 => Joined(ss) = ss[1] \o ss[2]
  <2>1. n = 2 => n >= 1
    BY <1>1
  <2> QED
    BY <1>4, <1>16, <1>17, <2>1, Zenon
<1> QED
  BY <1>13, <1>14, <1>15, <1>18, <1>19 DEF n

LEMMA LabelBytesIs ==
  ASSUME NEW l \in Label
  PROVE  /\ LabelBytes(l) \in Seq(Byte) /\ Len(LabelBytes(l)) = Len(l) + 1
         /\ Len(l) \in 1..63 /\ l \in Seq(Byte)
         /\ \A pkt, p : Holds(pkt, p, LabelBytes(l)) =>
              /\ pkt[p] = Len(l) /\ Has(pkt, p, 1) /\ Has(pkt, p + 1, Len(l))
              /\ SubSeq(pkt, p + 1, p + 1 + Len(l) - 1) = l
<1> DEFINE one == <<Len(l)>>
<1>1. l \in Seq(Byte) /\ Len(l) \in 1..63
  BY DEF Label
<1>2. one \in Seq(Byte) /\ Len(one) = 1 /\ one[1] = Len(l)
  BY <1>1 DEF Byte
<1>3. LabelBytes(l) = one \o l
  BY DEF LabelBytes
<1> HIDE DEF one
<1>4. LabelBytes(l) \in Seq(Byte) /\ Len(LabelBytes(l)) = Len(l) + 1
  <2>1. one \o l \in Seq(Byte) /\ Len(one \o l) = Len(one) + Len(l)
    BY <1>1, <1>2, HoldsConcat
  <2> QED
    BY <1>1, <1>2, <1>3, <2>1
<1>5. ASSUME NEW pkt, NEW p, Holds(pkt, p, LabelBytes(l))
      PROVE  /\ pkt[p] = Len(l) /\ Has(pkt, p, 1) /\ Has(pkt, p + 1, Len(l))
             /\ SubSeq(pkt, p + 1, p + 1 + Len(l) - 1) = l
  <2>1. Holds(pkt, p, one) /\ Holds(pkt, p + Len(one), l)
    <3>1. Holds(pkt, p, one \o l) /\ one \in Seq(Byte) /\ l \in Seq(Byte)
      BY <1>1, <1>2, <1>3, <1>5
    <3> QED
      BY <3>1, HoldsConcat
  <2>2. /\ Has(pkt, p, Len(one)) /\ p \in Nat
        /\ \A i \in 1 .. Len(one) : pkt[p + i - 1] = one[i]
    BY <2>1, HoldsBytes
  <2>3. 1 \in 1 .. Len(one) /\ p + 1 - 1 = p
    BY <1>2, <2>2
  <2>4. pkt[p] = Len(l) /\ Has(pkt, p, 1)
    BY <1>2, <2>2, <2>3
  <2>5. Holds(pkt, p + 1, l)
    BY <1>2, <2>1
  <2>6. Has(pkt, p + 1, Len(l)) /\ SubSeq(pkt, p + 1, p + 1 + Len(l) - 1) = l
    BY <2>5, HoldsBytes
  <2> QED
    BY <2>4, <2>6
<1> QED
  BY <1>1, <1>4, <1>5

\* The root and a pointer end a name, two labels long or not.
LEMMA EndIs ==
  ASSUME NEW end \in {Root} \cup ((192..255) \X Byte)
  PROVE  /\ end \in Seq(Byte)
         /\ \A pkt, p, idx : Holds(pkt, p, end) =>
              /\ ~StepsOver(pkt, p, 64) /\ SkipEnd(pkt, p) = p + Len(end)
              /\ ~StepsOver(pkt, p, 192)
              /\ ScanEnd(pkt, p, idx) = [ok |-> end = Root /\ idx = 2, next |-> p + Len(end)]
<1>1. CASE end = Root
  <2>1. end \in Seq(Byte) /\ Len(end) = 1 /\ end[1] = 0
    BY <1>1 DEF Root, Byte
  <2>2. ASSUME NEW pkt, NEW p, NEW idx, Holds(pkt, p, end)
        PROVE  /\ ~StepsOver(pkt, p, 64) /\ SkipEnd(pkt, p) = p + Len(end)
               /\ ~StepsOver(pkt, p, 192)
               /\ ScanEnd(pkt, p, idx) = [ok |-> end = Root /\ idx = 2, next |-> p + Len(end)]
    <3>1. /\ Has(pkt, p, Len(end)) /\ p \in Nat
          /\ \A i \in 1 .. Len(end) : pkt[p + i - 1] = end[i]
      BY <2>2, HoldsBytes
    <3>2. 1 \in 1 .. Len(end) /\ p + 1 - 1 = p
      BY <2>1, <3>1
    <3>3. pkt[p] = 0 /\ Has(pkt, p, 1) /\ 0 \in 0..255
      BY <2>1, <3>1, <3>2
    <3>4. ~(0 >= 192) /\ 0 \notin 1 .. 64 - 1 /\ 0 \notin 1 .. 192 - 1
      OBVIOUS
    <3>5. ~StepsOver(pkt, p, 64) /\ ~StepsOver(pkt, p, 192)
      BY <3>3, <3>4 DEF StepsOver
    <3>6. SkipEnd(pkt, p) = p + 1 /\ ScanEnd(pkt, p, idx) = [ok |-> idx = 2, next |-> p + 1]
      BY <3>3, <3>4 DEF SkipEnd, ScanEnd
    <3> QED
      BY <1>1, <2>1, <3>5, <3>6
  <2> QED
    BY <2>1, <2>2
<1>2. CASE end \in (192..255) \X Byte
  <2>1. PICK a \in 192..255, b \in Byte : end = <<a, b>>
    BY <1>2
  <2>2. a \in Byte
    BY DEF Byte
  <2>3. end \in Seq(Byte) /\ Len(end) = 2 /\ end[1] = a
    BY <2>1, <2>2
  <2>4. end # Root
    BY <2>3 DEF Root
  <2>5. ASSUME NEW pkt, NEW p, NEW idx, Holds(pkt, p, end)
        PROVE  /\ ~StepsOver(pkt, p, 64) /\ SkipEnd(pkt, p) = p + Len(end)
               /\ ~StepsOver(pkt, p, 192)
               /\ ScanEnd(pkt, p, idx) = [ok |-> end = Root /\ idx = 2, next |-> p + Len(end)]
    <3>1. /\ Has(pkt, p, Len(end)) /\ p \in Nat /\ EndOf(pkt) \in Nat
          /\ \A i \in 1 .. Len(end) : pkt[p + i - 1] = end[i]
      BY <2>5, HoldsBytes
    <3>2. 1 \in 1 .. Len(end) /\ p + 1 - 1 = p
      BY <2>3, <3>1
    <3>3. pkt[p] = a /\ Has(pkt, p, 2) /\ Has(pkt, p, 1)
      BY <2>3, <3>1, <3>2 DEF Has
    <3>4. a >= 192 /\ a \notin 1 .. 64 - 1 /\ a \notin 1 .. 192 - 1
      OBVIOUS
    <3>5. ~StepsOver(pkt, p, 64) /\ ~StepsOver(pkt, p, 192)
      BY <3>3, <3>4 DEF StepsOver
    <3>6. SkipEnd(pkt, p) = p + 2 /\ ScanEnd(pkt, p, idx) = [ok |-> FALSE, next |-> p + 2]
      BY <3>3, <3>4 DEF SkipEnd, ScanEnd
    <3> QED
      BY <2>3, <2>4, <3>5, <3>6
  <2> QED
    BY <2>3, <2>5
<1> QED
  BY <1>1, <1>2

\* The number of labels that have matched when i - 1 of them are behind.
Index(labels, label, i) ==
  IF i <= 3 /\ \A j \in 1 .. i - 1 : Lower(labels[j]) = <<Lower(label), Local>>[j]
  THEN i - 1 ELSE 3

LEMMA IndexIs ==
  ASSUME NEW labels \in Seq(Label), NEW label
  PROVE  /\ \A i \in 1 .. Len(labels) + 1 : Index(labels, label, i) \in 0..3
         /\ Index(labels, label, 1) = 0
         /\ \A i \in 1 .. Len(labels) : \A pkt, p, n :
              SubSeq(pkt, p, p + n - 1) = labels[i] =>
                Matched(pkt, p, n, label, Index(labels, label, i)) = Index(labels, label, i + 1)
         /\ Index(labels, label, Len(labels) + 1) = 2
              <=> [i \in DOMAIN labels |-> Lower(labels[i])] = <<Lower(label), Local>>
<1> DEFINE want == <<Lower(label), Local>>
           n == Len(labels)
<1>1. n \in Nat /\ DOMAIN labels = 1..n
  OBVIOUS
<1>2. DOMAIN want = 1..2 /\ want \in Seq({Lower(label), Local}) /\ Len(want) = 2
      /\ want = [i \in 1..2 |-> want[i]]
  OBVIOUS
<1>3. \A i : Index(labels, label, i)
               = IF i <= 3 /\ \A j \in 1 .. i - 1 : Lower(labels[j]) = want[j] THEN i - 1 ELSE 3
  BY DEF Index
<1>4. \A pkt, p, k, idx : Matched(pkt, p, k, label, idx)
        = IF idx < 2 /\ Lower(SubSeq(pkt, p, p + k - 1)) = want[idx + 1] THEN idx + 1 ELSE 3
  BY DEF Matched
<1> HIDE DEF want, n
<1>5. \A i \in 1 .. n + 1 : Index(labels, label, i) \in 0..3
  BY <1>1, <1>3
<1>6. Index(labels, label, 1) = 0
  <2>1. 1 .. 1 - 1 = {} /\ 1 - 1 = 0 /\ 1 <= 3
    OBVIOUS
  <2> QED
    BY <1>3, <2>1
<1>7. ASSUME NEW i \in 1..n, NEW pkt, NEW p, NEW k, SubSeq(pkt, p, p + k - 1) = labels[i]
      PROVE  Matched(pkt, p, k, label, Index(labels, label, i)) = Index(labels, label, i + 1)
  <2>1. i \in Nat /\ (i + 1) - 1 = i /\ i >= 1 /\ (i - 1) + 1 = i
    BY <1>1
  <2>2. CASE i <= 3 /\ \A j \in 1 .. i - 1 : Lower(labels[j]) = want[j]
    <3>1. Index(labels, label, i) = i - 1
      BY <1>3, <2>2
    <3>2. Matched(pkt, p, k, label, i - 1)
            = IF i - 1 < 2 /\ Lower(labels[i]) = want[i] THEN i ELSE 3
      BY <1>4, <1>7, <2>1
    <3>3. (\A j \in 1..i : Lower(labels[j]) = want[j]) <=> Lower(labels[i]) = want[i]
      <4>1. i \in 1..i /\ \A j \in 1..i : j = i \/ j \in 1 .. i - 1
        BY <2>1
      <4> QED
        BY <2>2, <4>1
    <3>4. Index(labels, label, i + 1) = IF i + 1 <= 3 /\ Lower(labels[i]) = want[i] THEN i ELSE 3
      BY <1>3, <2>1, <3>3
    <3>5. i + 1 <= 3 <=> i - 1 < 2
      BY <2>1
    <3> QED
      BY <3>1, <3>2, <3>4, <3>5
  <2>3. CASE ~(i <= 3 /\ \A j \in 1 .. i - 1 : Lower(labels[j]) = want[j])
    <3>1. Index(labels, label, i) = 3
      BY <1>3, <2>3
    <3>2. Matched(pkt, p, k, label, 3) = 3
      BY <1>4
    <3>3. \A j \in 1 .. i - 1 : j \in 1..i
      BY <2>1
    <3>4. i + 1 <= 3 => i <= 3
      BY <2>1
    <3>5. Index(labels, label, i + 1) = 3
      BY <1>3, <2>1, <2>3, <3>3, <3>4
    <3> QED
      BY <3>1, <3>2, <3>5
  <2> QED
    BY <2>2, <2>3
<1>8. Index(labels, label, n + 1) = 2
        <=> [i \in 1..n |-> Lower(labels[i])] = want
  <2>1. (n + 1) - 1 = n /\ (n + 1 <= 3 /\ n = 2 <=> n = 2) /\ 2 # 3
    BY <1>1
  <2>2. Index(labels, label, n + 1) = 2 <=> n = 2 /\ \A j \in 1..n : Lower(labels[j]) = want[j]
    BY <1>1, <1>3, <2>1
  <2>3. ASSUME n = 2, \A j \in 1..n : Lower(labels[j]) = want[j]
        PROVE  [i \in 1..n |-> Lower(labels[i])] = want
    BY <1>2, <2>3
  <2>4. ASSUME [i \in 1..n |-> Lower(labels[i])] = want
        PROVE  n = 2 /\ \A j \in 1..n : Lower(labels[j]) = want[j]
    <3>1. 1..n = 1..2
      BY <1>2, <2>4
    <3>2. n = 2
      BY <1>1, <3>1, SMTT(30)
    <3>3. \A j \in 1..n : [i \in 1..n |-> Lower(labels[i])][j] = Lower(labels[j])
      OBVIOUS
    <3> QED
      BY <2>4, <3>2, <3>3
  <2> QED
    BY <2>2, <2>3, <2>4
<1> QED
  BY <1>1, <1>5, <1>6, <1>7, <1>8 DEF n, want

\* A name is read to its end by both scanners, and matches when it names the host.
LEMMA NameIs ==
  ASSUME NEW name \in NameOf, NEW label
  PROVE  /\ WireName(name) \in Seq(Byte)
         /\ \A pkt, p : Holds(pkt, p, WireName(name)) =>
              /\ skip_name(pkt, p) = p + Len(WireName(name))
              /\ name_matches(pkt, p, label)
                   = [ok |-> Names(name, label), next |-> p + Len(WireName(name))]
<1> DEFINE labels == name.labels
           end == name.end
           n == Len(labels)
           ss == [i \in DOMAIN labels |-> LabelBytes(labels[i])]
           len == Len(WireName(name))
<1>1. labels \in Seq(Label) /\ end \in {Root} \cup ((192..255) \X Byte)
      /\ n \in Nat /\ DOMAIN labels = 1..n
  BY DEF NameOf
<1>2. \A i \in 1..n : labels[i] \in Label
  BY <1>1
<1>3. ss \in Seq(Seq(Byte)) /\ Len(ss) = n /\ \A i \in 1..n : ss[i] = LabelBytes(labels[i])
  <2>1. \A i \in 1..n : LabelBytes(labels[i]) \in Seq(Byte)
    BY <1>2, LabelBytesIs
  <2> QED
    BY <1>1, <2>1
<1>4. WireName(name) = Joined(ss) \o end
  BY DEF WireName
<1>5. end \in Seq(Byte) /\ Joined(ss) \in Seq(Byte)
  BY <1>1, <1>3, EndIs, JoinedIs
<1>6. WireName(name) \in Seq(Byte) /\ len = Len(Joined(ss)) + Len(end)
  BY <1>4, <1>5, HoldsConcat
<1>7. Names(name, label) <=> end = Root /\ Index(labels, label, n + 1) = 2
  BY <1>1, IndexIs DEF Names
<1>8. ASSUME NEW pkt, NEW p, Holds(pkt, p, WireName(name))
      PROVE  /\ skip_name(pkt, p) = p + len
             /\ name_matches(pkt, p, label) = [ok |-> Names(name, label), next |-> p + len]
  <2> HIDE DEF labels, end, n, ss, len
  <2>1. Holds(pkt, p, Joined(ss)) /\ Holds(pkt, p + Len(Joined(ss)), end)
    BY <1>4, <1>5, <1>8, HoldsConcat
  <2>2. PICK at : LaidOut(pkt, p, ss, at)
    BY <1>3, <2>1, JoinedIs
  <2>3. /\ at[1] = p /\ at[n + 1] = p + Len(Joined(ss))
        /\ \A i \in 1 .. n + 1 : at[i] \in Nat
        /\ \A i \in 1..n : at[i + 1] = at[i] + Len(ss[i]) /\ Holds(pkt, at[i], ss[i])
    BY <1>3, <2>2 DEF LaidOut
  <2>4. pkt \in Seq(Byte)
    BY <2>1, HoldsBytes
  <2>5. PICK f : IsSkip(f, pkt)
    BY <2>4, SkipIs
  <2>6. PICK a : IsScan(a, pkt, label)
    BY <2>4, ScanIs
  <2>7. at[n + 1] + Len(end) = p + len
    <3>1. p \in Nat /\ Len(Joined(ss)) \in Nat /\ Len(end) \in Nat
      BY <1>5, <2>1, HoldsBytes
    <3> QED
      BY <1>6, <2>3, <3>1
  <2> DEFINE idx(i) == Index(labels, label, i)
             found == [ok |-> Names(name, label), next |-> p + len]
             S == {i \in 1 .. n + 1 : at[i] \in Pos(pkt) /\ f[at[i]] = p + len
                                      /\ a[<<at[i], idx(i)>>] = found}
  <2>8. \A i \in 1 .. n + 1 : idx(i) \in 0..3
    BY <1>1, IndexIs DEF n
  <2>9. n + 1 \in S
    <3> DEFINE e == at[n + 1]
               k == idx(n + 1)
    <3>1. Holds(pkt, e, end) /\ e \in Pos(pkt) /\ n + 1 \in 1 .. n + 1
      <4>1. Holds(pkt, e, end) /\ n + 1 \in 1 .. n + 1
        BY <1>1, <2>1, <2>3
      <4> HIDE DEF e
      <4> QED
        BY <4>1, HoldsBytes
    <3>2. /\ ~StepsOver(pkt, e, 64) /\ SkipEnd(pkt, e) = e + Len(end) /\ ~StepsOver(pkt, e, 192)
          /\ ScanEnd(pkt, e, k) = [ok |-> end = Root /\ k = 2, next |-> e + Len(end)]
      BY <1>1, <3>1, EndIs
    <3>3. k \in 0..3 /\ e + Len(end) = p + len /\ (end = Root /\ k = 2 <=> Names(name, label))
      BY <1>7, <2>7, <2>8, <3>1
    <3> HIDE DEF e, k
    <3>4. f[e] = e + Len(end)
      BY <2>5, <3>1, <3>2 DEF IsSkip
    <3>5. a[<<e, k>>] = [ok |-> end = Root /\ k = 2, next |-> e + Len(end)]
      BY <2>6, <3>1, <3>2, <3>3 DEF IsScan
    <3> DEFINE hit == end = Root /\ k = 2
    <3>6. hit \in BOOLEAN /\ Names(name, label) \in BOOLEAN /\ (hit <=> Names(name, label))
      BY <3>3 DEF Names
    <3>7. a[<<e, k>>] = [ok |-> hit, next |-> e + Len(end)]
      BY <3>5
    <3> HIDE DEF hit
    <3>8. hit = Names(name, label)
      BY <3>6
    <3>9. a[<<e, k>>] = found
      BY <3>3, <3>7, <3>8
    <3> QED
      BY <3>1, <3>3, <3>4, <3>9 DEF e, k
  <2>10. ASSUME NEW i \in 1..n, i + 1 \in S PROVE i \in S
    <3> DEFINE l == labels[i]
               q == at[i]
               k == idx(i)
    <3>1. l \in Label /\ Holds(pkt, q, LabelBytes(l)) /\ q \in Nat
          /\ at[i + 1] = q + Len(LabelBytes(l)) /\ i \in 1 .. n + 1 /\ i + 1 \in 1 .. n + 1
      BY <1>1, <1>2, <1>3, <2>3
    <3> HIDE DEF l, q
    <3>2. /\ Len(l) \in 1..63 /\ pkt[q] = Len(l) /\ Has(pkt, q, 1) /\ Has(pkt, q + 1, Len(l))
          /\ SubSeq(pkt, q + 1, q + 1 + Len(l) - 1) = l /\ Len(LabelBytes(l)) = Len(l) + 1
      BY <3>1, LabelBytesIs
    <3>3. q \in Pos(pkt) /\ k \in 0..3
      BY <2>8, <3>1, HoldsBytes
    <3>4. Matched(pkt, q + 1, Len(l), label, k) = idx(i + 1)
      <4>1. \A o, m : SubSeq(pkt, o, o + m - 1) = labels[i] =>
              Matched(pkt, o, m, label, Index(labels, label, i)) = Index(labels, label, i + 1)
        BY <1>1, IndexIs DEF n
      <4> QED
        BY <3>2, <4>1 DEF l
    <3>5. at[i + 1] \in Pos(pkt) /\ f[at[i + 1]] = p + len /\ a[<<at[i + 1], idx(i + 1)>>] = found
      BY <2>10
    <3> HIDE DEF k, idx, found
    <3>6. StepsOver(pkt, q, 64) /\ StepsOver(pkt, q, 192)
      <4>1. \A b \in 1..63 : b \in 1 .. 64 - 1 /\ b \in 1 .. 192 - 1
        OBVIOUS
      <4>2. pkt[q] \in 1..63 /\ Has(pkt, q, 1) /\ Has(pkt, q + 1, pkt[q])
        BY <3>2
      <4>3. pkt[q] \in 1 .. 64 - 1 /\ pkt[q] \in 1 .. 192 - 1
        BY <4>1, <4>2
      <4> QED
        BY <4>2, <4>3 DEF StepsOver
    <3>7. at[i + 1] = q + 1 + pkt[q]
      BY <3>1, <3>2
    <3>8. f[q] = f[at[i + 1]]
      BY <2>5, <3>3, <3>6, <3>7 DEF IsSkip
    <3>9. ScanOn(pkt, q, label, k) = <<at[i + 1], idx(i + 1)>>
      BY <3>2, <3>4, <3>7 DEF ScanOn
    <3>10. a[<<q, k>>] = a[ScanOn(pkt, q, label, k)]
      BY <2>6, <3>3, <3>6 DEF IsScan
    <3>11. f[q] = p + len /\ a[<<q, k>>] = found
      BY <3>5, <3>8, <3>9, <3>10
    <3> QED
      BY <3>1, <3>3, <3>11 DEF q, k
  <2> HIDE DEF S
  <2>11. \A i \in 1 .. n + 1 : i \in S
    BY <1>1, <2>9, <2>10, CountDown
  <2>12. 1 \in 1 .. n + 1 /\ idx(1) = 0
    <3>1. 1 \in 1 .. n + 1
      BY <1>1
    <3> QED
      BY <1>1, <3>1, IndexIs
  <2>13. p \in Pos(pkt) /\ f[p] = p + len /\ a[<<p, 0>>] = found
    BY <2>3, <2>11, <2>12 DEF S
  <2>14. skip_name(pkt, p) = f[p] /\ name_matches(pkt, p, label) = a[<<p, 0>>]
    BY <2>5, <2>6, <2>13 DEF IsSkip, IsScan
  <2> QED
    BY <2>13, <2>14
<1> QED
  BY <1>6, <1>8

LEMMA QuestionIs ==
  ASSUME NEW q \in Question, NEW label
  PROVE  /\ WireQuestion(q) \in Seq(Byte)
         /\ \A pkt, p : Holds(pkt, p, WireQuestion(q)) =>
              /\ NextQuestion(pkt, label, p) = p + Len(WireQuestion(q))
              /\ SkipQuestion(pkt, p) = p + Len(WireQuestion(q))
              /\ ForHost(pkt, p, label)
                   <=> Names(q.name, label) /\ q.type = TypeA /\ q.class % TopBit = ClassIn
<1> DEFINE name == WireName(q.name)
           t == U16(q.type)
           c == U16(q.class)
           n == Len(name)
           two == 2
           front == name \o t
<1>1. q.name \in NameOf /\ q.type \in Short /\ q.class \in Short
  BY DEF Question
<1>2. name \in Seq(Byte) /\ n \in Nat
  BY <1>1, NameIs
<1>3. t \in Seq(Byte) /\ Len(t) = two /\ c \in Seq(Byte) /\ Len(c) = two
  BY <1>1, U16Is
<1>4. WireQuestion(q) = front \o c
  BY DEF WireQuestion
<1>5. \A pkt, p : Holds(pkt, p, name) =>
        /\ skip_name(pkt, p) = p + n
        /\ name_matches(pkt, p, label) = [ok |-> Names(q.name, label), next |-> p + n]
  BY <1>1, NameIs
<1>6. \A pkt, p : Holds(pkt, p, t) => Word(pkt, p) = q.type
  BY <1>1, U16Is
<1>7. \A pkt, p : Holds(pkt, p, c) => Word(pkt, p) = q.class /\ Has(pkt, p, 2)
  BY <1>1, U16Is
<1> HIDE DEF name, t, c, n, two
<1>8. front \in Seq(Byte) /\ Len(front) = n + two
  BY <1>2, <1>3, HoldsConcat DEF n
<1> HIDE DEF front
<1>9. WireQuestion(q) \in Seq(Byte) /\ Len(WireQuestion(q)) = (n + two) + two
  BY <1>3, <1>4, <1>8, HoldsConcat
<1>10. ASSUME NEW pkt, NEW p, Holds(pkt, p, WireQuestion(q))
       PROVE  /\ NextQuestion(pkt, label, p) = p + Len(WireQuestion(q))
              /\ SkipQuestion(pkt, p) = p + Len(WireQuestion(q))
              /\ ForHost(pkt, p, label)
                   <=> Names(q.name, label) /\ q.type = TypeA /\ q.class % TopBit = ClassIn
  <2>1. Holds(pkt, p, front) /\ Holds(pkt, p + (n + two), c)
    BY <1>3, <1>4, <1>8, <1>10, HoldsConcat
  <2>2. Holds(pkt, p, name) /\ Holds(pkt, p + n, t)
    BY <1>2, <1>3, <2>1, HoldsConcat DEF n, front
  <2>3. p \in Nat /\ p > 0
    BY <2>2 DEF Holds
  <2>4. p + (n + two) = (p + n) + 2 /\ p + ((n + two) + two) = (p + n) + 4 /\ p # NoPos
        /\ p + n # NoPos /\ p + n \in Nat
    BY <1>2, <2>3 DEF two, NoPos
  <2>5. Word(pkt, p + n) = q.type /\ Word(pkt, (p + n) + 2) = q.class /\ Has(pkt, (p + n) + 2, 2)
    BY <1>6, <1>7, <2>1, <2>2, <2>4
  <2>6. Has(pkt, p + n, 4)
    <3>1. ((p + n) + 2) + 2 = (p + n) + 4
      BY <2>4
    <3> QED
      BY <2>5, <3>1 DEF Has
  <2>7. /\ skip_name(pkt, p) = p + n /\ name_matches(pkt, p, label).next = p + n
        /\ name_matches(pkt, p, label).ok <=> Names(q.name, label)
    BY <1>5, <2>2
  <2>8. BehindQuestion(pkt, p + n) = (p + n) + 4
    BY <2>4, <2>6 DEF BehindQuestion
  <2>9. NextQuestion(pkt, label, p) = (p + n) + 4 /\ SkipQuestion(pkt, p) = (p + n) + 4
    BY <2>4, <2>7, <2>8 DEF NextQuestion, SkipQuestion
  <2>10. ForHost(pkt, p, label)
           <=> Names(q.name, label) /\ q.type = TypeA /\ q.class % TopBit = ClassIn
    BY <2>5, <2>7 DEF ForHost
  <2> QED
    BY <1>9, <2>4, <2>9, <2>10
<1> QED
  BY <1>9, <1>10

LEMMA RecordIs ==
  ASSUME NEW a \in Record, NEW label
  PROVE  /\ WireRecord(a) \in Seq(Byte)
         /\ \A pkt, p, w : Holds(pkt, p, WireRecord(a)) /\ w = p + Len(WireRecord(a)) =>
              /\ NextRecord(pkt, label, p) = w
              /\ HoldsAddress(pkt, p, label)
                   <=> Names(a.name, label) /\ a.type = TypeA /\ Len(a.data) = 4
              /\ Len(a.data) = 4 => SubSeq(pkt, w - 4, w - 1) = a.data
<1> DEFINE name == WireName(a.name)
           t == U16(a.type)
           c == U16(a.class)
           l == U16(Len(a.data))
           ttl == a.ttl
           data == a.data
           n == Len(name)
           d == Len(data)
           two == 2
           four == 4
           b1 == name \o t
           b2 == b1 \o c
           b3 == b2 \o ttl
           b4 == b3 \o l
<1>1. a.name \in NameOf /\ a.type \in Short /\ a.class \in Short /\ data \in Seq(Byte) /\ d \in Short
      /\ ttl \in Byte \X Byte \X Byte \X Byte
  BY DEF Record
<1>2. name \in Seq(Byte) /\ n \in Nat /\ d \in Nat
  BY <1>1, NameIs, SMTT(30) DEF Short
<1>3. t \in Seq(Byte) /\ Len(t) = two /\ c \in Seq(Byte) /\ Len(c) = two
      /\ l \in Seq(Byte) /\ Len(l) = two
  BY <1>1, U16Is
<1>4. ttl \in Seq(Byte) /\ Len(ttl) = four
  <2>1. PICK w, x, y, z \in Byte : ttl = <<w, x, y, z>>
    BY <1>1
  <2> QED
    BY <2>1
<1>5. WireRecord(a) = b4 \o data
  BY DEF WireRecord
<1>6. \A pkt, p : Holds(pkt, p, name) =>
        name_matches(pkt, p, label) = [ok |-> Names(a.name, label), next |-> p + n]
  BY <1>1, NameIs
<1>7. \A pkt, p : Holds(pkt, p, t) => Word(pkt, p) = a.type
  BY <1>1, U16Is
<1>8. \A pkt, p : Holds(pkt, p, l) => Word(pkt, p) = d
  BY <1>1, U16Is
<1> HIDE DEF name, t, c, l, ttl, data, n, d, two, four
<1>9. b1 \in Seq(Byte) /\ Len(b1) = n + two
  BY <1>2, <1>3, HoldsConcat DEF n
<1> HIDE DEF b1
<1>10. b2 \in Seq(Byte) /\ Len(b2) = n + two + two
  BY <1>3, <1>9, HoldsConcat
<1> HIDE DEF b2
<1>11. b3 \in Seq(Byte) /\ Len(b3) = n + two + two + four
  BY <1>4, <1>10, HoldsConcat
<1> HIDE DEF b3
<1>12. b4 \in Seq(Byte) /\ Len(b4) = n + two + two + four + two
  BY <1>3, <1>11, HoldsConcat
<1> HIDE DEF b4
<1>13. WireRecord(a) \in Seq(Byte) /\ Len(WireRecord(a)) = n + two + two + four + two + d
  BY <1>1, <1>5, <1>12, HoldsConcat DEF d
<1>14. ASSUME NEW pkt, NEW p, NEW w, Holds(pkt, p, WireRecord(a)), w = p + Len(WireRecord(a))
       PROVE  /\ NextRecord(pkt, label, p) = w
              /\ HoldsAddress(pkt, p, label) <=> Names(a.name, label) /\ a.type = TypeA /\ d = 4
              /\ d = 4 => SubSeq(pkt, w - 4, w - 1) = data
  <2>1. Holds(pkt, p, b4) /\ Holds(pkt, p + (n + two + two + four + two), data)
    BY <1>1, <1>5, <1>12, <1>14, HoldsConcat
  <2>2. Holds(pkt, p, b3) /\ Holds(pkt, p + (n + two + two + four), l)
    BY <1>3, <1>11, <2>1, HoldsConcat DEF b4
  <2>3. Holds(pkt, p, b2)
    BY <1>4, <1>10, <2>2, HoldsConcat DEF b3
  <2>4. Holds(pkt, p, b1)
    BY <1>3, <1>9, <2>3, HoldsConcat DEF b2
  <2>5. Holds(pkt, p, name) /\ Holds(pkt, p + n, t)
    BY <1>2, <1>3, <2>4, HoldsConcat DEF n, b1
  <2>6. p \in Nat /\ p > 0
    BY <2>5 DEF Holds
  <2> DEFINE e == p + n
  <2>7. /\ p + (n + two + two + four + two) = e + 10 /\ p + (n + two + two + four) = e + 8
        /\ p + (n + two + two + four + two + d) = e + 10 + d
        /\ e \in Nat /\ p # NoPos /\ (e + 10 + d) - 1 = e + 10 + d - 1
        /\ (d = 4 => (e + 10 + d) - 4 = e + 10)
    BY <1>2, <2>6 DEF two, four, NoPos
  <2>8. Holds(pkt, e, t) /\ Holds(pkt, e + 8, l) /\ Holds(pkt, e + 10, data)
    BY <2>1, <2>2, <2>5, <2>7
  <2>9. w = e + 10 + d
    BY <1>13, <1>14, <2>7
  <2> HIDE DEF e
  <2>10. Word(pkt, e) = a.type /\ DataLen(pkt, e) = d
    BY <1>7, <1>8, <2>8 DEF DataLen
  <2>11. Has(pkt, e + 10, d) /\ SubSeq(pkt, e + 10, e + 10 + d - 1) = data /\ EndOf(pkt) \in Nat
    BY <2>8, HoldsBytes DEF d
  <2>12. Has(pkt, e, 10)
    BY <1>2, <2>7, <2>11 DEF Has
  <2>13. /\ name_matches(pkt, p, label).next = e
         /\ name_matches(pkt, p, label).ok <=> Names(a.name, label)
    BY <1>6, <2>5 DEF e
  <2>14. NextRecord(pkt, label, p) = e + 10 + d
    BY <2>7, <2>10, <2>11, <2>12, <2>13 DEF NextRecord, BehindRecord, DataAt
  <2>15. HoldsAddress(pkt, p, label) <=> Names(a.name, label) /\ a.type = TypeA /\ d = 4
    BY <2>10, <2>13 DEF HoldsAddress
  <2>16. (d = 4 => w - 4 = e + 10) /\ w - 1 = e + 10 + d - 1
    BY <2>7, <2>9
  <2> QED
    BY <2>9, <2>11, <2>14, <2>15, <2>16
<1> QED
  BY <1>13, <1>14 DEF d, data

LEMMA HeaderIs ==
  ASSUME NEW flags \in Short, NEW qd \in Short, NEW an \in Short
  PROVE  /\ Header(flags, qd, an) \in Seq(Byte) /\ Len(Header(flags, qd, an)) = 12
         /\ \A pkt : Holds(pkt, 1, Header(flags, qd, an)) =>
              Flags(pkt) = flags /\ QdCount(pkt) = qd /\ AnCount(pkt) = an
<1> DEFINE z == U16(0)
           f == U16(flags)
           q == U16(qd)
           a == U16(an)
           s == <<0, 0, 0, 0>>
           one == 1
           two == 2
           four == 4
           b1 == z \o f
           b2 == b1 \o q
           b3 == b2 \o a
<1>1. 0 \in Short
  BY DEF Short
<1>2. /\ z \in Seq(Byte) /\ Len(z) = two /\ f \in Seq(Byte) /\ Len(f) = two
      /\ q \in Seq(Byte) /\ Len(q) = two /\ a \in Seq(Byte) /\ Len(a) = two
  BY <1>1, U16Is
<1>3. s \in Seq(Byte) /\ Len(s) = four
  BY DEF Byte
<1>4. Header(flags, qd, an) = b3 \o s
  BY DEF Header
<1>5. /\ \A pkt, p : Holds(pkt, p, f) => Word(pkt, p) = flags
      /\ \A pkt, p : Holds(pkt, p, q) => Word(pkt, p) = qd
      /\ \A pkt, p : Holds(pkt, p, a) => Word(pkt, p) = an
  BY U16Is
<1> HIDE DEF z, f, q, a, s, one, two, four
<1>6. b1 \in Seq(Byte) /\ Len(b1) = two + two
  BY <1>2, HoldsConcat, SMTT(30)
<1> HIDE DEF b1
<1>7. b2 \in Seq(Byte) /\ Len(b2) = two + two + two
  BY <1>2, <1>6, HoldsConcat
<1> HIDE DEF b2
<1>8. b3 \in Seq(Byte) /\ Len(b3) = two + two + two + two
  BY <1>2, <1>7, HoldsConcat
<1> HIDE DEF b3
<1>9. Header(flags, qd, an) \in Seq(Byte)
      /\ Len(Header(flags, qd, an)) = two + two + two + two + four
  BY <1>3, <1>4, <1>8, HoldsConcat
<1>10. ASSUME NEW pkt, Holds(pkt, one, Header(flags, qd, an))
       PROVE  Flags(pkt) = flags /\ QdCount(pkt) = qd /\ AnCount(pkt) = an
  <2>1. Holds(pkt, one, b3)
    BY <1>3, <1>4, <1>8, <1>10, HoldsConcat
  <2>2. Holds(pkt, one, b2) /\ Holds(pkt, one + (two + two + two), a)
    BY <1>2, <1>7, <2>1, HoldsConcat DEF b3
  <2>3. Holds(pkt, one, b1) /\ Holds(pkt, one + (two + two), q)
    BY <1>2, <1>6, <2>2, HoldsConcat DEF b2
  <2>4. Holds(pkt, one + two, f)
    BY <1>2, <2>3, HoldsConcat DEF b1
  <2>5. one + two = 3 /\ one + (two + two) = 5 /\ one + (two + two + two) = 7
    BY DEF one, two
  <2>6. Word(pkt, 3) = flags /\ Word(pkt, 5) = qd /\ Word(pkt, 7) = an
    BY <1>5, <2>2, <2>3, <2>4, <2>5
  <2> QED
    BY <2>6 DEF Flags, QdCount, AnCount
<1>11. two + two + two + two + four = 12
  BY DEF two, four
<1> QED
  BY <1>9, <1>10, <1>11 DEF one

\* The packet starts with m: the loops stand at the places of its questions and
\* records, one after the other.
LEMMA MessageIs ==
  ASSUME NEW m \in Message, NEW pkt, Holds(pkt, 1, Wire(m)), NEW label
  PROVE  /\ pkt \in Seq(Byte) /\ Len(pkt) >= 12
         /\ Flags(pkt) = (IF m.response THEN Response ELSE 0)
         /\ QdCount(pkt) = Len(m.questions) /\ AnCount(pkt) = Len(m.answers)
         /\ \A k \in 1 .. Len(m.questions) :
              LET q == m.questions[k]
              IN  /\ Questions(pkt, label)[k] # NoPos
                  /\ ForHost(pkt, Questions(pkt, label)[k - 1], label)
                       <=> Names(q.name, label) /\ q.type = TypeA /\ q.class % TopBit = ClassIn
         /\ \A k \in 1 .. Len(m.answers) :
              LET a == m.answers[k]
                  at == Places(pkt, label)
              IN  /\ at[k] # NoPos
                  /\ HoldsAddress(pkt, at[k - 1], label)
                       <=> Names(a.name, label) /\ a.type = TypeA /\ Len(a.data) = 4
                  /\ Len(a.data) = 4 => SubSeq(pkt, at[k] - 4, at[k] - 1) = a.data
<1> DEFINE qs == m.questions
           as == m.answers
           nq == Len(qs)
           na == Len(as)
           flags == IF m.response THEN Response ELSE 0
           head == Header(flags, nq, na)
           wq == [i \in DOMAIN qs |-> WireQuestion(qs[i])]
           wa == [i \in DOMAIN as |-> WireRecord(as[i])]
           jq == Joined(wq)
           ja == Joined(wa)
           front == head \o jq
           one == 1
           body == 13
<1>1. /\ qs \in Seq(Question) /\ as \in Seq(Record) /\ nq \in Short /\ na \in Short
      /\ nq \in Nat /\ na \in Nat /\ DOMAIN qs = 1..nq /\ DOMAIN as = 1..na
  BY DEF Message, Short
<1>2. flags \in Short
  BY DEF Short, Response
<1>3. /\ head \in Seq(Byte) /\ Len(head) = 12
      /\ \A p : Holds(p, one, head) => Flags(p) = flags /\ QdCount(p) = nq /\ AnCount(p) = na
  BY <1>1, <1>2, HeaderIs
<1>4. /\ wq \in Seq(Seq(Byte)) /\ Len(wq) = nq
      /\ \A i \in 1..nq : qs[i] \in Question /\ wq[i] = WireQuestion(qs[i])
  <2>1. \A i \in 1..nq : qs[i] \in Question
    BY <1>1
  <2>2. \A i \in 1..nq : WireQuestion(qs[i]) \in Seq(Byte)
    BY <2>1, QuestionIs
  <2> QED
    BY <1>1, <2>1, <2>2
<1>5. /\ wa \in Seq(Seq(Byte)) /\ Len(wa) = na
      /\ \A i \in 1..na : as[i] \in Record /\ wa[i] = WireRecord(as[i])
  <2>1. \A i \in 1..na : as[i] \in Record
    BY <1>1
  <2>2. \A i \in 1..na : WireRecord(as[i]) \in Seq(Byte)
    BY <2>1, RecordIs
  <2> QED
    BY <1>1, <2>1, <2>2
<1>6. jq \in Seq(Byte) /\ ja \in Seq(Byte)
  BY <1>4, <1>5, JoinedIs
<1>7. Wire(m) = front \o ja
  BY DEF Wire
<1>8. Holds(pkt, one, Wire(m))
  OBVIOUS
<1> HIDE DEF qs, as, nq, na, flags, head, wq, wa, jq, ja, one, body
<1>9. front \in Seq(Byte) /\ Len(front) = Len(head) + Len(jq)
  BY <1>3, <1>6, HoldsConcat
<1> HIDE DEF front
<1>10. Holds(pkt, one, front) /\ Holds(pkt, one + (Len(head) + Len(jq)), ja)
  BY <1>6, <1>7, <1>8, <1>9, HoldsConcat
<1>11. Holds(pkt, one, head) /\ Holds(pkt, one + Len(head), jq)
  BY <1>3, <1>6, <1>10, HoldsConcat DEF front
<1>12. one + Len(head) = body /\ one + (Len(head) + Len(jq)) = body + Len(jq)
  <2>1. Len(jq) \in Nat
    BY <1>6
  <2> QED
    BY <1>3, <2>1 DEF one, body
<1>13. pkt \in Seq(Byte) /\ Len(pkt) >= 12
  <2>1. pkt \in Seq(Byte) /\ one + Len(head) <= EndOf(pkt)
    BY <1>11 DEF Holds
  <2> QED
    BY <1>3, <2>1 DEF EndOf, one
<1>14. Flags(pkt) = flags /\ QdCount(pkt) = nq /\ AnCount(pkt) = na
  BY <1>3, <1>11
<1>15. PICK atq : LaidOut(pkt, body, wq, atq)
  BY <1>4, <1>11, <1>12, JoinedIs DEF jq
<1>16. PICK ata : LaidOut(pkt, body + Len(jq), wa, ata)
  BY <1>5, <1>10, <1>12, JoinedIs DEF ja
<1>17. /\ atq[1] = 13 /\ atq[nq + 1] = body + Len(jq)
       /\ \A i \in 1..nq : atq[i + 1] = atq[i] + Len(WireQuestion(qs[i])) /\ atq[i] \in Nat
                           /\ Holds(pkt, atq[i], WireQuestion(qs[i]))
  <2>1. \A i \in 1..nq : i \in 1 .. nq + 1
    BY <1>1
  <2> QED
    BY <1>4, <1>15, <2>1 DEF LaidOut, body, jq
<1>18. /\ ata[1] = body + Len(jq)
       /\ \A i \in 1..na : ata[i + 1] = ata[i] + Len(WireRecord(as[i])) /\ ata[i] \in Nat
                           /\ Holds(pkt, ata[i], WireRecord(as[i]))
  <2>1. \A i \in 1..na : i \in 1 .. na + 1
    BY <1>1
  <2> QED
    BY <1>5, <1>16, <2>1 DEF LaidOut
<1>19. ASSUME NEW k \in 1..nq
       PROVE  /\ NextQuestion(pkt, label, atq[k]) = atq[k + 1]
              /\ SkipQuestion(pkt, atq[k]) = atq[k + 1]
              /\ atq[k] # NoPos
              /\ ForHost(pkt, atq[k], label)
                   <=> /\ Names(qs[k].name, label)
                       /\ qs[k].type = TypeA /\ qs[k].class % TopBit = ClassIn
  <2> DEFINE q == qs[k]
             p == atq[k]
  <2>1. q \in Question /\ Holds(pkt, p, WireQuestion(q)) /\ atq[k + 1] = p + Len(WireQuestion(q))
    BY <1>4, <1>17
  <2> HIDE DEF q, p
  <2>2. p # NoPos
    BY <2>1 DEF Holds, NoPos
  <2>3. /\ NextQuestion(pkt, label, p) = atq[k + 1] /\ SkipQuestion(pkt, p) = atq[k + 1]
        /\ ForHost(pkt, p, label)
             <=> Names(q.name, label) /\ q.type = TypeA /\ q.class % TopBit = ClassIn
    BY <2>1, QuestionIs
  <2> QED
    BY <2>2, <2>3 DEF q, p
<1>20. ASSUME NEW k \in 1..na
       PROVE  /\ NextRecord(pkt, label, ata[k]) = ata[k + 1]
              /\ ata[k] # NoPos
              /\ HoldsAddress(pkt, ata[k], label)
                   <=> Names(as[k].name, label) /\ as[k].type = TypeA /\ Len(as[k].data) = 4
              /\ Len(as[k].data) = 4 =>
                   SubSeq(pkt, ata[k + 1] - 4, ata[k + 1] - 1) = as[k].data
  <2> DEFINE a == as[k]
             p == ata[k]
  <2>1. a \in Record /\ Holds(pkt, p, WireRecord(a)) /\ ata[k + 1] = p + Len(WireRecord(a))
    BY <1>5, <1>18
  <2> HIDE DEF a, p
  <2>2. p # NoPos
    BY <2>1 DEF Holds, NoPos
  <2>3. /\ NextRecord(pkt, label, p) = ata[k + 1]
        /\ HoldsAddress(pkt, p, label)
             <=> Names(a.name, label) /\ a.type = TypeA /\ Len(a.data) = 4
        /\ Len(a.data) = 4 => SubSeq(pkt, ata[k + 1] - 4, ata[k + 1] - 1) = a.data
    BY <2>1, RecordIs
  <2> QED
    BY <2>2, <2>3 DEF a, p
<1>21. \A n \in Nat : \A k \in 1..n : (k - 1) + 1 = k /\ k \in 0..n /\ k - 1 \in 0..n
  OBVIOUS
<1>22. \A k \in 0..nq : Questions(pkt, label)[k] = atq[k + 1]
  <2> DEFINE h == Questions(pkt, label)
             S == {k \in 0..nq : h[k] = atq[k + 1]}
  <2>1. h[0] = 13 /\ \A k \in 1..nq : h[k] = NextQuestion(pkt, label, h[k - 1])
    BY <1>13, <1>14, QuestionsIs
  <2> HIDE DEF h
  <2>2. 0 \in S
    BY <1>1, <1>17, <2>1
  <2>3. ASSUME NEW k \in 1..nq, k - 1 \in S PROVE k \in S
    BY <1>1, <1>19, <1>21, <2>1, <2>3, SMTT(30)
  <2> HIDE DEF S
  <2>4. \A k \in 0..nq : k \in S
    BY <1>1, <2>2, <2>3, CountUp
  <2> QED
    BY <2>4 DEF S, h
<1>23. Skipped(pkt)[nq] = body + Len(jq)
  <2> DEFINE h == Skipped(pkt)
             S == {k \in 0..nq : h[k] = atq[k + 1]}
  <2>1. h[0] = 13 /\ \A k \in 1..nq : h[k] = SkipQuestion(pkt, h[k - 1])
    BY <1>13, <1>14, SkippedIs
  <2> HIDE DEF h
  <2>2. 0 \in S
    BY <1>1, <1>17, <2>1
  <2>3. ASSUME NEW k \in 1..nq, k - 1 \in S PROVE k \in S
    BY <1>1, <1>19, <1>21, <2>1, <2>3
  <2> HIDE DEF S
  <2>4. \A k \in 0..nq : k \in S
    BY <1>1, <2>2, <2>3, CountUp
  <2>5. nq \in 0..nq
    BY <1>1
  <2> QED
    BY <1>17, <2>4, <2>5 DEF S, h
<1>24. \A k \in 0..na : Places(pkt, label)[k] = ata[k + 1]
  <2> DEFINE h == Places(pkt, label)
             S == {k \in 0..na : h[k] = ata[k + 1]}
  <2>1. Skipped(pkt)[QdCount(pkt)] \in 0 .. EndOf(pkt)
    <3>1. QdCount(pkt) \in 0 .. QdCount(pkt)
      BY <1>1, <1>14
    <3> QED
      BY <1>13, <3>1, SkippedIs
  <2>2. h[0] = body + Len(jq) /\ \A k \in 1..na : h[k] = NextRecord(pkt, label, h[k - 1])
    BY <1>13, <1>14, <1>23, <2>1, RecordsIs DEF Places
  <2> HIDE DEF h
  <2>3. 0 \in S
    BY <1>1, <1>18, <2>2
  <2>4. ASSUME NEW k \in 1..na, k - 1 \in S PROVE k \in S
    <3>1. (k - 1) + 1 = k /\ k \in 0..na
      BY <1>1
    <3>2. h[k] = NextRecord(pkt, label, ata[k])
      BY <2>2, <2>4, <3>1
    <3> QED
      BY <1>20, <3>1, <3>2
  <2> HIDE DEF S
  <2>5. \A k \in 0..na : k \in S
    BY <1>1, <2>3, <2>4, CountUp
  <2> QED
    BY <2>5 DEF S, h
<1>25. ASSUME NEW k \in 1..nq
       PROVE  /\ Questions(pkt, label)[k] # NoPos
              /\ ForHost(pkt, Questions(pkt, label)[k - 1], label)
                   <=> /\ Names(qs[k].name, label)
                       /\ qs[k].type = TypeA /\ qs[k].class % TopBit = ClassIn
  <2>1. (k - 1) + 1 = k /\ k \in 0..nq /\ k - 1 \in 0..nq
    BY <1>1
  <2>2. Questions(pkt, label)[k] = atq[k + 1] /\ Questions(pkt, label)[k - 1] = atq[k]
    BY <1>22, <2>1
  <2>3. atq[k + 1] # NoPos
    <3> DEFINE w == Len(WireQuestion(qs[k]))
    <3>1. w \in Nat /\ atq[k] \in Nat /\ atq[k + 1] = atq[k] + w /\ atq[k] # NoPos
      BY <1>4, <1>17, <1>19, QuestionIs
    <3> QED
      BY <3>1 DEF NoPos
  <2> QED
    BY <1>19, <2>2, <2>3
<1>26. ASSUME NEW k \in 1..na
       PROVE  /\ Places(pkt, label)[k] # NoPos
              /\ HoldsAddress(pkt, Places(pkt, label)[k - 1], label)
                   <=> Names(as[k].name, label) /\ as[k].type = TypeA /\ Len(as[k].data) = 4
              /\ Len(as[k].data) = 4 =>
                   SubSeq(pkt, Places(pkt, label)[k] - 4, Places(pkt, label)[k] - 1) = as[k].data
  <2>1. (k - 1) + 1 = k /\ k \in 0..na /\ k - 1 \in 0..na
    BY <1>1
  <2>2. Places(pkt, label)[k] = ata[k + 1] /\ Places(pkt, label)[k - 1] = ata[k]
    BY <1>24, <2>1
  <2>3. ata[k + 1] # NoPos
    <3> DEFINE w == Len(WireRecord(as[k]))
    <3>1. ata[k] \in Nat /\ ata[k + 1] = ata[k] + w /\ ata[k] # NoPos
      BY <1>18, <1>20
    <3>2. WireRecord(as[k]) \in Seq(Byte)
      <4> DEFINE a == as[k]
      <4>1. a \in Record
        BY <1>5
      <4> HIDE DEF a
      <4>2. WireRecord(a) \in Seq(Byte)
        BY <4>1, RecordIs
      <4> QED
        BY <4>2 DEF a
    <3>3. \A u \in Seq(Byte) : Len(u) \in Nat
      OBVIOUS
    <3>4. w \in Nat
      BY <3>2, <3>3
    <3> HIDE DEF w
    <3> QED
      BY <3>1, <3>4 DEF NoPos
  <2> QED
    BY <1>20, <2>2, <2>3
<1> QED
  BY <1>13, <1>14, <1>25, <1>26 DEF qs, as, nq, na, flags

\* A packet that starts with a message, whatever names, types, data and lengths it
\* holds and whatever follows it, is a query for a host exactly when it asks for it,
\* and yields the address of a host exactly when it holds it.
THEOREM MessageUnderstood ==
  ASSUME NEW m \in Message, NEW pkt, Holds(pkt, 1, Wire(m)), NEW label
  PROVE  is_query_for(pkt, label) = Asks(m, label) /\ parse_answer(pkt, label) = Answer(m, label)
<1> DEFINE nq == Len(m.questions)
           na == Len(m.answers)
           qs == m.questions
           as == m.answers
<1>1. /\ pkt \in Seq(Byte) /\ Len(pkt) >= 12
      /\ Flags(pkt) = (IF m.response THEN Response ELSE 0)
      /\ QdCount(pkt) = nq /\ AnCount(pkt) = na
  BY MessageIs
<1>2. /\ m.response \in BOOLEAN /\ nq \in Nat /\ na \in Nat
      /\ DOMAIN m.questions = 1..nq /\ DOMAIN m.answers = 1..na
  BY DEF Message
<1>3. Flags(pkt) < TopBit <=> ~m.response
  BY <1>1, <1>2 DEF Response, TopBit
<1>4. \A k \in 1..nq :
        /\ Questions(pkt, label)[k] # NoPos
        /\ ForHost(pkt, Questions(pkt, label)[k - 1], label)
             <=> /\ Names(qs[k].name, label)
                 /\ qs[k].type = TypeA /\ qs[k].class % TopBit = ClassIn
  BY MessageIs
<1>5. \A k \in 1..na :
        /\ Places(pkt, label)[k] # NoPos
        /\ HoldsAddress(pkt, Places(pkt, label)[k - 1], label)
             <=> Names(as[k].name, label) /\ as[k].type = TypeA /\ Len(as[k].data) = 4
        /\ Len(as[k].data) = 4 =>
             SubSeq(pkt, Places(pkt, label)[k] - 4, Places(pkt, label)[k] - 1) = as[k].data
  BY MessageIs
<1> HIDE DEF nq, na, qs, as
<1>6. is_query_for(pkt, label) = Asks(m, label)
  <2>1. is_query_for(pkt, label)
          = (~m.response /\ \E k \in 1..nq : /\ Questions(pkt, label)[k] # NoPos
                                              /\ ForHost(pkt, Questions(pkt, label)[k - 1], label))
    BY <1>1, <1>3 DEF is_query_for
  <2>2. Asks(m, label)
          = (~m.response /\ \E k \in 1..nq : /\ Names(qs[k].name, label)
                                              /\ qs[k].type = TypeA /\ qs[k].class % TopBit = ClassIn)
    BY <1>2 DEF Asks, qs
  <2> QED
    BY <1>4, <2>1, <2>2
<1>7. Hits(pkt, label) = Matching(m, label)
  <2>1. Hits(pkt, label)
          = {k \in 1..na : /\ Places(pkt, label)[k] # NoPos
                           /\ HoldsAddress(pkt, Places(pkt, label)[k - 1], label)}
    BY <1>1 DEF Hits
  <2>2. Matching(m, label)
          = {k \in 1..na : Names(as[k].name, label) /\ as[k].type = TypeA /\ Len(as[k].data) = 4}
    BY <1>2 DEF Matching, as
  <2> QED
    BY <1>5, <2>1, <2>2
<1>8. Matching(m, label) \in SUBSET Nat
      /\ \A k \in Matching(m, label) : k \in 1..na /\ Len(as[k].data) = 4
  BY <1>2 DEF Matching, as
<1>9. parse_answer(pkt, label) = Answer(m, label)
  <2>1. CASE ~m.response \/ Matching(m, label) = {}
    <3>1. parse_answer(pkt, label) = NoAddr
      BY <1>1, <1>3, <1>7, <2>1, AnswerIs
    <3> QED
      BY <2>1, <3>1 DEF Answer
  <2>2. CASE m.response /\ Matching(m, label) # {}
    <3>1. PICK k \in Matching(m, label) : First(k, Matching(m, label))
      BY <1>8, <2>2, FirstIs
    <3>2. (CHOOSE i \in Matching(m, label) : \A j \in Matching(m, label) : i <= j) = k
      BY <1>8, <3>1, FirstIs
    <3>3. Answer(m, label) = as[k].data
      BY <2>2, <3>2 DEF Answer, as
    <3>4. parse_answer(pkt, label)
            = SubSeq(pkt, Places(pkt, label)[k] - 4, Places(pkt, label)[k] - 1)
      BY <1>1, <1>3, <1>7, <2>2, <3>1, AnswerIs
    <3> QED
      BY <1>5, <1>8, <3>3, <3>4
  <2> QED
    BY <2>1, <2>2
<1> QED
  BY <1>6, <1>9

-----------------------------------------------------------------------------
(* Two devices that run this code. *)

HostName(l) == [labels |-> <<l, Local>>, end |-> Root]
QueryFor(l) ==
  [response |-> FALSE, answers |-> << >>,
   questions |-> <<[name |-> HostName(l), type |-> TypeA, class |-> ClassIn]>>]
AnswerOf(l, ip) ==
  [response |-> TRUE, questions |-> << >>,
   answers |-> <<[name |-> HostName(l), type |-> TypeA, class |-> TopBit + ClassIn,
                  ttl |-> <<0, 0, 0, 120>>, data |-> ip]>>]

LEMMA LocalIs == Local \in Label /\ Local \in Seq(Byte) /\ Len(Local) = 5 /\ Lower(Local) = Local
<1>1. 108 \in Byte /\ 111 \in Byte /\ 99 \in Byte /\ 97 \in Byte
  BY DEF Byte
<1>2. Local \in Seq(Byte) /\ Len(Local) = 5 /\ DOMAIN Local = 1..5
  BY <1>1 DEF Local
<1>3. ASSUME NEW i \in 1..5 PROVE Local[i] \notin 65..90
  BY DEF Local
<1>4. Lower(Local) = [i \in 1..5 |-> Local[i]]
  BY <1>2, <1>3 DEF Lower
<1>5. Local = [i \in 1..5 |-> Local[i]]
  BY <1>2
<1> QED
  BY <1>2, <1>4, <1>5 DEF Label

LEMMA HostNameIs ==
  ASSUME NEW l \in Label
  PROVE  /\ HostName(l) \in NameOf
         /\ WireName(HostName(l)) = NameBytes(l)
         /\ NameBytes(l) \in Seq(Byte)
         /\ \A label : Names(HostName(l), label) <=> Lower(l) = Lower(label)
<1> DEFINE labels == <<l, Local>>
           ss == [i \in DOMAIN labels |-> LabelBytes(labels[i])]
<1>1. Local \in Label /\ labels \in Seq(Label) /\ DOMAIN labels = 1..2
      /\ labels[1] = l /\ labels[2] = Local /\ Len(labels) = 2
  BY LocalIs
<1>2. HostName(l) \in NameOf
  BY <1>1 DEF HostName, NameOf
<1>3. LabelBytes(l) \in Seq(Byte) /\ LabelBytes(Local) \in Seq(Byte)
  BY <1>1, LabelBytesIs
<1>4. ss[1] = LabelBytes(l) /\ ss[2] = LabelBytes(Local) /\ ss \in Seq(Seq(Byte)) /\ Len(ss) = 2
  BY <1>1, <1>3
<1>5. WireName(HostName(l)) = Joined(ss) \o Root
  BY DEF WireName, HostName
<1> HIDE DEF labels, ss
<1>6. Joined(ss) = LabelBytes(l) \o LabelBytes(Local)
  BY <1>4, JoinedIs
<1>7. NameBytes(l) = ((LabelBytes(l) \o <<5>>) \o Local) \o Root
  BY DEF NameBytes, LabelBytes
<1>8. LabelBytes(Local) = <<5>> \o Local /\ <<5>> \in Seq(Byte) /\ Local \in Seq(Byte)
  BY LocalIs DEF LabelBytes, Byte
<1>9. (LabelBytes(l) \o <<5>>) \o Local = LabelBytes(l) \o (<<5>> \o Local)
  <2>1. \A u, v, w \in Seq(Byte) : (u \o v) \o w = u \o (v \o w)
    BY ConcatAssociative
  <2> QED
    BY <1>3, <1>8, <2>1
<1>10. WireName(HostName(l)) = NameBytes(l)
  BY <1>5, <1>6, <1>7, <1>8, <1>9
<1>11. NameBytes(l) \in Seq(Byte)
  BY <1>2, <1>10, NameIs
<1>12. ASSUME NEW label PROVE Names(HostName(l), label) <=> Lower(l) = Lower(label)
  <2>1. [i \in DOMAIN labels |-> Lower(labels[i])] = <<Lower(l), Local>>
    <3>1. [i \in DOMAIN labels |-> Lower(labels[i])] = [i \in 1..2 |-> Lower(labels[i])]
      BY <1>1
    <3>2. [i \in 1..2 |-> Lower(labels[i])] = <<Lower(labels[1]), Lower(labels[2])>>
      OBVIOUS
    <3> QED
      BY <1>1, <3>1, <3>2, LocalIs
  <2>2. Names(HostName(l), label) <=> <<Lower(l), Local>> = <<Lower(label), Local>>
    BY <2>1 DEF Names, HostName, labels
  <2> QED
    BY <2>2
<1> QED
  BY <1>2, <1>10, <1>11, <1>12

LEMMA Regroup ==
  ASSUME NEW u \in Seq(Byte), NEW v \in Seq(Byte), NEW w \in Seq(Byte)
  PROVE  v \o w \in Seq(Byte) /\ (u \o v) \o w = u \o (v \o w)
BY ConcatAssociative, HoldsConcat

\* What the device builds is what the RFC writes.
LEMMA BuiltIs ==
  ASSUME NEW l \in Label, NEW ip \in Seq(Byte), Len(ip) = 4
  PROVE  /\ QueryFor(l) \in Message /\ Wire(QueryFor(l)) = build_query(l)
         /\ AnswerOf(l, ip) \in Message /\ Wire(AnswerOf(l, ip)) = build_answer(l, ip)
         /\ build_query(l) \in Seq(Byte) /\ build_answer(l, ip) \in Seq(Byte)
<1> DEFINE q == [name |-> HostName(l), type |-> TypeA, class |-> ClassIn]
           a == [name |-> HostName(l), type |-> TypeA, class |-> TopBit + ClassIn,
                 ttl |-> <<0, 0, 0, 120>>, data |-> ip]
           hq == Header(0, 1, 0)
           ha == Header(Response, 0, 1)
           ttl == <<0, 0, 0, 120>>
           name == NameBytes(l)
<1>1. /\ TypeA \in Short /\ ClassIn \in Short /\ TopBit + ClassIn \in Short /\ Response \in Short
      /\ 0 \in Short /\ 1 \in Short /\ 4 \in Short
  BY DEF TypeA, ClassIn, TopBit, Response, Short
<1>2. q \in Question
  BY <1>1, HostNameIs DEF Question
<1>3. ttl \in Byte \X Byte \X Byte \X Byte /\ ttl \in Seq(Byte)
  BY DEF Byte
<1>4. a \in Record
  BY <1>1, <1>3, HostNameIs DEF Record
<1>5. QueryFor(l) \in Message /\ AnswerOf(l, ip) \in Message
  <2>1. <<q>> \in Seq(Question) /\ Len(<<q>>) = 1 /\ << >> \in Seq(Question) /\ Len(<< >>) = 0
        /\ <<a>> \in Seq(Record) /\ Len(<<a>>) = 1 /\ << >> \in Seq(Record)
    BY <1>2, <1>4
  <2> QED
    BY <1>1, <2>1 DEF QueryFor, AnswerOf, Message
<1>6. hq \in Seq(Byte) /\ ha \in Seq(Byte)
  BY <1>1, HeaderIs
<1>7. U16(TypeA) \in Seq(Byte) /\ U16(ClassIn) \in Seq(Byte) /\ U16(TopBit + ClassIn) \in Seq(Byte)
      /\ U16(4) \in Seq(Byte)
  BY <1>1, U16Is
<1>8. name \in Seq(Byte) /\ LabelFits(l)
  BY HostNameIs DEF LabelFits, Label
<1>9. WireQuestion(q) = (name \o U16(TypeA)) \o U16(ClassIn) /\ WireQuestion(q) \in Seq(Byte)
  BY <1>2, HostNameIs, QuestionIs DEF WireQuestion
<1>10. WireRecord(a)
         = ((((name \o U16(TypeA)) \o U16(TopBit + ClassIn)) \o ttl) \o U16(4)) \o ip
       /\ WireRecord(a) \in Seq(Byte)
  BY <1>4, HostNameIs, RecordIs DEF WireRecord
<1> HIDE DEF q, a
<1>11. Joined([i \in DOMAIN <<q>> |-> WireQuestion(<<q>>[i])]) = WireQuestion(q)
  <2> DEFINE ss == [i \in DOMAIN <<q>> |-> WireQuestion(<<q>>[i])]
  <2>1. DOMAIN <<q>> = 1..1 /\ \A i \in 1..1 : <<q>>[i] = q
    OBVIOUS
  <2>2. ss = [i \in 1..1 |-> WireQuestion(q)]
    BY <2>1
  <2> HIDE DEF ss
  <2>3. ss \in Seq(Seq(Byte)) /\ Len(ss) = 1 /\ ss[1] = WireQuestion(q)
    BY <1>9, <2>2
  <2>4. Joined(ss) = WireQuestion(q)
    BY <2>3, JoinedIs
  <2> QED
    BY <2>4 DEF ss
<1>12. Joined([i \in DOMAIN <<a>> |-> WireRecord(<<a>>[i])]) = WireRecord(a)
  <2> DEFINE ss == [i \in DOMAIN <<a>> |-> WireRecord(<<a>>[i])]
  <2>1. DOMAIN <<a>> = 1..1 /\ \A i \in 1..1 : <<a>>[i] = a
    OBVIOUS
  <2>2. ss = [i \in 1..1 |-> WireRecord(a)]
    BY <2>1
  <2> HIDE DEF ss
  <2>3. ss \in Seq(Seq(Byte)) /\ Len(ss) = 1 /\ ss[1] = WireRecord(a)
    <3>1. WireRecord(a) \in Seq(Byte)
      BY <1>10
    <3> QED
      BY <2>2, <3>1
  <2>4. Joined(ss) = WireRecord(a)
    BY <2>3, JoinedIs
  <2> QED
    BY <2>4 DEF ss
<1>13. Joined([i \in DOMAIN << >> |-> WireQuestion(<< >>[i])]) = << >>
       /\ Joined([i \in DOMAIN << >> |-> WireRecord(<< >>[i])]) = << >>
  <2>1. [i \in DOMAIN << >> |-> WireQuestion(<< >>[i])] = << >>
        /\ [i \in DOMAIN << >> |-> WireRecord(<< >>[i])] = << >>
    OBVIOUS
  <2>2. << >> \in Seq(Seq(Byte)) /\ Len(<< >>) = 0
    OBVIOUS
  <2>3. Joined(<< >>) = << >>
    BY <2>2, JoinedIs
  <2> QED
    BY <2>1, <2>3
<1>0. \A u, v \in Seq(Byte) : u \o v \in Seq(Byte)
  BY HoldsConcat
<1>14. \A u, v, w \in Seq(Byte) : (u \o v) \o w = u \o (v \o w)
  BY ConcatAssociative
<1>15. \A u \in Seq(Byte) : u \o << >> = u
  BY ConcatEmptySeq
<1>16. Wire(QueryFor(l)) = (hq \o WireQuestion(q)) \o << >>
  BY <1>11, <1>13 DEF Wire, QueryFor, q
<1>17. Wire(AnswerOf(l, ip)) = (ha \o << >>) \o WireRecord(a)
  BY <1>12, <1>13 DEF Wire, AnswerOf, a
<1>18. build_query(l) = ((hq \o name) \o U16(TypeA)) \o U16(ClassIn)
  BY <1>8 DEF build_query
<1>19. build_answer(l, ip)
         = (((((ha \o name) \o U16(TypeA)) \o U16(TopBit + ClassIn)) \o ttl) \o U16(4)) \o ip
  BY <1>8 DEF build_answer
<1> HIDE DEF hq, ha, ttl, name
<1>20. Wire(QueryFor(l)) = build_query(l) /\ build_query(l) \in Seq(Byte)
  <2> DEFINE t == U16(TypeA)
             c == U16(ClassIn)
  <2>1. hq \in Seq(Byte) /\ name \in Seq(Byte) /\ t \in Seq(Byte) /\ c \in Seq(Byte)
    BY <1>6, <1>7, <1>8
  <2>2. WireQuestion(q) = (name \o t) \o c /\ WireQuestion(q) \in Seq(Byte)
    BY <1>9
  <2>3. build_query(l) = ((hq \o name) \o t) \o c
    BY <1>18
  <2> HIDE DEF t, c
  <2> DEFINE n2 == name \o t
  <2>4. n2 \in Seq(Byte)
    BY <1>0, <2>1
  <2>5. hq \o n2 = (hq \o name) \o t
    <3>1. hq \in Seq(Byte) /\ name \in Seq(Byte) /\ t \in Seq(Byte)
      BY <2>1
    <3> QED
      BY <3>1, Regroup, SMTT(30)
  <2>6. WireQuestion(q) = n2 \o c
    BY <2>2
  <2> HIDE DEF n2
  <2>7. (hq \o n2) \o c = hq \o (n2 \o c)
    <3>1. hq \in Seq(Byte) /\ n2 \in Seq(Byte) /\ c \in Seq(Byte)
      BY <2>1, <2>4
    <3> QED
      BY <3>1, Regroup, SMTT(30)
  <2>8. hq \o WireQuestion(q) \in Seq(Byte)
    BY <1>0, <2>1, <2>2
  <2>9. Wire(QueryFor(l)) = hq \o WireQuestion(q)
    BY <1>15, <1>16, <2>8
  <2> QED
    BY <2>3, <2>5, <2>6, <2>7, <2>8, <2>9
<1>21. Wire(AnswerOf(l, ip)) = build_answer(l, ip) /\ build_answer(l, ip) \in Seq(Byte)
  <2> DEFINE t == U16(TypeA)
             c == U16(TopBit + ClassIn)
             d == U16(4)
             n2 == name \o t
             n3 == n2 \o c
             n4 == n3 \o ttl
             n5 == n4 \o d
  <2>1. t \in Seq(Byte) /\ c \in Seq(Byte) /\ d \in Seq(Byte)
    BY <1>7
  <2>2. WireRecord(a) = n5 \o ip /\ WireRecord(a) \in Seq(Byte)
    BY <1>10
  <2>3. build_answer(l, ip) = (((((ha \o name) \o t) \o c) \o ttl) \o d) \o ip
    BY <1>19
  <2> HIDE DEF t, c, d
  <2>4. n2 \in Seq(Byte) /\ (ha \o name) \o t = ha \o n2
    <3>1. ha \in Seq(Byte) /\ name \in Seq(Byte) /\ t \in Seq(Byte)
      BY <1>6, <1>8, <2>1
    <3>2. n2 \in Seq(Byte)
      BY <3>1, Regroup, SMTT(30)
    <3>3. (ha \o name) \o t = ha \o n2
      BY <3>1, Regroup, SMTT(30)
    <3> QED
      BY <3>2, <3>3
  <2> HIDE DEF n2
  <2>5. n3 \in Seq(Byte) /\ (ha \o n2) \o c = ha \o n3
    <3>1. ha \in Seq(Byte) /\ n2 \in Seq(Byte) /\ c \in Seq(Byte)
      BY <1>6, <2>1, <2>4
    <3> QED
      BY <3>1, Regroup, SMTT(30)
  <2> HIDE DEF n3
  <2>6. n4 \in Seq(Byte) /\ (ha \o n3) \o ttl = ha \o n4
    <3>1. ha \in Seq(Byte) /\ n3 \in Seq(Byte) /\ ttl \in Seq(Byte)
      BY <1>3, <1>6, <2>5
    <3> QED
      BY <3>1, Regroup, SMTT(30)
  <2> HIDE DEF n4
  <2>7. n5 \in Seq(Byte) /\ (ha \o n4) \o d = ha \o n5
    <3>1. ha \in Seq(Byte) /\ n4 \in Seq(Byte) /\ d \in Seq(Byte)
      BY <1>6, <2>1, <2>6
    <3> QED
      BY <3>1, Regroup, SMTT(30)
  <2> HIDE DEF n5
  <2>8. (ha \o n5) \o ip = ha \o (n5 \o ip)
    <3>1. ha \in Seq(Byte) /\ n5 \in Seq(Byte) /\ ip \in Seq(Byte)
      BY <1>6, <2>7
    <3> QED
      BY <3>1, Regroup, SMTT(30)
  <2>9. ha \o WireRecord(a) \in Seq(Byte)
    BY <1>0, <1>6, <2>2
  <2>10. Wire(AnswerOf(l, ip)) = ha \o WireRecord(a)
    BY <1>6, <1>15, <1>17
  <2> QED
    BY <2>2, <2>3, <2>4, <2>5, <2>6, <2>7, <2>8, <2>9, <2>10, Zenon
<1> QED
  BY <1>5, <1>20, <1>21

\* A packet stands in itself.
LEMMA HoldsSelf ==
  ASSUME NEW pkt \in Seq(Byte)
  PROVE  Holds(pkt, 1, pkt)
<1>1. Len(pkt) \in Nat /\ \A i \in 1 .. Len(pkt) : 1 + i - 1 = i
  OBVIOUS
<1>2. 1 + Len(pkt) <= EndOf(pkt)
  BY <1>1 DEF EndOf
<1> QED
  BY <1>1, <1>2 DEF Holds

\* Two devices that run this code find each other by any name that fits a label and
\* tell any address, and take neither packet of the other kind for their own.
THEOREM PeersFindEachOther ==
  ASSUME NEW l \in Label, NEW host, NEW ip \in Seq(Byte), Len(ip) = 4
  PROVE  /\ is_query_for(build_query(l), host) <=> Lower(l) = Lower(host)
         /\ parse_answer(build_answer(l, ip), host)
              = IF Lower(l) = Lower(host) THEN ip ELSE NoAddr
         /\ ~is_query_for(build_answer(l, ip), host)
         /\ parse_answer(build_query(l), host) = NoAddr
<1> DEFINE mq == QueryFor(l)
           ma == AnswerOf(l, ip)
           pq == build_query(l)
           pa == build_answer(l, ip)
<1>1. /\ mq \in Message /\ ma \in Message /\ pq = Wire(mq) /\ pa = Wire(ma)
      /\ pq \in Seq(Byte) /\ pa \in Seq(Byte)
  BY BuiltIs
<1>2. Names(HostName(l), host) <=> Lower(l) = Lower(host)
  BY HostNameIs
<1>3. Asks(mq, host) <=> Lower(l) = Lower(host)
  <2>1. DOMAIN mq.questions = {1} /\ mq.response = FALSE
        /\ mq.questions[1] = [name |-> HostName(l), type |-> TypeA, class |-> ClassIn]
    BY DEF QueryFor
  <2>2. ClassIn % TopBit = ClassIn
    BY DEF ClassIn, TopBit
  <2> QED
    BY <1>2, <2>1, <2>2 DEF Asks
<1>4. ~Asks(ma, host) /\ Answer(mq, host) = NoAddr
  BY DEF Asks, Answer, QueryFor, AnswerOf
<1>5. Answer(ma, host) = IF Lower(l) = Lower(host) THEN ip ELSE NoAddr
  <2>1. DOMAIN ma.answers = {1} /\ ma.response = TRUE /\ ma.answers[1].name = HostName(l)
        /\ ma.answers[1].type = TypeA /\ ma.answers[1].data = ip
    BY DEF AnswerOf
  <2>2. Matching(ma, host) = IF Lower(l) = Lower(host) THEN {1} ELSE {}
    BY <1>2, <2>1 DEF Matching
  <2>3. First(1, {1})
    BY DEF First
  <2>4. (CHOOSE i \in {1} : \A j \in {1} : i <= j) = 1
    OBVIOUS
  <2> QED
    BY <2>1, <2>2, <2>4 DEF Answer
<1> HIDE DEF mq, ma, pq, pa
<1>6. Holds(pq, 1, Wire(mq)) /\ Holds(pa, 1, Wire(ma))
  BY <1>1, HoldsSelf
<1>7. /\ is_query_for(pq, host) = Asks(mq, host) /\ parse_answer(pq, host) = Answer(mq, host)
      /\ is_query_for(pa, host) = Asks(ma, host) /\ parse_answer(pa, host) = Answer(ma, host)
  BY <1>1, <1>6, MessageUnderstood
<1> QED
  BY <1>3, <1>4, <1>5, <1>7 DEF pq, pa

-----------------------------------------------------------------------------
(* What the run of the client checks. *)

LEMMA SamplesAreMessages == Messages \cup ShortMessages \subseteq Message
<1> DEFINE H == <<72>>
           L == <<76, 79, 67, 65, 76>>
<1>1. Host \in Label /\ Peer \in Label /\ Local \in Label /\ H \in Label /\ L \in Label
  BY LocalIs DEF Host, Peer, Label, Byte
<1> HIDE DEF H, L
<1>2. Root \in {Root} \cup ((192..255) \X Byte)
      /\ <<192, 12>> \in {Root} \cup ((192..255) \X Byte)
  BY DEF Byte
<1>3. /\ << >> \in Seq(Label) /\ <<Host>> \in Seq(Label) /\ <<Host, Local>> \in Seq(Label)
      /\ <<H, L>> \in Seq(Label) /\ <<Peer, Local>> \in Seq(Label)
      /\ <<Host, Local, Peer>> \in Seq(Label) /\ <<Local, Host>> \in Seq(Label)
  BY <1>1
<1>4. SampleNames \subseteq NameOf
  <2> DEFINE E == {Root} \cup ((192..255) \X Byte)
             A == {<<Host, Local>>, <<H, L>>, <<Host>>, <<Peer, Local>>, <<Host, Local, Peer>>,
                   <<Local, Host>>}
             B == {<< >>, <<Host>>, <<Host, Local>>}
  <2>1. A \subseteq Seq(Label) /\ B \subseteq Seq(Label) /\ {Root} \subseteq E
        /\ {<<192, 12>>} \subseteq E
    BY <1>2, <1>3
  <2>2. SampleNames = [labels : A, end : {Root}] \cup [labels : B, end : {<<192, 12>>}]
    BY DEF SampleNames, H, L
  <2> HIDE DEF A, B, E
  <2>3. NameOf = [labels : Seq(Label), end : E]
    BY DEF NameOf, E
  <2> QED
    BY <2>1, <2>2, <2>3
<1>5. /\ TypeA \in Short /\ 28 \in Short /\ ClassIn \in Short /\ TopBit + ClassIn \in Short
      /\ 3 \in Short /\ 0 \in Short /\ 1 \in Short /\ 2 \in Short /\ 4 \in Short /\ 5 \in Short
  BY DEF TypeA, ClassIn, TopBit, Short
<1>6. SampleQuestions \subseteq Question
  BY <1>4, <1>5 DEF SampleQuestions, Question
<1>7. /\ <<0, 0, 0, 9>> \in Byte \X Byte \X Byte \X Byte
      /\ Ip \in Seq(Byte) /\ Len(Ip) = 4
      /\ <<10, 0, 0, 7>> \in Seq(Byte) /\ Len(<<10, 0, 0, 7>>) = 4
      /\ <<1, 4, 72, 0, 1>> \in Seq(Byte) /\ Len(<<1, 4, 72, 0, 1>>) = 5
  BY DEF Ip, Byte
<1>8. SampleRecords \subseteq Record
  BY <1>4, <1>5, <1>7, ZenonT(60) DEF SampleRecords, Record
<1> DEFINE Some(S) == {ss \in Seq(S) : Len(ss) \in Short}
<1>9. ASSUME NEW S
      PROVE  /\ << >> \in Some(S)
             /\ \A x \in S : <<x>> \in Some(S)
             /\ UpTo2(S) \subseteq Some(S)
  <2>1. << >> \in Some(S) /\ \A x \in S : <<x>> \in Some(S)
    BY <1>5
  <2>2. \A x, y \in S : <<x, y>> \in Some(S)
    BY <1>5
  <2>3. ASSUME NEW ss \in UpTo2(S) PROVE ss \in Some(S)
    <3>1. CASE ss \in {<<x>> : x \in S}
      BY <2>1, <3>1
    <3>2. CASE ss \in S \X S
      <4>1. PICK x, y \in S : ss = <<x, y>>
        BY <3>2
      <4> QED
        BY <2>2, <4>1
    <3> QED
      BY <2>3, <3>1, <3>2 DEF UpTo2
  <2> QED
    BY <2>1, <2>3
<1>10. ASSUME NEW S, NEW T, S \subseteq T PROVE UpTo2(S) \subseteq UpTo2(T)
  <2>1. {<<x>> : x \in S} \subseteq {<<x>> : x \in T} /\ S \X S \subseteq T \X T
    BY <1>10
  <2> QED
    BY <2>1 DEF UpTo2
<1> HIDE DEF Some
<1>11. EchoedQuestions \subseteq Some(Question)
  <2> DEFINE Q == [name : SampleNames, type : {TypeA}, class : {ClassIn}]
  <2>1. Q \subseteq Question
    BY <1>4, <1>5 DEF Question
  <2>2. EchoedQuestions = {<< >>} \cup {<<q>> : q \in Q}
    BY DEF EchoedQuestions
  <2> HIDE DEF Q
  <2> QED
    BY <1>9, <2>1, <2>2
<1>12. {<< >>} \cup UpTo2(SampleQuestions) \subseteq Some(Question)
  <2>1. UpTo2(SampleQuestions) \subseteq UpTo2(Question)
    BY <1>6, <1>10
  <2> QED
    BY <1>9, <2>1
<1>13. UpTo2(SampleRecords) \subseteq Some(Record)
  <2>1. UpTo2(SampleRecords) \subseteq UpTo2(Record)
    BY <1>8, <1>10
  <2> QED
    BY <1>9, <2>1
<1>14. {<< >>} \cup {<<a>> : a \in SampleRecords} \subseteq Some(Record)
  BY <1>9, <1>8
<1>15. ASSUME NEW b \in BOOLEAN, NEW qs \in Seq(Question), NEW as \in Seq(Record),
              Len(qs) \in Short, Len(as) \in Short
       PROVE  [response |-> b, questions |-> qs, answers |-> as] \in Message
  BY <1>15 DEF Message
<1>16. << >> \in Some(Question) /\ << >> \in Some(Record)
  BY <1>9
<1>17. ASSUME NEW m \in Messages \cup ShortMessages PROVE m \in Message
  <2>1. /\ m = [response |-> m.response, questions |-> m.questions, answers |-> m.answers]
        /\ m.response \in BOOLEAN
        /\ m.questions \in Some(Question) /\ m.answers \in Some(Record)
    <3>1. CASE m \in [response : {FALSE}, questions : {<< >>} \cup UpTo2(SampleQuestions),
                      answers : {<< >>}]
      BY <1>12, <1>16, <3>1
    <3>2. CASE m \in [response : {FALSE}, questions : EchoedQuestions,
                      answers : {<<a>> : a \in SampleRecords}]
      BY <1>11, <1>14, <3>2
    <3>3. CASE m \in [response : {TRUE}, questions : {<< >>}, answers : UpTo2(SampleRecords)]
      BY <1>13, <1>16, <3>3
    <3>4. CASE m \in [response : BOOLEAN, questions : EchoedQuestions,
                      answers : {<< >>} \cup {<<a>> : a \in SampleRecords}]
      BY <1>11, <1>14, <3>4
    <3> QED
      BY <3>1, <3>2, <3>3, <3>4 DEF Messages, ShortMessages
  <2> QED
    BY <1>15, <2>1 DEF Some
<1> QED
  BY <1>17

LEMMA WireTyped ==
  ASSUME NEW m \in Message
  PROVE  Wire(m) \in Seq(Byte)
<1> DEFINE head == Header(IF m.response THEN Response ELSE 0, Len(m.questions), Len(m.answers))
           wq == [i \in DOMAIN m.questions |-> WireQuestion(m.questions[i])]
           wa == [i \in DOMAIN m.answers |-> WireRecord(m.answers[i])]
<1>1. /\ m.questions \in Seq(Question) /\ m.answers \in Seq(Record)
      /\ Len(m.questions) \in Short /\ Len(m.answers) \in Short
  BY DEF Message
<1>2. head \in Seq(Byte)
  <2>1. (IF m.response THEN Response ELSE 0) \in Short
    BY DEF Short, Response
  <2> QED
    BY <1>1, <2>1, HeaderIs
<1>3. wq \in Seq(Seq(Byte))
  <2>1. \A i \in DOMAIN m.questions : WireQuestion(m.questions[i]) \in Seq(Byte)
    BY <1>1, QuestionIs
  <2> QED
    BY <1>1, <2>1
<1>4. wa \in Seq(Seq(Byte))
  <2>1. \A i \in DOMAIN m.answers : WireRecord(m.answers[i]) \in Seq(Byte)
    BY <1>1, RecordIs
  <2> QED
    BY <1>1, <2>1
<1>5. Wire(m) = (head \o Joined(wq)) \o Joined(wa)
  BY DEF Wire
<1> HIDE DEF head, wq, wa
<1>6. Joined(wq) \in Seq(Byte) /\ Joined(wa) \in Seq(Byte)
  BY <1>3, <1>4, JoinedIs
<1> QED
  BY <1>2, <1>5, <1>6, HoldsConcat

\* The samples of the run are instances of the theorems above.
LEMMA SamplesUnderstood == ScannersAgree /\ CutsAreHarmless /\ PeersUnderstand
<1>1. ASSUME NEW m \in Message
      PROVE  /\ Wire(m) \in Seq(Byte)
             /\ is_query_for(Wire(m), Host) = Asks(m, Host)
             /\ parse_answer(Wire(m), Host) = Answer(m, Host)
  <2>1. Wire(m) \in Seq(Byte)
    BY WireTyped
  <2>2. Holds(Wire(m), 1, Wire(m))
    BY <2>1, HoldsSelf
  <2> QED
    BY <2>1, <2>2, MessageUnderstood
<1>2. ScannersAgree
  BY <1>1, SamplesAreMessages DEF ScannersAgree
<1>3. CutsAreHarmless
  <2>1. ASSUME NEW m \in ShortMessages, NEW n \in 0 .. Len(Wire(m)) - 1
        PROVE  LET cut == SubSeq(Wire(m), 1, n)
               IN  /\ is_query_for(cut, Host) => Asks(m, Host)
                   /\ parse_answer(cut, Host) \in {NoAddr, Answer(m, Host)}
    <3> DEFINE pkt == Wire(m)
               cut == SubSeq(pkt, 1, n)
    <3>1. m \in Message
      BY SamplesAreMessages
    <3>2. pkt \in Seq(Byte) /\ is_query_for(pkt, Host) = Asks(m, Host)
          /\ parse_answer(pkt, Host) = Answer(m, Host) /\ n \in 0 .. Len(pkt) - 1
      BY <1>1, <3>1
    <3> HIDE DEF pkt
    <3>3. cut = [i \in 1..n |-> pkt[i]] /\ n \in Nat /\ n <= Len(pkt)
      BY <3>2
    <3>4. cut \in Seq(Byte) /\ Len(cut) = n
      BY <3>2, <3>3
    <3>5. CutOf(cut, pkt)
      BY <3>2, <3>3, <3>4 DEF CutOf
    <3>6. /\ is_query_for(cut, Host) => is_query_for(pkt, Host)
          /\ parse_answer(cut, Host) \in {NoAddr, parse_answer(pkt, Host)}
      BY <3>5, CutSaysNoMore
    <3> QED
      BY <3>2, <3>6 DEF pkt
  <2> QED
    BY <2>1 DEF CutsAreHarmless
<1>4. PeersUnderstand
  <2>1. Host \in Label /\ Peer \in Label /\ Ip \in Seq(Byte) /\ Len(Ip) = 4
    BY DEF Host, Peer, Ip, Label, Byte
  <2>2. Lower(Host) # Lower(Peer)
    <3>1. DOMAIN Lower(Host) = 1..1 /\ DOMAIN Lower(Peer) = 1..2
      BY DEF Lower, Host, Peer
    <3>2. 2 \in 1..2 /\ 2 \notin 1..1
      OBVIOUS
    <3> QED
      BY <3>1, <3>2
  <2>3. ASSUME NEW l \in {Host, Peer}
        PROVE  /\ is_query_for(build_query(l), Host) <=> l = Host
               /\ parse_answer(build_answer(l, Ip), Host) = (IF l = Host THEN Ip ELSE NoAddr)
               /\ ~is_query_for(build_answer(l, Ip), l)
               /\ parse_answer(build_query(l), l) = NoAddr
    <3>1. l \in Label /\ (Lower(l) = Lower(Host) <=> l = Host)
      BY <2>1, <2>2
    <3>2. \A host :
            /\ is_query_for(build_query(l), host) <=> Lower(l) = Lower(host)
            /\ parse_answer(build_answer(l, Ip), host)
                 = IF Lower(l) = Lower(host) THEN Ip ELSE NoAddr
            /\ ~is_query_for(build_answer(l, Ip), host)
            /\ parse_answer(build_query(l), host) = NoAddr
      BY <2>1, <3>1, PeersFindEachOther
    <3> QED
      BY <3>1, <3>2
  <2> QED
    BY <2>3 DEF PeersUnderstand
<1> QED
  BY <1>2, <1>3, <1>4

\* While the client's driver waits for a lookup, every packet it may be sent is
\* understood, which the run checks on its samples.
THEOREM LookupsUnderstood == Spec => []WireUnderstood
<1>1. WireUnderstood
  BY SamplesUnderstood DEF WireUnderstood
<1> QED
  BY <1>1, PTL
==============================================================================

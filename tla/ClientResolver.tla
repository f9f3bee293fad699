----------------------------- MODULE ClientResolver -----------------------------
(***************************************************************************)
(* The HTTP client and the .local resolver it depends on, composed of two  *)
(* AsyncBridges: CLIENT_BRIDGE, on which the ECS calls the one client      *)
(* driver (src/src/net/http_client.rs), and RESOLVER, on which that driver *)
(* calls whichever mDNS task polls next (src/src/net/mdns.rs).  An mDNS    *)
(* task lives inside the accept loop of an HttpServer entity with an MDns  *)
(* component and ends with it (src/src/net/http_server.rs).                *)
(*                                                                         *)
(* The network is external: a unicast DNS query, a TCP exchange and a      *)
(* multicast lookup succeed or fail, in bounded time (the sockets and      *)
(* do_resolve set deadlines).  Whether a host ends in .local is open.      *)
(***************************************************************************)
EXTENDS Naturals, Sequences, FiniteSets

CONSTANTS
  Apps,          \* ECS tasks that send requests
  MaxRequests,   \* bound on the requests of one of them
  ClientDepth,   \* 4 in the code
  ResolverDepth, \* 2 in the code
  Servers,       \* HttpServer entities with MDns, each started at most once
  Stops,         \* whether a server may stop
  JoinFails,     \* whether joining the group or binding the port may fail
  None

VARIABLES
  clOutcome, clResult, clQueue, clTasks, clSignal,    \* CLIENT_BRIDGE
  reOutcome, reResult, reQueue, reTasks, reSignal,    \* RESOLVER
  dhcp,      \* the stack has its configuration
  driver,    \* where client_driver's exchange is
  mdns,      \* the mDNS task of each server
  held       \* the lookup that task is resolving, or None

Cl == INSTANCE AsyncBridge WITH
  Callers <- Apps, MaxCalls <- MaxRequests, Depth <- ClientDepth, Serial <- TRUE,
  Out <- {"response", "error"}, outcome <- clOutcome, result <- clResult,
  queue <- clQueue, tasks <- clTasks, signal <- clSignal

Re == INSTANCE AsyncBridge WITH
  Callers <- {"driver"}, MaxCalls <- Cardinality(Apps) * MaxRequests,
  Depth <- ResolverDepth, Serial <- FALSE,
  Out <- {"addr", "none"}, outcome <- reOutcome, result <- reResult,
  queue <- reQueue, tasks <- reTasks, signal <- reSignal

ASSUME ResolverAssumption ==
  /\ Cl!BridgeAssumption /\ Re!BridgeAssumption
  /\ None \notin Re!Calls
  /\ Stops \in BOOLEAN /\ JoinFails \in BOOLEAN

clVars == <<clOutcome, clResult, clQueue, clTasks, clSignal>>
reVars == <<reOutcome, reResult, reQueue, reTasks, reSignal>>
mdVars == <<mdns, held>>
vars == <<clVars, reVars, dhcp, driver, mdVars>>

Init ==
  /\ Cl!Init /\ Re!Init
  /\ dhcp = FALSE /\ driver = "idle"
  /\ mdns = [s \in Servers |-> "absent"]
  /\ held = [s \in Servers |-> None]

DhcpUp ==
  /\ ~dhcp /\ dhcp' = TRUE
  /\ UNCHANGED <<clVars, reVars, driver, mdVars>>

-----------------------------------------------------------------------------
(* The ECS side: esp_send. *)

SendRequest(id) ==
  /\ Cl!Call(id)
  /\ UNCHANGED <<reVars, dhcp, driver, mdVars>>

ReceiveResponse(id) ==
  /\ Cl!Receive(id)
  /\ UNCHANGED <<reVars, dhcp, driver, mdVars>>

\* The task that sends, or its entity, is dropped while it waits; the driver serves
\* the request all the same.
DropRequest(id) ==
  /\ Cl!Cancel(id)
  /\ UNCHANGED <<reVars, dhcp, driver, mdVars>>

-----------------------------------------------------------------------------
(* client_driver: run_worker with exchange as its worker. *)

TakeJob ==
  /\ dhcp /\ driver = "idle"
  /\ Cl!Take
  /\ driver' = "exchange"
  /\ UNCHANGED <<reVars, dhcp, mdVars>>

\* The exchange returns o and the driver replies.
Reply(o) ==
  /\ \E id \in clTasks : Cl!Finish(id, o)
  /\ driver' = "idle"

\* A host that is no .local name: dns_query, which fails or leads to exchange_on.
DnsQuery ==
  /\ driver = "exchange"
  /\ \/ Reply("error")
     \/ driver' = "transport" /\ UNCHANGED clVars
  /\ UNCHANGED <<reVars, dhcp, mdVars>>

\* A .local host: resolve calls RESOLVER; a full queue is None, hence an error.
Resolve ==
  /\ driver = "exchange"
  /\ \E rid \in Re!Calls :
       /\ Re!Call(rid)
       /\ IF reOutcome'[rid] = "rejected"
          THEN Reply("error")
          ELSE driver' = "resolving" /\ UNCHANGED clVars
  /\ UNCHANGED <<dhcp, mdVars>>

\* Mutant of Resolved: the driver gives the lookup up after a timeout.
ResolvedOrTimeout ==
  /\ driver = "resolving"
  /\ \E rid \in Re!Calls :
       \/ /\ Re!Receive(rid)
          /\ IF reResult'[rid].out = "addr"
             THEN driver' = "transport" /\ UNCHANGED clVars
             ELSE Reply("error")
       \/ Re!Cancel(rid) /\ Reply("error")
  /\ UNCHANGED <<dhcp, mdVars>>

\* Mutant of Resolved: a lookup without an address drops the job unanswered.
ResolvedDropsJob ==
  /\ driver = "resolving"
  /\ \E rid \in Re!Calls :
       /\ Re!Receive(rid)
       /\ IF reResult'[rid].out = "addr"
          THEN driver' = "transport" /\ UNCHANGED clVars
          ELSE /\ driver' = "idle" /\ clTasks' = {}
               /\ UNCHANGED <<clOutcome, clResult, clQueue, clSignal>>
  /\ UNCHANGED <<dhcp, mdVars>>

\* The answer arrives: an address, or None.
Resolved ==
  /\ driver = "resolving"
  /\ \E rid \in Re!Calls :
       /\ Re!Receive(rid)
       /\ IF reResult'[rid].out = "addr"
          THEN driver' = "transport" /\ UNCHANGED clVars
          ELSE Reply("error")
  /\ UNCHANGED <<dhcp, mdVars>>

\* exchange_on: connect, send, read to the end, each bounded by the 10 s timeout.
Transport ==
  /\ driver = "transport"
  /\ \E o \in {"response", "error"} : Reply(o)
  /\ UNCHANGED <<reVars, dhcp, mdVars>>

-----------------------------------------------------------------------------
(* The accept loop's task and the mDNS task joined with it. *)

StartServer(s) ==
  /\ mdns[s] = "absent"
  /\ mdns' = [mdns EXCEPT ![s] = "starting"]
  /\ UNCHANGED <<clVars, reVars, dhcp, driver, held>>

\* mdns_task joins the group and binds the port, or logs and returns; the
\* accept loop it is joined with goes on in both cases.
JoinGroup(s) ==
  /\ dhcp /\ mdns[s] = "starting"
  /\ \/ mdns' = [mdns EXCEPT ![s] = "idle"]
     \/ JoinFails /\ mdns' = [mdns EXCEPT ![s] = "ended"]
  /\ UNCHANGED <<clVars, reVars, dhcp, driver, held>>

\* RESOLVER.try_recv, polled between packets and at least every 250 ms.
TakeLookup(s) ==
  /\ mdns[s] = "idle"
  /\ Re!Take
  /\ held' = [held EXCEPT ![s] = Head(reQueue)]
  /\ mdns' = [mdns EXCEPT ![s] = "resolving"]
  /\ UNCHANGED <<clVars, dhcp, driver>>

\* do_resolve returns the matching answer, or None after a failed send or 2 s;
\* inbound queries answered meanwhile change nothing here.
AnswerLookup(s) ==
  /\ mdns[s] = "resolving"
  /\ \E o \in {"addr", "none"} : Re!Finish(held[s], o)
  /\ held' = [held EXCEPT ![s] = None]
  /\ mdns' = [mdns EXCEPT ![s] = "idle"]
  /\ UNCHANGED <<clVars, dhcp, driver>>

\* StopOnDrop: select drops the task wherever it is, with the Reply it holds.
StopServer(s) ==
  /\ Stops /\ mdns[s] \in {"starting", "idle", "resolving"}
  /\ mdns' = [mdns EXCEPT ![s] = "ended"]
  /\ held' = [held EXCEPT ![s] = None]
  /\ reTasks' = reTasks \ {held[s]}
  /\ UNCHANGED <<clVars, reOutcome, reResult, reQueue, reSignal, dhcp, driver>>

-----------------------------------------------------------------------------

Driver == TakeJob \/ DnsQuery \/ Resolve \/ Resolved \/ Transport

MDnsTask(s) == JoinGroup(s) \/ TakeLookup(s) \/ AnswerLookup(s)

Next ==
  \/ DhcpUp
  \/ \E id \in Cl!Calls : SendRequest(id) \/ ReceiveResponse(id) \/ DropRequest(id)
  \/ Driver
  \/ \E s \in Servers : StartServer(s) \/ MDnsTask(s) \/ StopServer(s)

Spec == Init /\ [][Next]_vars

\* The executors poll woken tasks for ever and DHCP completes.  Nothing makes
\* an application start or stop a server.
FairSpec ==
  /\ Spec
  /\ WF_vars(DhcpUp) /\ WF_vars(Driver)
  /\ \A id \in Cl!Calls : WF_vars(ReceiveResponse(id))
  /\ \A s \in Servers : WF_vars(MDnsTask(s))

-----------------------------------------------------------------------------
(* Properties. *)

MDnsState == {"absent", "starting", "idle", "resolving", "ended"}

\* Types of both bridges, and who holds what: the driver has a job exactly when
\* it is not idle, and an mDNS task a lookup exactly while it resolves.
TypeOK ==
  /\ Cl!TypeOK /\ Re!TypeOK /\ dhcp \in BOOLEAN
  /\ driver \in {"idle", "exchange", "resolving", "transport"}
  /\ (driver = "idle") <=> (clTasks = {})
  /\ mdns \in [Servers -> MDnsState]
  /\ held \in [Servers -> Re!Calls \cup {None}]
  /\ \A s \in Servers : (mdns[s] = "resolving") <=> (held[s] # None)
  /\ reTasks = {held[s] : s \in Servers} \ {None}

\* RESOLVER never refuses a lookup, although several requests are in flight:
\* the driver is its only caller and waits for each answer, so "queue full"
\* in resolve is dead code and a lookup's None always comes from the task.
ResolverNeverRefuses == \A rid \in Re!Calls : reOutcome[rid] # "rejected"

\* The two together.
ResolverInv == TypeOK /\ ResolverNeverRefuses

\* The driver is a serial worker of CLIENT_BRIDGE whatever its exchange does.
ClientIsBridge == Cl!Spec

\* Nobody will answer the driver's lookup: no task holds it, and either it is
\* not queued any more or no mDNS task is left to take it.
Wedged ==
  /\ driver = "resolving"
  /\ reTasks = {} /\ \A rid \in Re!Calls : reSignal[rid] = None
  /\ reQueue = <<>> \/ \A s \in Servers : mdns[s] \in {"absent", "ended"}

\* Every queued request gets its response or error, unless its sender is dropped.
\* When servers come and go, a lookup nobody will answer is the only thing that can
\* keep it from that.
AnsweredUnlessWedged ==
  \A id \in Cl!Calls :
    clOutcome[id] = "open" ~> (clOutcome[id] # "open" \/ Wedged)

\* What src/src/net/mdns.rs:93 says of resolve, "Returns `None` if the mDNS task
\* is not running", and src/src/net/http_client.rs:110, "a `.local` lookup with
\* no mDNS task simply fails the normal way": the driver's lookup ends.
LookupEnds == driver = "resolving" ~> driver # "resolving"
=============================================================================

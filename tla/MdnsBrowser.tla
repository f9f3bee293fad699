------------------------------ MODULE MdnsBrowser ------------------------------
(***************************************************************************)
(* The mDNS service browser (src/src/net/mdns_browser.rs): the embassy     *)
(* task of an MdnsBrowser entity multicasts a PTR query when it starts and *)
(* again after a whole QUERY_INTERVAL without a packet; the bounded        *)
(* drop-newest queue PACKETS carries every datagram to a per-frame system  *)
(* of the ECS, which records what it announces.                            *)
(*                                                                         *)
(* The network is external: every responder answers a query, chatter is    *)
(* other traffic on port 5353, a datagram may be lost.  All of it is       *)
(* multicast, which the stack gives only to a socket that listens on no    *)
(* address in particular.  Of a datagram only its sender is kept.  Time    *)
(* is counted in units, Interval of them to one QUERY_INTERVAL.  One       *)
(* browser: which of two sockets bound to the port a datagram reaches is   *)
(* decided outside this code.                                              *)
(***************************************************************************)
EXTENDS Naturals, Sequences, SequencesExt

CONSTANTS
  Hosts,       \* responders of the service type
  Interval,    \* QUERY_INTERVAL (5 s)
  Depth,       \* capacity of PACKETS (8)
  SocketDepth, \* datagrams the socket buffers (8)
  MaxChatter,  \* bound on the chatter of one behaviour
  MaxLost,     \* bound on the queries and answers lost on the network
  BindFails,   \* whether joining the group or binding the port may fail
  Chatter,     \* the sender of every other datagram
  Unspecified, \* 0.0.0.0
  AnyAddress   \* the listen address None: whatever a datagram was sent to

ASSUME BrowserAssumption ==
  /\ Interval \in Nat \ {0} /\ Depth \in Nat \ {0} /\ SocketDepth \in Nat \ {0}
  /\ MaxChatter \in Nat /\ MaxLost \in Nat
  /\ BindFails \in BOOLEAN
  /\ Chatter \notin Hosts /\ AnyAddress # Unspecified

VARIABLES
  stack,     \* start_wifi has published the Stack
  task,      \* the browser's task
  listen,    \* the address its socket listens on
  quiet,     \* time since its with_timeout began
  rx,        \* the datagrams in its socket
  due,       \* the hosts that are about to answer the last query
  packets,   \* PACKETS
  known,     \* DiscoveredServices
  dropped,   \* history: an answer was lost since the last query
  chatter,   \* chatter sent so far
  lost       \* queries and answers lost on the network so far

browserVars == <<stack, task, listen, quiet, rx, due, packets, known, dropped,
                 chatter, lost>>
ecsVars == <<stack, packets, known>>
netVars == <<chatter, lost>>

BrowserInit ==
  /\ stack = FALSE
  /\ task = "pending" /\ listen = Unspecified /\ quiet = 0
  /\ rx = <<>> /\ due = {}
  /\ packets = <<>> /\ known = {}
  /\ dropped = FALSE /\ chatter = 0 /\ lost = 0

-----------------------------------------------------------------------------
(* The ECS. *)

PublishStack ==
  /\ ~stack /\ stack' = TRUE
  /\ UNCHANGED <<task, listen, quiet, rx, due, packets, known, dropped, netVars>>

\* start_pending_browsers: with the Stack there, a task for the new entity.
StartPending ==
  /\ stack /\ task = "pending"
  /\ task' = "starting"
  /\ UNCHANGED <<ecsVars, listen, quiet, rx, due, dropped, netVars>>

\* Mutant of DrainPackets: one datagram a frame, the others are forgotten.
DrainFirst ==
  /\ packets # <<>>
  /\ known' = known \cup ({Head(packets)} \cap Hosts)
  /\ packets' = <<>>
  /\ UNCHANGED <<stack, task, listen, quiet, rx, due, dropped, netVars>>

\* drain_browser_packets: every queued datagram reaches handle_udp_packet.
DrainPackets ==
  /\ packets # <<>>
  /\ known' = known \cup (ToSet(packets) \cap Hosts)
  /\ packets' = <<>>
  /\ UNCHANGED <<stack, task, listen, quiet, rx, due, dropped, netVars>>

-----------------------------------------------------------------------------
(* browser_task. *)

\* Mutant of ListenOn: the address is passed on as it is.
ListenOnAsGiven(ip) == ip

\* EmbassyUdpEndpoint::bind: the unspecified address stands for any.
ListenOn(ip) == IF ip = Unspecified THEN AnyAddress ELSE ip

\* A multicast PTR query, sent or failed and logged, and a new interval.
Query ==
  /\ quiet' = 0
  /\ \/ due' = Hosts /\ dropped' = FALSE /\ UNCHANGED lost
     \/ /\ lost < MaxLost /\ lost' = lost + 1
        /\ dropped' = TRUE /\ UNCHANGED due

\* The stack is configured: join the group, bind and query, or log and return.
Start ==
  /\ task = "starting"
  /\ \/ task' = "up" /\ listen' = ListenOn(Unspecified) /\ Query
     \/ /\ BindFails /\ task' = "ended"
        /\ UNCHANGED <<listen, quiet, due, dropped, lost>>
  /\ UNCHANGED <<ecsVars, rx, chatter>>

\* A datagram of host h found no room.
Drop(h) == dropped' = (dropped \/ h \in Hosts)

\* A datagram within the interval: PACKETS takes it or it is dropped; either way
\* the next with_timeout begins anew.
Receive ==
  /\ task = "up" /\ rx # <<>>
  /\ rx' = Tail(rx) /\ quiet' = 0
  /\ IF Len(packets) < Depth
     THEN packets' = Append(packets, Head(rx)) /\ UNCHANGED dropped
     ELSE Drop(Head(rx)) /\ UNCHANGED packets
  /\ UNCHANGED <<stack, task, listen, due, known, netVars>>

\* with_timeout elapses; a datagram that came with the timer is taken first.
Requery ==
  /\ task = "up" /\ quiet = Interval /\ rx = <<>>
  /\ Query
  /\ UNCHANGED <<ecsVars, task, listen, rx, chatter>>

-----------------------------------------------------------------------------
(* The network and time. *)

\* A datagram to the group reaches the socket, if it listens on any address; its
\* full buffer drops it.
Arrive(h) ==
  IF listen = AnyAddress /\ Len(rx) < SocketDepth
  THEN rx' = Append(rx, h) /\ UNCHANGED dropped
  ELSE Drop(h) /\ UNCHANGED rx

\* A host answers, or its answer is lost on the way.
HostAnswers(h) ==
  /\ h \in due
  /\ due' = due \ {h}
  /\ \/ Arrive(h) /\ UNCHANGED lost
     \/ /\ lost < MaxLost /\ lost' = lost + 1
        /\ Drop(h) /\ UNCHANGED rx
  /\ UNCHANGED <<ecsVars, task, listen, quiet, chatter>>

Chatters ==
  /\ task = "up"
  /\ chatter < MaxChatter /\ chatter' = chatter + 1
  /\ Arrive(Chatter)
  /\ UNCHANGED <<ecsVars, task, listen, quiet, due, lost>>

\* A woken task is polled, and a frame drains the queue, long before a unit of
\* time (more than a second) is over.
Tick ==
  /\ task = "up" /\ rx = <<>> /\ packets = <<>> /\ quiet < Interval
  /\ quiet' = quiet + 1
  /\ UNCHANGED <<ecsVars, task, listen, rx, due, dropped, netVars>>

-----------------------------------------------------------------------------

BrowserNext ==
  \/ PublishStack \/ StartPending \/ DrainPackets
  \/ Start \/ Receive \/ Requery
  \/ \E h \in Hosts : HostAnswers(h)
  \/ Chatters \/ Tick

BrowserSpec == BrowserInit /\ [][BrowserNext]_browserVars

\* Wi-Fi starts, frames tick, woken tasks are polled, hosts answer.  Time passes
\* although a datagram, until it is taken, puts the next unit off: Tick is
\* strongly fair.
BrowserFairSpec ==
  /\ BrowserSpec
  /\ WF_browserVars(PublishStack) /\ WF_browserVars(StartPending)
  /\ WF_browserVars(DrainPackets) /\ WF_browserVars(Start)
  /\ WF_browserVars(Receive) /\ WF_browserVars(Requery) /\ SF_browserVars(Tick)
  /\ \A h \in Hosts : WF_browserVars(HostAnswers(h))

-----------------------------------------------------------------------------
(* Properties. *)

\* Types, and the bounds of PACKETS and the socket buffer.
BrowserTypeOK ==
  /\ stack \in BOOLEAN
  /\ task \in {"pending", "starting", "up", "ended"}
  /\ listen \in {Unspecified, AnyAddress} /\ quiet \in 0..Interval
  /\ rx \in Seq(Hosts \cup {Chatter}) /\ Len(rx) <= SocketDepth
  /\ due \subseteq Hosts
  /\ packets \in Seq(Hosts \cup {Chatter}) /\ Len(packets) <= Depth
  /\ known \subseteq Hosts
  /\ dropped \in BOOLEAN
  /\ chatter \in 0..MaxChatter /\ lost \in 0..MaxLost

\* No answer vanishes between the socket and DiscoveredServices: a host unknown
\* to a running browser is still to answer, buffered or queued, unless an answer
\* was dropped since the last query.
NothingVanishes ==
  task = "up" /\ ~dropped =>
    Hosts \subseteq known \cup due \cup ToSet(rx) \cup ToSet(packets)

\* The two together.
BrowserInv == BrowserTypeOK /\ NothingVanishes

\* Where chatter comes to an end and the queue holds the answers of all hosts,
\* the browser finds every host, whatever was dropped before: it asks again.
\* Chatter that goes on for ever may put the next query off for ever: every
\* datagram starts the interval anew.
AllFound == task = "up" ~> known = Hosts
=============================================================================

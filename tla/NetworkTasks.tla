----------------------------- MODULE NetworkTasks ------------------------------
(***************************************************************************)
(* The firmware from its first frame on: the systems that start it up      *)
(* (src/src/esp32_plugin.rs, net/mod.rs, alvik/driver.rs, utils/led.rs,    *)
(* esp32_utils/clock.rs), the tasks they start on the pool of              *)
(* ExecutorPool, the wall clock of SntpClock among them, and the sockets   *)
(* of the network stack those tasks share.                                 *)
(*                                                                         *)
(* Two tables panic when they overflow: the task pool and the socket set.  *)
(* The code's own sizes can be exceeded, so they may be small here too.    *)
(* A start-up system panics when what it claims is not there, so the       *)
(* stages of bevy's start-up schedule have to order who provides before    *)
(* who claims.  An application has Esp32Plugin and WifiPlugin, and of the  *)
(* other plugins those it is built with.                                   *)
(***************************************************************************)
EXTENDS ExecutorPool, SntpClock

CONSTANTS
  Builds,        \* the sets of plugins applications are built with
  StackSockets,  \* STACK_SOCKETS (7, or 6)
  HeldSockets    \* sockets of the stack itself: DHCP and DNS

VARIABLES
  plugins,    \* the plugins of this application
  booted,     \* the start-up systems that have run
  resources,  \* the non-send resources, and what main has stashed
  open        \* which tasks hold a socket

Systems == {"bring_up", "start_wifi", "spawn_alvik_driver", "spawn_clock",
            "claim_ws2812_drivers"}

\* The systems of this application.
Present ==
  {"bring_up", "start_wifi"}
  \cup (IF "alvik" \in plugins THEN {"spawn_alvik_driver"} ELSE {})
  \cup (IF "clock" \in plugins THEN {"spawn_clock"} ELSE {})
  \cup (IF "led" \in plugins THEN {"claim_ws2812_drivers"} ELSE {})

\* Mutant of Stage: spawn_clock is added to Startup like start_wifi.
StageWithoutPost ==
  [s \in Systems |-> IF s = "bring_up" THEN 0
                     ELSE IF s = "claim_ws2812_drivers" THEN 2 ELSE 1]

\* PreStartup, Startup, PostStartup.
Stage ==
  [s \in Systems |-> IF s = "bring_up" THEN 0
                     ELSE IF s \in {"start_wifi", "spawn_alvik_driver"} THEN 1
                     ELSE 2]

\* What a system claims and takes away, what it reads, and what it provides.  The
\* LED plugin claims nothing in an application without a Ws2812Led entity.
Claims ==
  [bring_up |-> {"PERIPHERALS"}, start_wifi |-> {"WIFI"},
   spawn_alvik_driver |-> {"UART1", "GPIOs"}, spawn_clock |-> {},
   claim_ws2812_drivers |-> IF "pixel" \in plugins THEN {"RMT", "GPIO48"} ELSE {}]

Reads == [s \in Systems |-> IF s = "spawn_clock" THEN {"Stack"} ELSE {}]

Provides ==
  [s \in Systems |->
     IF s = "bring_up" THEN {"WIFI", "UART1", "GPIOs", "RMT", "GPIO48"}
     ELSE IF s = "start_wifi" THEN {"Stack"} ELSE {}]

\* The drivers a system starts.
Starts ==
  [bring_up |-> {"sleep_driver"},
   start_wifi |-> {"connection_loop", "net_loop", "client_driver"}
                  \cup (IF "sockets" \in plugins THEN {"socket_driver"} ELSE {}),
   spawn_alvik_driver |-> {"alvik_driver"}, spawn_clock |-> {"clock_loop"},
   claim_ws2812_drivers |-> {}]

\* All of the pool but its panic.
lentVars == <<inFrame, started, online, sleep, sleepQ, abandoned, dial, dialQ, used>>
bootVars == <<plugins, booted, resources>>
allVars == <<poolVars, clockVars, bootVars, open>>

\* The accept loop is started by the ECS when the server's facet runs, and is not
\* stopped here; it stands for the task of an mDNS browser too, which a later frame
\* starts as well.
ASSUME NetworkAssumption ==
  /\ Drivers = {"sleep_driver", "connection_loop", "net_loop", "client_driver",
                "socket_driver", "alvik_driver", "clock_loop", "server_loop"}
  /\ Builds \subseteq SUBSET {"alvik", "sockets", "clock", "led", "pixel", "mdns"}
  /\ StackSockets \in Nat /\ HeldSockets \in 0..StackSockets
  /\ {"client", "clock", "server", "mdns"} \cap Dials = {}

NetInit ==
  /\ PoolInit /\ ClockInit
  /\ plugins \in Builds
  /\ booted = {} /\ resources = {"PERIPHERALS"}
  /\ open = {}

-----------------------------------------------------------------------------
(* The first frame. *)

\* A system runs after those of the earlier stages and in any order with those
\* of its own.  An expect that fails halts the firmware.
RunSystem(s) ==
  /\ inFrame
  /\ s \in Present \ booted
  /\ {t \in Present : Stage[t] < Stage[s]} \subseteq booted
  /\ booted' = booted \cup {s}
  /\ IF Claims[s] \cup Reads[s] \subseteq resources
     THEN /\ resources' = (resources \ Claims[s]) \cup Provides[s]
          /\ IF Starts[s] = {} THEN UNCHANGED poolVars
                               ELSE StartDrivers(Starts[s])
     ELSE /\ panicked' = TRUE
          /\ UNCHANGED <<resources, inFrame, started, online, sleep, sleepQ,
                         abandoned, dial, dialQ, used>>
  /\ UNCHANGED <<plugins, clockVars, open>>

Running == booted = Present

\* What the ECS does in a frame after that: the tasks of its sockets connect and
\* sleep between two dials, and the server's facet starts its accept loop.
EcsStep ==
  /\ Running
  /\ \/ /\ "sockets" \in plugins
        /\ \/ \E s \in Sleepers : Sleep(s) \/ Wake(s) \/ Abandon(s)
           \/ \E d \in Dials : Dial(d)
     \/ StartDrivers({"server_loop"})
  /\ UNCHANGED <<clockVars, bootVars, open>>

FrameStep ==
  /\ \/ BeginFrame
     \/ Running /\ EndFrame
  /\ UNCHANGED <<clockVars, bootVars, open>>

-----------------------------------------------------------------------------
(* The tasks between two frames. *)

\* A task adds a socket to the stack's set, which panics when it is full.
OpenSocket(o) ==
  IF HeldSockets + Cardinality(open) < StackSockets
  THEN open' = open \cup {o} /\ UNCHANGED panicked
  ELSE panicked' = TRUE /\ UNCHANGED open

PoolStep ==
  /\ \/ config /\ "socket_driver" \in started /\ GoOnline
     \/ SpawnTimer \/ SpawnConnection
     \/ \E s \in Sleepers : TimerEnds(s)
  /\ UNCHANGED <<clockVars, bootVars, open>>

\* handle_connection has resolved its server.
Connects(d) ==
  /\ ~inFrame /\ dial[d] = "live" /\ d \notin open
  /\ OpenSocket(d)
  /\ UNCHANGED lentVars
  /\ UNCHANGED <<clockVars, bootVars>>

\* drive_connection returns, and drops its socket.
Disconnects(d) ==
  /\ ConnectionEnds(d)
  /\ open' = open \ {d}
  /\ UNCHANGED <<clockVars, bootVars>>

\* The server's task: its accept loop, and the mDNS task joined with it for a server
\* that asked for one, wait for the address and then keep a socket each.
Serves(o) ==
  /\ ~inFrame /\ "server_loop" \in started /\ config
  /\ o \in {"server"} \cup (plugins \cap {"mdns"}) /\ o \notin open
  /\ OpenSocket(o)
  /\ UNCHANGED lentVars
  /\ UNCHANGED <<clockVars, bootVars>>

\* The serial client driver opens a socket for an exchange, and drops it.
Exchange ==
  /\ ~inFrame /\ "client_driver" \in started
  /\ IF "client" \in open
     THEN open' = open \ {"client"} /\ UNCHANGED panicked
     ELSE config /\ OpenSocket("client")
  /\ UNCHANGED lentVars
  /\ UNCHANGED <<clockVars, bootVars>>

\* clock_loop: an attempt owns a socket from its request to its end.
ClockStep ==
  /\ ~inFrame /\ "clock_loop" \in started
  /\ SyncStep
  /\ IF task' = "exchange" THEN OpenSocket("clock")
                           ELSE open' = open \ {"clock"} /\ UNCHANGED panicked
  /\ UNCHANGED lentVars
  /\ UNCHANGED bootVars

\* connection_loop, and the address.
LinkStep ==
  /\ ~inFrame /\ {"connection_loop", "net_loop"} \subseteq started
  /\ StationStep
  /\ UNCHANGED <<poolVars, bootVars, open>>

\* The server, the network and time go on during a frame.  Without the clock
\* nothing here looks at the time.
Outside ==
  /\ "clock" \in plugins /\ OutsideStep
  /\ UNCHANGED <<poolVars, bootVars, open>>

-----------------------------------------------------------------------------

AsyncStep ==
  \/ PoolStep \/ Exchange
  \/ \E o \in {"server", "mdns"} : Serves(o)
  \/ \E d \in Dials : Connects(d) \/ Disconnects(d)
  \/ ClockStep \/ LinkStep \/ Outside

NetNext ==
  /\ ~panicked
  /\ FrameStep \/ EcsStep \/ (\E s \in Present : RunSystem(s)) \/ AsyncStep

NetSpec == NetInit /\ [][NetNext]_allVars

\* Frames tick for ever and run the schedule.  Woken tasks are polled, elapsed
\* timers and the radio are served between two frames although each frame disables
\* them.  Time passes, and the server answers.
NetFairSpec ==
  /\ NetSpec
  /\ WF_allVars(FrameStep \/ PoolStep \/ \E s \in Present : RunSystem(s))
  /\ \A s \in Sleepers :
       SF_allVars(\/ EcsStep /\ Wake(s)
                  \/ PoolStep /\ TimerEnds(s))
  /\ SF_allVars(ClockStep)
  /\ SF_allVars(LinkStep /\ UNCHANGED faults)
  /\ WF_allVars(Outside /\ UNCHANGED faults)

-----------------------------------------------------------------------------
(* Properties. *)

\* Types of the parts, and the bound of the socket set.
NetTypeOK ==
  /\ PoolTypeOK /\ ClockTypeOK
  /\ plugins \in Builds /\ booted \subseteq Present
  /\ open \subseteq Dials \cup {"client", "clock", "server", "mdns"}
  /\ HeldSockets + Cardinality(open) <= StackSockets

\* More tasks are alive than the pool has slots for, the refused one included; every
\* socket of the stack is somebody's.
Overfull == 1 + Cardinality(started) + Holding > Pool
NoFreeSocket == HeldSockets + Cardinality(open) >= StackSockets

\* The firmware halts for one reason only.  Start-up never halts it: every system
\* finds what it claims, in every order the schedule allows.  After start-up it halts
\* only with the pool or the socket set really full: no slot of a task that ended, of
\* an abandoned sleep whose timer ran out, or of a connection that is over is lost.
NoNeedlessPanic == panicked => Running /\ (Overfull \/ NoFreeSocket)

\* Every sleep ends, and an abandoned one gives its timer back, unless the firmware
\* halts first.
SleepsEnd == \A s \in Sleepers : sleep[s] # "awake" ~> (sleep[s] = "awake" \/ panicked)

\* The clock keeps what SntpClock promises of it beside everything else that runs.
KeepsSynced == "clock" \in plugins => Resynced
=============================================================================

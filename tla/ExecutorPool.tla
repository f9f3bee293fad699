------------------------------ MODULE ExecutorPool ------------------------------
(***************************************************************************)
(* The pool of 16 embassy tasks that run_boxed lends to every driver       *)
(* (src/src/esp32_utils/async_bridge.rs), and the two drivers that take a  *)
(* slot per job: sleep_driver, a timer task for each queued sleep          *)
(* (src/src/esp32_plugin.rs), and socket_driver, a task for each socket    *)
(* connection (src/src/net/socket_client.rs).  The other drivers never     *)
(* return and are started by systems of the ECS (NetworkTasks).            *)
(* spawn_driver panics when no slot is free, and a panic halts the         *)
(* firmware.  The depth of the queue does not bound the timers: it is      *)
(* drained into timer tasks, and each runs out even when the ECS task      *)
(* that slept was dropped.                                                 *)
(*                                                                         *)
(* The ECS runs only inside a frame and the embassy tasks only between two *)
(* frames.  esp_runner awaits a timer between two frames and the executor  *)
(* polls every woken task before it, so both drivers have drained their    *)
(* queues when the next frame begins; socket_driver first waits, once, for *)
(* the network, and leaves its queue alone until then.                     *)
(***************************************************************************)
EXTENDS Naturals, Sequences, FiniteSets

CONSTANTS
  Pool,        \* pool_size (16)
  Drivers,     \* tasks that never return: sleep_driver, Wi-Fi, clock, ..
  Sleepers,    \* bound on the sleeps under way at once; the code sets none
  SleepDepth,  \* capacity of SLEEP_QUEUE (8)
  Dials,       \* ECS tasks that connect sockets
  DialDepth    \* capacity of CONNECT_BRIDGE (2)

ASSUME PoolAssumption ==
  /\ Pool \in Nat \ {0} /\ IsFiniteSet(Drivers)
  /\ SleepDepth \in Nat \ {0} /\ DialDepth \in Nat \ {0}
  /\ IsFiniteSet(Sleepers) /\ IsFiniteSet(Dials)

VARIABLES
  inFrame,   \* app.update() is running
  started,   \* the drivers that have been started
  online,    \* socket_driver has seen the network come up
  sleep,     \* the state of each sleep, for example of a redial's backoff
  sleepQ,    \* SLEEP_QUEUE
  abandoned, \* the sleeps whose ECS task was dropped meanwhile
  dial,      \* the state of each dialling task
  dialQ,     \* CONNECT_BRIDGE
  used,      \* slots of the pool in use
  panicked   \* spawn_driver found the pool exhausted

poolVars == <<inFrame, started, online, sleep, sleepQ, abandoned,
              dial, dialQ, used, panicked>>

\* esp_runner has started its own task, the tick.
PoolInit ==
  /\ inFrame = FALSE /\ started = {} /\ online = FALSE
  /\ sleep = [s \in Sleepers |-> "awake"] /\ sleepQ = <<>> /\ abandoned = {}
  /\ dial = [d \in Dials |-> "idle"] /\ dialQ = <<>>
  /\ used = 1 /\ panicked = FALSE

-----------------------------------------------------------------------------
(* The frame. *)

BeginFrame ==
  /\ ~inFrame /\ sleepQ = <<>> /\ (online => dialQ = <<>>)
  /\ inFrame' = TRUE
  /\ UNCHANGED <<started, online, sleep, sleepQ, abandoned, dial, dialQ, used, panicked>>

EndFrame ==
  /\ inFrame
  /\ inFrame' = FALSE
  /\ UNCHANGED <<started, online, sleep, sleepQ, abandoned, dial, dialQ, used, panicked>>

\* The hook of install_beet_sleep: a full queue resolves the sleep at once.
Sleep(s) ==
  /\ inFrame /\ sleep[s] = "awake"
  /\ IF Len(sleepQ) < SleepDepth
     THEN /\ sleepQ' = Append(sleepQ, s)
          /\ sleep' = [sleep EXCEPT ![s] = "sleeping"]
     ELSE UNCHANGED <<sleepQ, sleep>>
  /\ UNCHANGED <<inFrame, started, online, abandoned, dial, dialQ, used, panicked>>

\* The signal has been raised and the sleeping ECS task goes on.
Wake(s) ==
  /\ inFrame /\ sleep[s] = "elapsed"
  /\ sleep' = [sleep EXCEPT ![s] = "awake"]
  /\ UNCHANGED <<inFrame, started, online, sleepQ, abandoned, dial, dialQ, used, panicked>>

\* The sleeping ECS task is dropped, and the future of its sleep with it.  Its
\* place in the queue, and its timer task, stay for the whole duration.
Abandon(s) ==
  /\ inFrame /\ sleep[s] # "awake" /\ s \notin abandoned
  /\ IF sleep[s] = "elapsed"
     THEN sleep' = [sleep EXCEPT ![s] = "awake"] /\ UNCHANGED abandoned
     ELSE abandoned' = abandoned \cup {s} /\ UNCHANGED sleep
  /\ UNCHANGED <<inFrame, started, online, sleepQ, dial, dialQ, used, panicked>>

\* esp_connect: a full CONNECT_BRIDGE is an error of the connect.
Dial(d) ==
  /\ inFrame /\ dial[d] = "idle"
  /\ Len(dialQ) < DialDepth
  /\ dialQ' = Append(dialQ, d)
  /\ dial' = [dial EXCEPT ![d] = "queued"]
  /\ UNCHANGED <<inFrame, started, online, sleep, sleepQ, abandoned, used, panicked>>

-----------------------------------------------------------------------------
(* The embassy tasks. *)

\* spawn_driver, n times: run_boxed takes a slot of the pool, or expect panics.
SpawnDrivers(n) ==
  IF used + n <= Pool
  THEN used' = used + n /\ UNCHANGED panicked
  ELSE panicked' = TRUE /\ UNCHANGED used

\* A system of the ECS starts drivers that never return.
StartDrivers(S) ==
  /\ inFrame
  /\ S # {} /\ S \subseteq Drivers \ started
  /\ started' = started \cup S
  /\ SpawnDrivers(Cardinality(S))
  /\ UNCHANGED <<inFrame, online, sleep, sleepQ, abandoned, dial, dialQ>>

\* sleep_driver: every queued sleep gets a timer task of its own.
SpawnTimer ==
  /\ ~inFrame /\ sleepQ # <<>>
  /\ sleepQ' = Tail(sleepQ)
  /\ sleep' = [sleep EXCEPT ![Head(sleepQ)] = "timing"]
  /\ SpawnDrivers(1)
  /\ UNCHANGED <<inFrame, started, online, abandoned, dial, dialQ>>

\* The signal of an elapsed sleep; nobody waits for that of an abandoned one.
Signalled(s) ==
  /\ sleep' = [sleep EXCEPT ![s] = IF s \in abandoned THEN "awake" ELSE "elapsed"]
  /\ abandoned' = abandoned \ {s}

\* Mutant of TimerEnds: the task of an elapsed timer keeps its slot.
TimerLeaksSlot(s) ==
  /\ ~inFrame /\ sleep[s] = "timing"
  /\ Signalled(s)
  /\ UNCHANGED <<inFrame, started, online, sleepQ, dial, dialQ, used, panicked>>

\* Mutant of TimerEnds: the task ends without raising the signal.
TimerUnsignalled(s) ==
  /\ ~inFrame /\ sleep[s] = "timing"
  /\ used' = used - 1
  /\ sleep' = [sleep EXCEPT ![s] = "sleeping"]
  /\ UNCHANGED <<inFrame, started, online, sleepQ, abandoned, dial, dialQ, panicked>>

\* The timer elapses, the task raises the signal and ends.
TimerEnds(s) ==
  /\ ~inFrame /\ sleep[s] = "timing"
  /\ Signalled(s)
  /\ used' = used - 1
  /\ UNCHANGED <<inFrame, started, online, sleepQ, dial, dialQ, panicked>>

\* wait_config_up of socket_driver returns.
GoOnline ==
  /\ ~inFrame /\ ~online /\ online' = TRUE
  /\ UNCHANGED <<inFrame, started, sleep, sleepQ, abandoned, dial, dialQ, used, panicked>>

\* socket_driver: every connect gets a connection task of its own.
SpawnConnection ==
  /\ ~inFrame /\ online /\ dialQ # <<>>
  /\ dialQ' = Tail(dialQ)
  /\ dial' = [dial EXCEPT ![Head(dialQ)] = "live"]
  /\ SpawnDrivers(1)
  /\ UNCHANGED <<inFrame, started, online, sleep, sleepQ, abandoned>>

\* drive_connection returns: the dial failed or the connection is over.
ConnectionEnds(d) ==
  /\ ~inFrame /\ dial[d] = "live"
  /\ dial' = [dial EXCEPT ![d] = "idle"]
  /\ used' = used - 1
  /\ UNCHANGED <<inFrame, started, online, sleep, sleepQ, abandoned, dialQ, panicked>>

-----------------------------------------------------------------------------

\* What the two sides do.  A panic halts both.
InFrame ==
  \/ EndFrame
  \/ \E S \in SUBSET Drivers : StartDrivers(S)
  \/ \E s \in Sleepers : Sleep(s) \/ Wake(s) \/ Abandon(s)
  \/ \E d \in Dials : Dial(d)

BetweenFrames ==
  \/ BeginFrame
  \/ GoOnline \/ SpawnTimer \/ SpawnConnection
  \/ \E s \in Sleepers : TimerEnds(s)
  \/ \E d \in Dials : ConnectionEnds(d)

PoolNext == ~panicked /\ (InFrame \/ BetweenFrames)

PoolSpec == PoolInit /\ [][PoolNext]_poolVars

-----------------------------------------------------------------------------
(* Properties. *)

Holding == Cardinality({s \in Sleepers : sleep[s] = "timing"})
           + Cardinality({d \in Dials : dial[d] = "live"})

\* Types, the bounds of both queues and of the pool, and no slot is leaked: the
\* pool lends a slot to the tick and to each driver, timer and connection.
PoolTypeOK ==
  /\ inFrame \in BOOLEAN /\ panicked \in BOOLEAN
  /\ started \subseteq Drivers /\ online \in BOOLEAN
  /\ sleep \in [Sleepers -> {"awake", "sleeping", "timing", "elapsed"}]
  /\ sleepQ \in Seq(Sleepers) /\ Len(sleepQ) <= SleepDepth
  /\ abandoned \subseteq Sleepers
  /\ \A s \in abandoned : sleep[s] \in {"sleeping", "timing"}
  /\ dial \in [Dials -> {"idle", "queued", "live"}]
  /\ dialQ \in Seq(Dials) /\ Len(dialQ) <= DialDepth
  /\ used \in 1..Pool
  /\ ~panicked => used = 1 + Cardinality(started) + Holding
=============================================================================

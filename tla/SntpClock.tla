------------------------------- MODULE SntpClock -------------------------------
(***************************************************************************)
(* The wall clock (src/src/esp32_utils/clock.rs) and the Wi-Fi station     *)
(* under it (connection_loop, src/src/net/mod.rs).  clock_loop asks an NTP *)
(* server for the time, anchors the answer to the monotonic clock, and     *)
(* asks again after an hour, or after a shorter delay when an attempt      *)
(* failed.                                                                 *)
(*                                                                         *)
(* The clocks count whole seconds from the NTP epoch.  The oscillator that *)
(* drives the uptime may be early or late by a second while the task       *)
(* sleeps; its error within one exchange of SNTP_TIMEOUT is neglected.     *)
(* The server is external and honest: it answers with its time at the      *)
(* moment of answering, of which 32 bits fit in the packet.  DHCP is       *)
(* external too.  The loop waits for the address once, and afterwards      *)
(* finds a lost link only by attempts that fail.                           *)
(***************************************************************************)
EXTENDS Integers

CONSTANTS
  Offset,     \* NTP_UNIX_OFFSET_SECS: the Unix epoch
  Wrap,       \* 2^32: the width of the seconds in a packet
  Boot,       \* the time at which the device is switched on
  Horizons,   \* bounds on the clocks: after one of them only timers run on
  Timeout,    \* SNTP_TIMEOUT (5 s)
  RetryDelay, \* RETRY_DELAY (10 s)
  Resync,     \* RESYNC_INTERVAL (3600 s)
  MaxFaults,  \* bound on what goes wrong in one behaviour
  MaxDrift    \* bound on the seconds the oscillator is off in one behaviour

\* The device is switched on after 1970 and switched off before the seconds
\* that wrapped look like a date again, in 2106.
ASSUME ClockAssumption ==
  /\ {Offset, Wrap, Boot, Timeout, RetryDelay, Resync} \subseteq Nat
  /\ {MaxFaults, MaxDrift} \subseteq Nat
  /\ 0 < Offset /\ Offset <= Boot /\ Boot < Wrap
  /\ Horizons \subseteq Boot..(Wrap + Offset - 1)

VARIABLES
  horizon,  \* the bound on the clocks in this behaviour
  now,      \* the true time
  uptime,   \* Instant::now()
  link,     \* connection_loop: "connecting", "backoff" or "connected"
  config,   \* the stack has an address
  task,     \* clock_loop: "wait", "resolve", "exchange", "synced" or "backoff"
  timer,    \* time since its with_timeout or its Timer began
  reply,    \* the exchange: "none", "asked", "sent", "bad" or "lost"
  secs,     \* the transmit timestamp of a reply under way
  anchor,   \* BOOT_UNIX_MILLIS
  synced,   \* SYNCED, with the now source installed
  faults,   \* faults so far
  drift,    \* seconds the oscillator was off so far
  gap       \* history: now - uptime when the anchor was stored

linkVars == <<link, config>>
timeVars == <<horizon, now, uptime, drift>>
anchorVars == <<anchor, synced, gap>>
clockVars == <<linkVars, timeVars, anchorVars, task, timer, reply, secs, faults>>

ClockInit ==
  /\ horizon \in Horizons /\ now = Boot /\ uptime = 0 /\ drift = 0
  /\ link = "connecting" /\ config = FALSE
  /\ task = "wait" /\ timer = 0 /\ reply = "none" /\ secs = 0
  /\ anchor = 0 /\ synced = FALSE /\ gap = 0
  /\ faults = 0

Fault == faults < MaxFaults /\ faults' = faults + 1

-----------------------------------------------------------------------------
(* connection_loop, and the address that DHCP or the static configuration    *)
(* gives to a connected station.                                             *)

Connect ==
  /\ link = "connecting"
  /\ \/ link' = "connected" /\ UNCHANGED faults
     \/ link' = "backoff" /\ Fault
  /\ UNCHANGED <<config, timeVars, anchorVars, task, timer, reply, secs>>

\* The three seconds after a failed connect are over.
Reconnect ==
  /\ link = "backoff" /\ link' = "connecting"
  /\ UNCHANGED <<config, timeVars, anchorVars, task, timer, reply, secs, faults>>

\* wait_for_disconnect returns: the loop connects again at once.
Disconnect ==
  /\ link = "connected" /\ Fault
  /\ link' = "connecting" /\ config' = FALSE
  /\ UNCHANGED <<timeVars, anchorVars, task, timer, reply, secs>>

Configure ==
  /\ link = "connected" /\ ~config /\ config' = TRUE
  /\ UNCHANGED <<link, timeVars, anchorVars, task, timer, reply, secs, faults>>

-----------------------------------------------------------------------------
(* clock_loop. *)

\* wait_config_up, once.
ConfigUp ==
  /\ task = "wait" /\ config
  /\ task' = "resolve"
  /\ UNCHANGED <<linkVars, timeVars, anchorVars, timer, reply, secs, faults>>

\* sync_once up to its send_to: the server's name, a fresh socket, the request.
Ask ==
  /\ task = "resolve" /\ config
  /\ task' = "exchange" /\ timer' = 0 /\ reply' = "asked"
  /\ UNCHANGED <<linkVars, timeVars, anchorVars, secs, faults>>

\* sync_once has failed, and its socket is dropped with what it might receive.
Failed ==
  /\ task' = "backoff" /\ timer' = 0 /\ reply' = "none" /\ secs' = 0
  /\ UNCHANGED <<linkVars, timeVars, anchorVars>>

\* Without an address, or by a fault: no lookup, bind or send.
AskFails ==
  /\ task = "resolve"
  /\ IF config THEN Fault ELSE UNCHANGED faults
  /\ Failed

\* Mutant of Answered: the anchor is taken to the uptime of the request.
AnsweredAnchorsRequest ==
  /\ task = "exchange" /\ reply = "sent" /\ secs # 0 /\ secs >= Offset
  /\ anchor' = secs - Offset - (uptime - timer) /\ synced' = TRUE
  /\ gap' = now - uptime
  /\ task' = "synced" /\ timer' = 0 /\ reply' = "none" /\ secs' = 0
  /\ UNCHANGED <<linkVars, timeVars, faults>>

\* Mutant of Answered: the task returns after the first sync.
AnsweredOnce ==
  /\ task = "exchange" /\ reply = "sent" /\ secs # 0 /\ secs >= Offset
  /\ anchor' = secs - Offset - uptime /\ synced' = TRUE
  /\ gap' = now - uptime
  /\ task' = "ended" /\ timer' = 0 /\ reply' = "none" /\ secs' = 0
  /\ UNCHANGED <<linkVars, timeVars, faults>>

\* A timestamp after the Unix epoch: anchor it, and serve it from now on.
Answered ==
  /\ task = "exchange" /\ reply = "sent" /\ secs # 0 /\ secs >= Offset
  /\ anchor' = secs - Offset - uptime /\ synced' = TRUE
  /\ gap' = now - uptime
  /\ task' = "synced" /\ timer' = 0 /\ reply' = "none" /\ secs' = 0
  /\ UNCHANGED <<linkVars, timeVars, faults>>

\* A short packet, a zero timestamp, or one before the Unix epoch.
Rejected ==
  /\ task = "exchange"
  /\ \/ reply = "bad"
     \/ reply = "sent" /\ (secs = 0 \/ secs < Offset)
  /\ UNCHANGED faults
  /\ Failed

\* with_timeout elapses: the reply was lost or is late.
TimesOut ==
  /\ task = "exchange" /\ timer >= Timeout
  /\ IF reply = "lost" THEN UNCHANGED faults ELSE Fault
  /\ Failed

Delay == IF task = "synced" THEN Resync ELSE RetryDelay

\* The Timer between two attempts is over.
NextAttempt ==
  /\ task \in {"synced", "backoff"} /\ timer >= Delay
  /\ task' = "resolve" /\ timer' = 0
  /\ UNCHANGED <<linkVars, timeVars, anchorVars, reply, secs, faults>>

-----------------------------------------------------------------------------
(* The server, the network, and time. *)

ServerAnswers ==
  /\ reply = "asked" /\ config
  /\ reply' = "sent" /\ secs' = now % Wrap
  /\ UNCHANGED <<linkVars, timeVars, anchorVars, task, timer, faults>>

\* The request or the reply is lost, or the server sends no time.
NetworkFails ==
  /\ reply \in {"asked", "sent"}
  /\ reply' \in {"lost", "bad"} /\ secs' = 0
  /\ IF config THEN Fault ELSE UNCHANGED faults
  /\ UNCHANGED <<linkVars, timeVars, anchorVars, task, timer>>

\* d seconds on the oscillator while one second goes by.
Pass(d) ==
  IF now < horizon
  THEN /\ now' = now + 1 /\ uptime' = uptime + d /\ UNCHANGED horizon
       /\ drift' = drift + (IF d = 1 THEN 0 ELSE 1)
  ELSE UNCHANGED timeVars

\* A timer that is due is served before time goes on.
Tick ==
  /\ task = "exchange" => timer < Timeout
  /\ task \in {"synced", "backoff"} => timer < Delay
  /\ \E d \in 0..2 :
       /\ d # 1 => task \in {"synced", "backoff"} /\ drift < MaxDrift
       /\ Pass(d)
       /\ timer' = IF task \in {"exchange", "synced", "backoff"}
                   THEN timer + d ELSE timer
  /\ UNCHANGED <<linkVars, anchorVars, task, reply, secs, faults>>

-----------------------------------------------------------------------------

SyncStep ==
  ConfigUp \/ Ask \/ AskFails \/ Answered \/ Rejected \/ TimesOut \/ NextAttempt

StationStep == Connect \/ Reconnect \/ Disconnect \/ Configure

OutsideStep == ServerAnswers \/ NetworkFails \/ Tick

ClockNext == SyncStep \/ StationStep \/ OutsideStep

ClockSpec == ClockInit /\ [][ClockNext]_clockVars

\* Woken tasks are polled, time passes, the server answers; a station that may
\* connect does so or fails, and its failures are bounded.
ClockFairSpec ==
  /\ ClockSpec
  /\ WF_clockVars(SyncStep) /\ WF_clockVars(Connect) /\ WF_clockVars(Reconnect)
  /\ WF_clockVars(Configure) /\ WF_clockVars(ServerAnswers) /\ WF_clockVars(Tick)

-----------------------------------------------------------------------------
(* Properties. *)

\* sntp_now, in seconds from the Unix epoch.
Reading == IF anchor + uptime > 0 THEN anchor + uptime ELSE 0

\* How far the wall clock is behind, beyond what the oscillator has lost (or,
\* when negative, gained) since the anchor was stored.
Behind == now - Offset - Reading - (now - uptime - gap)

ClockTypeOK ==
  /\ horizon \in Horizons /\ now \in Boot..horizon /\ uptime \in Nat /\ drift \in 0..MaxDrift
  /\ link \in {"connecting", "backoff", "connected"} /\ config \in BOOLEAN
  /\ task \in {"wait", "resolve", "exchange", "synced", "backoff"}
  /\ timer \in Nat
  /\ reply \in {"none", "asked", "sent", "bad", "lost"} /\ secs \in 0..(Wrap - 1)
  /\ anchor \in Int /\ synced \in BOOLEAN /\ gap \in Int
  /\ faults \in 0..MaxFaults

\* A wall clock that has been set is at most the time of one exchange behind
\* and never ahead, apart from the oscillator's error since the last sync: a
\* resync therefore turns it back by no more than that, and neither an answer
\* that came late nor the rollover of 2036 ever moves it.
ClockAccurate ==
  synced => Behind \in 0..Timeout

\* As long as the packet can tell the time, the clock is set again and again,
\* whatever went wrong in between.
Resynced == horizon < Wrap => []<>(task = "synced")
=============================================================================

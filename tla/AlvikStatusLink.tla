--------------------------- MODULE AlvikStatusLink ---------------------------
(***************************************************************************)
(* The status half of the Alvik link: the driver folds continuous sensor   *)
(* messages into one snapshot and publishes it on the latest-wins signal   *)
(* ALVIK_STATE, and queues discrete messages on the bounded ALVIK_EVENTS   *)
(* (src/src/alvik/driver.rs); every frame apply_status writes both into    *)
(* components (src/src/alvik/systems.rs) and detect_events compares the    *)
(* touch and motion bitmasks with the previous frame's                     *)
(* (src/src/alvik/events.rs).                                              *)
(*                                                                         *)
(* PreUpdate runs apply_status then detect_events without interruption, so *)
(* both are one action.  The driver runs between frames.                   *)
(*                                                                         *)
(* Abstractions: a continuous message is the set of snapshot fields it     *)
(* overwrites and their new value; a bitmask is the set of its bits.       *)
(* Behavior codes and acknowledgements fire no event and are left out.     *)
(***************************************************************************)
EXTENDS Naturals, Sequences, FiniteSets, FiniteSetsExt

CONSTANTS
  Messages,    \* continuous messages, each the set of snapshot fields it sets
  Readings,    \* the readings a field can have
  Zero,        \* the default reading of snapshot and components
  TouchBits, MotionBits,
  Upright,     \* MOTION_TILT_NEG_Z, set while the robot stands level
  LiftBit,     \* MOTION_LIFT
  EventDepth,  \* capacity of ALVIK_EVENTS (32)
  NoSnapshot   \* the signal ALVIK_STATE holds nothing

Fields == UNION Messages
Snapshot == [Fields -> Readings]

\* The measured velocity has no component: those of the robot hold the commanded one.
Components == Fields \ {"velocity"}
Shown(s) == [f \in Components |-> s[f]]

Kinds == {"touch", "motion"}
Bits(k) == IF k = "touch" THEN TouchBits ELSE MotionBits
Masks == {m \in [Kinds -> SUBSET (TouchBits \cup MotionBits)] :
            \A k \in Kinds : m[k] \subseteq Bits(k)}
Discrete == [kind : {"touch"}, bits : SUBSET TouchBits] \cup
            [kind : {"motion"}, bits : SUBSET MotionBits] \cup
            [kind : {"fw"}]

ASSUME StatusAssumption ==
  /\ Zero \in Readings
  /\ Upright \in MotionBits /\ LiftBit \in MotionBits \ {Upright}
  /\ NoSnapshot \notin Snapshot
  /\ EventDepth \in Nat \ {0}

VARIABLES
  phase,      \* "bring_up" or "pump"
  fw,         \* bring_up has received a firmware version
  snapshot,   \* the driver's StatusSnapshot
  latest,     \* ALVIK_STATE: a pending snapshot or NoSnapshot
  events,     \* ALVIK_EVENTS
  sensors,    \* the continuous sensor components, one per snapshot field but one
  masks,      \* TouchValue and MotionValue
  connected,  \* Connected
  prev,       \* the Local<EdgeState> of detect_events
  fired,      \* the events the last frame triggered
  heard,      \* history: the last bitmask the pump decoded, per kind
  missed,     \* history: kinds whose last message found the queue full
  lifts       \* history: Lifted events minus Dropped events so far

statusVars == <<phase, fw, snapshot, latest, events, sensors, masks, connected,
                prev, fired, heard, missed, lifts>>
frameVars == <<sensors, masks, connected, prev, fired, lifts>>

StatusInit ==
  /\ phase = "bring_up" /\ fw = FALSE
  /\ snapshot = [f \in Fields |-> Zero] /\ latest = NoSnapshot
  /\ events = <<>>
  /\ sensors = [f \in Components |-> Zero]
  /\ masks = [k \in Kinds |-> {}] /\ connected = FALSE
  /\ prev = [k \in Kinds |-> IF k = "motion" THEN {Upright} ELSE {}]
  /\ fired = {}
  /\ heard = [k \in Kinds |-> {}] /\ missed = {} /\ lifts = 0

-----------------------------------------------------------------------------
(* The driver. *)

\* ALVIK_EVENTS.send: a full queue refuses the newest message.
Enqueue(m) ==
  IF Len(events) < EventDepth
  THEN events' = Append(events, m) /\ missed' = missed \ {m.kind}
  ELSE events' = events /\ missed' = missed \cup ({m.kind} \cap Kinds)

\* During bring-up only the ack and the firmware version are looked at; every
\* other status is decoded and dropped.
HearFirmware ==
  /\ phase = "bring_up"
  /\ fw' = TRUE
  /\ UNCHANGED <<phase, snapshot, latest, events, heard, missed, frameVars>>

\* The handshake is complete or its 5 s are over; a known version is announced.
AnnounceFirmware ==
  /\ phase = "bring_up"
  /\ phase' = "pump"
  /\ IF fw THEN Enqueue([kind |-> "fw"]) ELSE UNCHANGED <<events, missed>>
  /\ UNCHANGED <<fw, snapshot, latest, heard, frameVars>>

\* Mutant of Continuous: a message publishes only its own fields.
ContinuousFresh(m, r) ==
  /\ phase = "pump"
  /\ snapshot' = [f \in Fields |-> IF f \in m THEN r ELSE snapshot[f]]
  /\ latest' = [f \in Fields |-> IF f \in m THEN r ELSE Zero]
  /\ UNCHANGED <<phase, fw, events, heard, missed, frameVars>>

\* StatusSnapshot::apply of a continuous message, then ALVIK_STATE.send.
Continuous(m, r) ==
  /\ phase = "pump"
  /\ snapshot' = [f \in Fields |-> IF f \in m THEN r ELSE snapshot[f]]
  /\ latest' = snapshot'
  /\ UNCHANGED <<phase, fw, events, heard, missed, frameVars>>

\* A touch or motion message.
BitMessage(k, bits) ==
  /\ phase = "pump"
  /\ heard' = [heard EXCEPT ![k] = bits]
  /\ Enqueue([kind |-> k, bits |-> bits])
  /\ UNCHANGED <<phase, fw, snapshot, latest, frameVars>>

\* A firmware version sent again while pumping.
FirmwareMessage ==
  /\ phase = "pump"
  /\ Enqueue([kind |-> "fw"])
  /\ UNCHANGED <<phase, fw, snapshot, latest, heard, frameVars>>

-----------------------------------------------------------------------------
(* The PreUpdate systems. *)

Rising(k, old, new) == new[k] \ old[k]
Falling(k, old, new) == old[k] \ new[k]

\* The places of the queued events of kind k.
Queued(k) == {i \in DOMAIN events : events[i].kind = k}

\* Mutant of Drained: draining stops after the first event of a kind.
DrainedFirst(k) == IF Queued(k) = {} THEN masks[k] ELSE events[Min(Queued(k))].bits

\* The drained events in arrival order: the last bitmask of a kind wins.
Drained(k) == IF Queued(k) = {} THEN masks[k] ELSE events[Max(Queued(k))].bits

Edges(old, new) ==
  {<<"TouchPressed", b>> : b \in Rising("touch", old, new)} \cup
  {<<"Motion", b>> : b \in Rising("motion", old, new)} \cup
  {<<"Dropped", b>> : b \in Falling("motion", old, new) \cap {LiftBit}}

\* apply_status: the pending snapshot, then every queued event.
ApplyStatus ==
  /\ sensors' = IF latest # NoSnapshot THEN Shown(latest) ELSE sensors
  /\ latest' = NoSnapshot
  /\ masks' = [k \in Kinds |-> Drained(k)]
  /\ connected' = (connected \/ latest # NoSnapshot \/
                    \E i \in DOMAIN events : events[i].kind = "fw")
  /\ events' = <<>>

NetLift(e) ==
  lifts + Cardinality(e \cap {<<"Motion", LiftBit>>})
        - Cardinality(e \cap {<<"Dropped", LiftBit>>})

\* Mutant of DetectEvents: the previous touch mask is stored, not the motion one.
DetectKeepsMotion ==
  /\ fired' = Edges(prev, masks')
  /\ prev' = [prev EXCEPT !["touch"] = masks'["touch"]]
  /\ lifts' = IF <<"Motion", LiftBit>> \in fired' THEN lifts + 1 ELSE lifts

\* detect_events on the masks apply_status just wrote.
DetectEvents ==
  /\ fired' = Edges(prev, masks')
  /\ prev' = masks'
  /\ lifts' = NetLift(fired')

PreUpdate ==
  /\ ApplyStatus
  /\ DetectEvents
  /\ UNCHANGED <<phase, fw, snapshot, heard, missed>>

-----------------------------------------------------------------------------

StatusNext ==
  \/ HearFirmware
  \/ AnnounceFirmware
  \/ \E m \in Messages, r \in Readings : Continuous(m, r)
  \/ \E k \in Kinds : \E b \in SUBSET Bits(k) : BitMessage(k, b)
  \/ FirmwareMessage
  \/ PreUpdate

StatusSpec == StatusInit /\ [][StatusNext]_statusVars

-----------------------------------------------------------------------------
(* Properties. *)

\* Types, and the bound of ALVIK_EVENTS.
StatusTypeOK ==
  /\ phase \in {"bring_up", "pump"} /\ fw \in BOOLEAN
  /\ snapshot \in Snapshot /\ latest \in Snapshot \cup {NoSnapshot}
  /\ events \in Seq(Discrete) /\ Len(events) <= EventDepth
  /\ sensors \in [Components -> Readings] /\ masks \in Masks /\ prev \in Masks /\ heard \in Masks
  /\ connected \in BOOLEAN
  /\ missed \subseteq Kinds

\* Coalescing loses no reading: the signal keeps only the newest snapshot, yet
\* every field's last reading is either pending in it or already applied to its
\* component.
NothingCoalescedAway ==
  IF latest # NoSnapshot THEN latest = snapshot ELSE sensors = Shown(snapshot)

\* The two together.
StatusInv == StatusTypeOK /\ NothingCoalescedAway

\* The touch and motion components follow the robot: with nothing queued, the
\* component holds the last mask the pump decoded unless a full queue refused it.
MasksFollow ==
  \A k \in Kinds : k \notin missed => Drained(k) = heard[k]

\* The application sees lifts and drops alternate, starting with a lift, and an
\* event's state matches the mask of the frame it came from.
LiftsAlternate == lifts = Cardinality(masks["motion"] \cap {LiftBit})
=============================================================================

-------------------------- MODULE AlvikCommandLink --------------------------
(***************************************************************************)
(* The command half of the Alvik link: the ECS components an application   *)
(* writes, the four PostUpdate systems that turn changed components into   *)
(* commands (src/src/alvik/systems.rs), the bounded drop-newest queue      *)
(* ALVIK_OUT (src/src/alvik/driver.rs, src/src/esp32_utils/async_bridge.rs)*)
(* and the driver task that brings the STM32 up and then writes commands   *)
(* to the UART one at a time.  The error flag of src/src/scene.rs and the  *)
(* ResetScene observers are the writers the safety argument is about.      *)
(*                                                                         *)
(* Interleaving: the schedule runs inside one call of app.update(), which  *)
(* no embassy task preempts, so the driver moves only while frame = "idle";*)
(* an await of the driver lets whole frames run.                           *)
(*                                                                         *)
(* Abstractions: a slot is one thing a command sets (a wheel target, the   *)
(* drive velocity, the servo pair, the LED byte), a value is what it is    *)
(* set to.  The two SetBehavior commands of the bring-up have no component *)
(* and are left out; the STM32 is the last command it got for every slot.  *)
(***************************************************************************)
EXTENDS Naturals, Sequences

CONSTANTS
  Slots,    \* the slots of this instance, a subset of AllSlots
  Values,   \* the settings a slot can have
  Rest,     \* motion stopped
  Blackened,\* what is left of each setting of the LEDs when the RGB LEDs go black
  None,     \* no value
  Depth,    \* capacity of ALVIK_OUT (16 in the code)
  InitSeq,  \* the commands bring_up writes straight to the wire
  TxFails   \* whether a UART write may fail (the code only logs it)

AllSlots == {"left", "right", "drive", "servos", "leds"}

\* Slots flushed when bevy's change detection fires, and slots flushed when the
\* value differs from the system's own memory of the last one.
Motion == Slots \cap {"left", "right", "drive"}
Diffed == Slots \ Motion

Command == [slot : Slots, val : Values]

ASSUME LinkAssumption ==
  /\ Slots \subseteq AllSlots
  /\ Rest \in Values /\ Blackened \in [Values -> Values]
  /\ None \notin Values /\ None \notin Command
  /\ Depth \in Nat \ {0}
  /\ InitSeq \in Seq(Command)
  /\ TxFails \in BOOLEAN

VARIABLES
  frame,    \* where the schedule is: "idle" between two app.update() calls
  todo,     \* in "post": the slots whose flush has not run in this frame
  comp,     \* the value of each slot's component
  changed,  \* Motion slots written since their flush system last ran
  last,     \* Local<Option<..>> of flush_servos and flush_alvik_leds
  errored,  \* the flag ERRORED
  queue,    \* ALVIK_OUT
  drv,      \* where the driver task is
  initTodo, \* bring-up commands not yet written
  writing,  \* the command whose UART write is in progress
  robot,    \* the last command the STM32 received, per slot
  lost      \* history: slots whose newest command was dropped

vars == <<frame, todo, comp, changed, last, errored, queue, drv, initTodo,
          writing, robot, lost>>
ecsVars == <<frame, todo, comp, changed, last, errored>>
drvVars == <<drv, initTodo, writing, robot>>

Init ==
  /\ frame = "idle" /\ todo = {}
  /\ comp \in [Slots -> Values]
  /\ changed = Motion             \* a spawned component counts as changed
  /\ last = [s \in Diffed |-> None]
  /\ errored = FALSE
  /\ queue = <<>>
  /\ drv = "unpowered" /\ initTodo = InitSeq /\ writing = None
  /\ robot = [s \in Slots |-> None]
  /\ lost = {}

-----------------------------------------------------------------------------
(* The schedule. *)

BeginFrame ==
  /\ frame = "idle"
  /\ frame' = "update"
  /\ UNCHANGED <<todo, comp, changed, last, errored, queue, lost, drvVars>>

Updating == frame \in {"update", "late"}

\* Mutant of AppWrite: the component is written behind bevy's change detection.
AppWriteUndetected(s, v) ==
  /\ Updating
  /\ comp' = [comp EXCEPT ![s] = v]
  /\ UNCHANGED <<frame, todo, changed, last, errored, queue, lost, drvVars>>

\* A route handler, a behaviour leaf or a script writes a component.
AppWrite(s, v) ==
  /\ Updating
  /\ comp' = [comp EXCEPT ![s] = v]
  /\ changed' = changed \cup ({s} \cap Motion)
  /\ UNCHANGED <<frame, todo, last, errored, queue, lost, drvVars>>

\* reset_on_unhandled_error, called by bevy inside app.update().
RaiseError ==
  /\ frame # "idle"
  /\ errored' = TRUE
  /\ UNCHANGED <<frame, todo, comp, changed, last, queue, lost, drvVars>>

\* The ResetScene observers reset_robot and reset_leds.  The servos keep their place,
\* and of the LED byte the illuminator and the built-in LED stay as they are.
ResetScene ==
  /\ comp' = [s \in Slots |-> IF s \in Motion THEN Rest
                             ELSE IF s = "leds" THEN Blackened[comp[s]] ELSE comp[s]]
  /\ changed' = Motion

\* Mutant of TriggerResetOnError: the flag is cleared and then tested.
ClearThenTest ==
  /\ frame = "update"
  /\ frame' = "late"
  /\ errored' = FALSE
  /\ UNCHANGED <<todo, comp, changed, last, queue, lost, drvVars>>

\* trigger_reset_on_error runs once in every Update.
TriggerResetOnError ==
  /\ frame = "update"
  /\ frame' = "late"
  /\ IF errored THEN ResetScene ELSE UNCHANGED <<comp, changed>>
  /\ errored' = FALSE
  /\ UNCHANGED <<todo, last, queue, lost, drvVars>>

\* A handler or a closed agent socket triggers the same reset.
AppReset ==
  /\ Updating
  /\ ResetScene
  /\ UNCHANGED <<frame, todo, last, errored, queue, lost, drvVars>>

BeginPostUpdate ==
  /\ frame = "late"
  /\ frame' = "post" /\ todo' = Slots
  /\ UNCHANGED <<comp, changed, last, errored, queue, lost, drvVars>>

\* Mutant of Send: the capacity test is off by one.
SendOffByOne(c) ==
  IF Len(queue) <= Depth
  THEN queue' = Append(queue, c) /\ lost' = lost \ {c.slot}
  ELSE queue' = queue /\ lost' = lost \cup {c.slot}

\* Queue::send: a full queue refuses the newest item, and every flush system
\* discards that error.
Send(c) ==
  IF Len(queue) < Depth
  THEN queue' = Append(queue, c) /\ lost' = lost \ {c.slot}
  ELSE queue' = queue /\ lost' = lost \cup {c.slot}

Dirty(s) == IF s \in Motion THEN s \in changed ELSE last[s] # comp[s]

\* flush_wheels visits both wheels before another system runs.
WheelsTodo == todo \cap {"left", "right"}
MidWheels == WheelsTodo # {} /\ WheelsTodo # Slots \cap {"left", "right"}

\* One flush system (one wheel of flush_wheels); the systems run in any order.
Flush(s) ==
  /\ frame = "post" /\ s \in todo
  /\ MidWheels => s \in WheelsTodo
  /\ todo' = todo \ {s}
  /\ IF Dirty(s)
     THEN Send([slot |-> s, val |-> comp[s]])
     ELSE UNCHANGED <<queue, lost>>
  /\ changed' = changed \ {s}
  /\ last' = [t \in Diffed |-> IF t = s THEN comp[s] ELSE last[t]]
  /\ UNCHANGED <<frame, comp, errored, drvVars>>

EndFrame ==
  /\ frame = "post" /\ todo = {}
  /\ frame' = "idle"
  /\ UNCHANGED <<todo, comp, changed, last, errored, queue, lost, drvVars>>

-----------------------------------------------------------------------------
(* The driver task: AlvikDriver::run.  Robot power is the user's switch. *)

PowerOn ==
  /\ frame = "idle" /\ drv = "unpowered"
  /\ drv' = "handshake"
  /\ UNCHANGED <<ecsVars, queue, lost, initTodo, writing, robot>>

\* Ack and firmware version arrived, or the 5 s deadline passed: both go on.
HandshakeDone ==
  /\ frame = "idle" /\ drv = "handshake"
  /\ drv' = "init"
  /\ UNCHANGED <<ecsVars, queue, lost, initTodo, writing, robot>>

WriteInit ==
  /\ frame = "idle" /\ drv = "init" /\ initTodo # <<>>
  /\ initTodo' = Tail(initTodo)
  /\ \/ robot' = [robot EXCEPT ![Head(initTodo).slot] = Head(initTodo).val]
     \/ TxFails /\ UNCHANGED robot
  /\ UNCHANGED <<ecsVars, queue, lost, drv, writing>>

BringUpDone ==
  /\ frame = "idle" /\ drv = "init" /\ initTodo = <<>>
  /\ drv' = "pump"
  /\ UNCHANGED <<ecsVars, queue, lost, initTodo, writing, robot>>

\* Mutant of Dequeue: the pump starts while bring-up is still writing.
DequeueDuringBringUp ==
  /\ frame = "idle" /\ drv \in {"init", "pump"} /\ writing = None
  /\ queue # <<>>
  /\ writing' = Head(queue) /\ queue' = Tail(queue)
  /\ UNCHANGED <<ecsVars, lost, drv, initTodo, robot>>

\* ALVIK_OUT.recv() frees the queue's slot before the UART write is awaited.
Dequeue ==
  /\ frame = "idle" /\ drv = "pump" /\ writing = None
  /\ queue # <<>>
  /\ writing' = Head(queue) /\ queue' = Tail(queue)
  /\ UNCHANGED <<ecsVars, lost, drv, initTodo, robot>>

Written ==
  /\ frame = "idle" /\ writing # None
  /\ writing' = None
  /\ robot' = [robot EXCEPT ![writing.slot] = writing.val]
  /\ UNCHANGED <<ecsVars, queue, lost, drv, initTodo>>

\* A failed UART write is logged and forgotten: the command was the slot's
\* newest one unless another is queued behind it.
WriteFails ==
  /\ TxFails
  /\ frame = "idle" /\ writing # None
  /\ writing' = None
  /\ lost' = IF \E i \in 1..Len(queue) : queue[i].slot = writing.slot
             THEN lost ELSE lost \cup {writing.slot}
  /\ UNCHANGED <<ecsVars, queue, drv, initTodo, robot>>

-----------------------------------------------------------------------------

FrameStep ==
  \/ BeginFrame
  \/ TriggerResetOnError
  \/ BeginPostUpdate
  \/ \E s \in Slots : Flush(s)
  \/ EndFrame

App ==
  \/ \E s \in Slots, v \in Values : AppWrite(s, v)
  \/ AppReset
  \/ RaiseError

Driver ==
  \/ HandshakeDone
  \/ WriteInit
  \/ BringUpDone
  \/ Dequeue
  \/ Written
  \/ WriteFails

Next == FrameStep \/ App \/ PowerOn \/ Driver

Spec == Init /\ [][Next]_vars

\* esp_runner ticks frames forever, so the schedule is weakly fair.  After each
\* frame it awaits a timer, and the executor polls every woken task before the
\* next one: a driver step that is enabled between frames is not put off for
\* ever, although every frame disables it (strong fairness).
FairSpec == Spec /\ WF_vars(FrameStep) /\ SF_vars(Driver)

-----------------------------------------------------------------------------
(* Properties. *)

\* Every variable has its type, and ALVIK_OUT never exceeds its capacity.
TypeOK ==
  /\ frame \in {"idle", "update", "late", "post"}
  /\ todo \subseteq Slots
  /\ comp \in [Slots -> Values]
  /\ changed \subseteq Motion
  /\ last \in [Diffed -> Values \cup {None}]
  /\ errored \in BOOLEAN
  /\ queue \in Seq(Command) /\ Len(queue) <= Depth
  /\ drv \in {"unpowered", "handshake", "init", "pump"}
  /\ initTodo \in Seq(Command)
  /\ writing \in Command \cup {None}
  /\ robot \in [Slots -> Values \cup {None}]
  /\ lost \subseteq Slots

NoneQueued(s) == \A i \in 1..Len(queue) : queue[i].slot # s
LastQueued(s, i) ==
  /\ queue[i].slot = s
  /\ \A j \in i+1 .. Len(queue) : queue[j].slot # s

\* The STM32 will end up with v in slot s once the driver has drained the queue.
WillSettleAt(s, v) ==
  /\ \A i \in 1..Len(queue) : LastQueued(s, i) => queue[i].val = v
  /\ NoneQueued(s) =>
       IF writing # None /\ writing.slot = s
       THEN writing.val = v
       ELSE drv = "pump" /\ robot[s] = v

\* Component, change flag, queue, write in progress and robot agree: if nothing
\* is waiting to be flushed for a slot and its newest command was not dropped,
\* then draining the queue leaves the robot at the component's value.  Bring-up
\* writes (illuminator, centred servos) never override a queued command, and an
\* older command never overtakes a newer one.
InSync ==
  \A s \in Slots : ~Dirty(s) /\ s \notin lost => WillSettleAt(s, comp[s])

\* Wheels and drive commanded to stop.
AtRest(f) == \A s \in Motion : f[s] = Rest

\* An unhandled error always brings the commanded motion to rest
\* (trigger_reset_on_error consumes the flag in a later Update).
ErrorResets == errored ~> AtRest(comp)

\* Once the robot is switched on, every component value reaches it, unless the
\* application replaces it, the queue dropped its command or UART writes keep
\* failing for ever.
Converges ==
  <>[][~WriteFails]_vars =>
    \A s \in Slots, v \in Values :
      drv # "unpowered" /\ comp[s] = v
        ~> (robot[s] = v \/ comp[s] # v \/ s \in lost)

\* What src/src/alvik/scenes.rs:48 and src/src/scene.rs:106 say of ResetScene:
\* the motors and wheels stop.  Once the commanded motion is at rest the powered
\* robot comes to rest, unless something commands motion again.
ResetStopsRobot ==
  drv # "unpowered" /\ AtRest(comp) ~> (AtRest(robot) \/ ~AtRest(comp))
=============================================================================

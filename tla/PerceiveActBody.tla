---------------------------- MODULE PerceiveActBody ----------------------------
(***************************************************************************)
(* The bounded drive commands of the perceive-act body                     *)
(* (src/src/extra/perceive_act_body.rs): the drive handler writes the      *)
(* robot's DifferentialDrive at one await and inserts a DriveStep with the *)
(* command's duration at the next; every frame expire_drive_step counts    *)
(* the step down and zeroes the drive when it is over.  The RC route       *)
(* (src/src/alvik/routes.rs), script steps (SceneScripts) and ResetScene   *)
(* (src/src/alvik/scenes.rs) write the same drive and leave the DriveStep  *)
(* alone.                                                                  *)
(*                                                                         *)
(* The firmware spawns its one robot at Startup (setup, src/src/main.rs),  *)
(* and a pushed scene replaces only the scene under the server's router,   *)
(* so the entity the first await returns is there for the second one.      *)
(*                                                                         *)
(* Interleaving: an await of the world is served at a sync point of some   *)
(* later frame (src/src/net/http_server.rs:111), so frames and other       *)
(* handlers run between the two awaits.  Time is counted in frames.        *)
(***************************************************************************)
EXTENDS Naturals

CONSTANTS
  Requests,     \* drive requests, each sent once
  MaxDuration,  \* durations are 0 .. MaxDuration frames
  Others,       \* velocities set by the RC route or by a script step
  Stopped,      \* the drive at rest
  None

ASSUME BodyAssumption ==
  /\ MaxDuration \in Nat \ {0}
  /\ Stopped \notin Requests \cup Others /\ Requests \cap Others = {}
  /\ None \notin Nat

VARIABLES
  up,      \* the AlvikRobot has been spawned
  drive,   \* its DifferentialDrive: Stopped, or whoever set it
  step,    \* frames left in its DriveStep, or None
  pc,      \* where the handler of each request is
  dur,     \* the duration each request asked for
  alone,   \* history: requests written when no other was under way
  ran      \* history: frames the drive of each request has been in force

vars == <<up, drive, step, pc, dur, alone, ran>>

Durations == 0..MaxDuration

Init ==
  /\ up = FALSE /\ drive = Stopped /\ step = None
  /\ pc = [r \in Requests |-> "new"]
  /\ dur \in [Requests -> Durations]
  /\ alone = {} /\ ran = [r \in Requests |-> 0]

\* setup, at Startup: the robot is spawned at rest.
SpawnRobot ==
  /\ ~up /\ up' = TRUE
  /\ UNCHANGED <<drive, step, pc, dur, alone, ran>>

\* The handler's first await: write the velocity, or find no robot and reply.
WriteDrive(r) ==
  /\ pc[r] = "new"
  /\ IF up
     THEN pc' = [pc EXCEPT ![r] = "stamp"] /\ drive' = r
     ELSE pc' = [pc EXCEPT ![r] = "replied"] /\ UNCHANGED drive
  /\ alone' = IF step = None /\ \A q \in Requests : pc[q] # "stamp"
              THEN alone \cup {r} ELSE alone
  /\ UNCHANGED <<up, step, dur, ran>>

\* Mutant of StampStep: the step is half as long as the command asked for.
StampShort(r) ==
  /\ pc[r] = "stamp"
  /\ pc' = [pc EXCEPT ![r] = "replied"]
  /\ step' = dur[r] \div 2
  /\ UNCHANGED <<up, drive, dur, alone, ran>>

\* The second await: insert the DriveStep, replacing one that is counting down;
\* then reply with the SettleTime.
StampStep(r) ==
  /\ pc[r] = "stamp"
  /\ pc' = [pc EXCEPT ![r] = "replied"]
  /\ step' = dur[r]
  /\ UNCHANGED <<up, drive, dur, alone, ran>>

\* The RC route, or a script's output: a velocity, or "stop".
OtherDrive ==
  /\ up
  /\ drive' \in Others \cup {Stopped}
  /\ UNCHANGED <<up, step, pc, dur, alone, ran>>

\* ResetScene, from an error, a disconnect or a script: the DriveStep stays.
Reset ==
  /\ up
  /\ drive' = Stopped
  /\ UNCHANGED <<up, step, pc, dur, alone, ran>>

Aged ==
  [r \in Requests |->
     IF drive = r /\ ran[r] < MaxDuration THEN ran[r] + 1 ELSE ran[r]]

\* Mutant of Frame: the finished step is removed but the drive is left running.
FrameForgetsDrive ==
  /\ ran' = Aged
  /\ step' = IF step \in {None, 0, 1} THEN None ELSE step - 1
  /\ UNCHANGED <<drive, up, pc, dur, alone>>

\* expire_drive_step in one Update.  The removal of the step is queued in Commands;
\* it is applied at a sync point of the same run of the schedule, and the handlers'
\* awaits get a window of their own, so nothing modelled here sees the step between.
Frame ==
  /\ ran' = Aged
  /\ IF step \in {0, 1}
     THEN drive' = Stopped /\ step' = None
     ELSE /\ step' = IF step = None THEN None ELSE step - 1
          /\ UNCHANGED drive
  /\ UNCHANGED <<up, pc, dur, alone>>

Next ==
  \/ SpawnRobot
  \/ \E r \in Requests : WriteDrive(r) \/ StampStep(r)
  \/ OtherDrive
  \/ Reset
  \/ Frame

Spec == Init /\ [][Next]_vars

-----------------------------------------------------------------------------
(* Properties. *)

\* Types; a step never has more than the longest duration left.
TypeOK ==
  /\ up \in BOOLEAN
  /\ drive \in Requests \cup Others \cup {Stopped}
  /\ step \in Durations \cup {None}
  /\ pc \in [Requests -> {"new", "stamp", "replied"}]
  /\ dur \in [Requests -> Durations]
  /\ alone \subseteq Requests
  /\ ran \in [Requests -> 0..MaxDuration]

\* Once the handler has replied, a velocity it set is never without a step that
\* will end it, whatever resets and other writers came in between.
ArmedWhileDriving ==
  \A r \in Requests : drive = r /\ pc[r] = "replied" => step # None

\* A step that ends a command's velocity has let it run for the whole duration
\* the command asked for, if no other command was under way when it began: a
\* step still counting down for the previous command may expire between the two
\* awaits and end the new velocity early.
OwnDuration ==
  [][\A r \in alone :
       Frame /\ drive = r /\ drive' = Stopped => ran'[r] >= dur[r]]_vars
=============================================================================

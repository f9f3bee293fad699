--------------------------- MODULE SceneScriptsProofs ---------------------------
(***************************************************************************)
(* What the run body checks, for any requests, durations, scenes and       *)
(* scripts.  First the drive commands alone (PerceiveActBody), under any   *)
(* other writers of the drive; then the scene and its scripts, whose every *)
(* step is a step of PerceiveActBody or leaves the drive alone, so that    *)
(* the commands keep what was proved of them.                              *)
(***************************************************************************)
EXTENDS SceneScripts, TLAPS

-----------------------------------------------------------------------------
(* The drive commands. *)

\* A velocity is in force, and a command is noted as alone, only after its handler
\* has written it.
WrittenFirst == \A r \in Requests : drive = r \/ r \in alone => pc[r] # "new"

\* While the velocity of a command that began alone is in force, no other command
\* is under way, no step is there before its own, and what is left of its own
\* makes up the duration.
OwnStep ==
  \A r \in alone : drive = r =>
    /\ \A q \in Requests : q # r => pc[q] # "stamp"
    /\ pc[r] = "stamp" => step = None
    /\ step # None => ran[r] + step >= dur[r]

\* The inductive invariant of PerceiveActBody.
BodyInv == TypeOK /\ WrittenFirst /\ ArmedWhileDriving /\ OwnStep

LEMMA BodyInit == Init => BodyInv
<1> SUFFICES ASSUME Init PROVE BodyInv
  OBVIOUS
<1>1. TypeOK
  <2>1. 0 \in 0..MaxDuration
    BY BodyAssumption DEF BodyAssumption
  <2>2. pc \in [Requests -> {"new", "stamp", "replied"}]
    BY DEF Init
  <2>3. ran \in [Requests -> 0..MaxDuration]
    BY <2>1 DEF Init
  <2> QED
    BY <2>2, <2>3 DEF Init, TypeOK
<1>2. \A r \in Requests : drive # r
  BY BodyAssumption DEF Init, BodyAssumption
<1>3. alone = {}
  BY DEF Init
<1> QED
  BY <1>1, <1>2, <1>3 DEF BodyInv, WrittenFirst, ArmedWhileDriving, OwnStep

LEMMA BodyType == ASSUME TypeOK, [Next]_vars PROVE TypeOK'
<1>1. CASE SpawnRobot \/ OtherDrive \/ Reset \/ UNCHANGED vars
  BY <1>1 DEF SpawnRobot, OtherDrive, Reset, vars, TypeOK
<1>2. ASSUME NEW r \in Requests, WriteDrive(r) PROVE TypeOK'
  BY <1>2 DEF WriteDrive, TypeOK
<1>3. ASSUME NEW r \in Requests, StampStep(r) PROVE TypeOK'
  BY <1>3 DEF StampStep, TypeOK
<1>4. CASE Frame
  <2>1. step' \in Durations \cup {None} /\ drive' \in {drive, Stopped}
    BY <1>4, BodyAssumption DEF Frame, TypeOK, Durations, BodyAssumption
  <2>2. ran' \in [Requests -> 0..MaxDuration]
    BY <1>4, BodyAssumption DEF Frame, Aged, TypeOK, BodyAssumption
  <2> QED
    BY <1>4, <2>1, <2>2 DEF Frame, TypeOK
<1> QED
  BY <1>1, <1>2, <1>3, <1>4 DEF Next

\* One frame: a velocity in force grows older by a frame, up to the bound.
LEMMA FrameAges ==
  ASSUME BodyInv, Frame, NEW r \in alone, drive = r, step # None
  PROVE  /\ step \in 0..MaxDuration /\ ran[r] \in 0..MaxDuration
         /\ dur[r] \in 0..MaxDuration
         /\ ran'[r] = IF ran[r] < MaxDuration THEN ran[r] + 1 ELSE MaxDuration
         /\ ran[r] + step >= dur[r]
<1>1. r \in Requests /\ ran[r] \in 0..MaxDuration /\ step \in 0..MaxDuration
      /\ dur[r] \in 0..MaxDuration
  BY DEF BodyInv, TypeOK, Durations
<1>2. ran'[r] = IF ran[r] < MaxDuration THEN ran[r] + 1 ELSE ran[r]
  BY <1>1 DEF Frame, Aged
<1> QED
  BY <1>1, <1>2, BodyAssumption DEF BodyInv, OwnStep, BodyAssumption

LEMMA BodyNext == ASSUME BodyInv, [Next]_vars PROVE BodyInv'
<1> USE DEF BodyInv
<1>0. TypeOK'
  BY BodyType
<1>1. CASE SpawnRobot \/ OtherDrive \/ Reset \/ UNCHANGED vars
  <2>1. UNCHANGED <<step, pc, dur, alone, ran>>
    BY <1>1 DEF SpawnRobot, OtherDrive, Reset, vars
  <2>2. \A r \in Requests : drive' = r => drive = r
    BY <1>1, BodyAssumption
       DEF SpawnRobot, OtherDrive, Reset, vars, TypeOK, BodyAssumption
  <2>3. alone \subseteq Requests
    BY DEF TypeOK
  <2> QED
    BY <1>0, <2>1, <2>2, <2>3 DEF WrittenFirst, ArmedWhileDriving, OwnStep
<1>2. ASSUME NEW r \in Requests, WriteDrive(r) PROVE BodyInv'
  <2>1. /\ pc[r] = "new" /\ drive # r /\ UNCHANGED <<step, dur, ran>>
        /\ \A q \in Requests : q # r => pc'[q] = pc[q]
        /\ pc'[r] = IF up THEN "stamp" ELSE "replied"
        /\ drive' = IF up THEN r ELSE drive
    BY <1>2 DEF WriteDrive, WrittenFirst, TypeOK
  <2>3. alone \subseteq Requests /\ alone' \subseteq alone \cup {r}
    BY <1>2 DEF WriteDrive, TypeOK
  <2>2. WrittenFirst' /\ ArmedWhileDriving'
    BY <2>1, <2>3 DEF WrittenFirst, ArmedWhileDriving
  <2>4. r \in alone' => r \in alone \/ (step = None /\ \A q \in Requests : pc[q] # "stamp")
    BY <1>2 DEF WriteDrive
  <2>5. OwnStep'
    <3> SUFFICES ASSUME NEW s \in alone', drive' = s
                 PROVE  /\ \A q \in Requests : q # s => pc'[q] # "stamp"
                        /\ pc'[s] = "stamp" => step' = None
                        /\ step' # None => ran'[s] + step' >= dur'[s]
      BY DEF OwnStep
    <3>1. CASE s # r
      <4>1. s \in alone /\ s \in Requests
        BY <2>3, <3>1
      <4>2. drive = s /\ ~up
        BY <2>1, <3>1
      <4>3. \A q \in Requests : pc'[q] = "stamp" => pc[q] = "stamp"
        BY <2>1, <4>2
      <4> QED
        BY <2>1, <4>1, <4>2, <4>3 DEF OwnStep
    <3>2. CASE s = r
      <4>1. r \notin alone
        BY <2>1 DEF WrittenFirst
      <4>2. step = None /\ \A q \in Requests : pc[q] # "stamp"
        BY <2>4, <3>2, <4>1
      <4> QED
        BY <2>1, <3>2, <4>2
    <3> QED
      BY <3>1, <3>2
  <2> QED
    BY <1>0, <2>2, <2>5
<1>3. ASSUME NEW r \in Requests, StampStep(r) PROVE BodyInv'
  <2>1. /\ pc[r] = "stamp" /\ UNCHANGED <<drive, dur, alone, ran>>
        /\ step' = dur[r] /\ dur[r] \in Nat /\ step' # None
        /\ pc' = [pc EXCEPT ![r] = "replied"]
    BY <1>3, BodyAssumption DEF StampStep, TypeOK, Durations, BodyAssumption
  <2>2. WrittenFirst' /\ ArmedWhileDriving'
    BY <2>1 DEF WrittenFirst, ArmedWhileDriving, TypeOK
  <2>3. ASSUME NEW s \in alone, drive = s PROVE s = r
    BY <2>1, <2>3 DEF OwnStep
  <2>4. \A q \in Requests : q # r => pc'[q] = pc[q]
    BY <2>1 DEF TypeOK
  <2>5. pc'[r] = "replied" /\ ran[r] \in Nat
    BY <2>1 DEF TypeOK
  <2>6. OwnStep'
    BY <2>1, <2>3, <2>4, <2>5 DEF OwnStep
  <2> QED
    BY <1>0, <2>2, <2>6
<1>4. CASE Frame
  <2>1. /\ UNCHANGED <<pc, dur, alone>> /\ drive' \in {drive, Stopped}
        /\ drive' = drive => step \notin {0, 1} \/ drive = Stopped
    BY <1>4 DEF Frame
  <2>2. \A r \in Requests : drive' = r => drive' = drive /\ step \notin {0, 1}
    BY <2>1, BodyAssumption DEF BodyAssumption
  <2>3. ASSUME drive' = drive, step \notin {0, 1}
        PROVE  step' = IF step = None THEN None ELSE step - 1
    BY <1>4, <2>3 DEF Frame
  <2>4. step # None /\ step \notin {0, 1} => step - 1 \in Nat
    BY BodyAssumption DEF TypeOK, Durations, BodyAssumption
  <2>5. WrittenFirst' /\ ArmedWhileDriving'
    BY <2>1, <2>2, <2>3, <2>4, BodyAssumption
       DEF WrittenFirst, ArmedWhileDriving, BodyAssumption
  <2>6. OwnStep'
    <3> SUFFICES ASSUME NEW r \in alone, drive' = r
                 PROVE  /\ \A q \in Requests : q # r => pc[q] # "stamp"
                        /\ pc[r] = "stamp" => step' = None
                        /\ step' # None => ran'[r] + step' >= dur[r]
      BY <2>1 DEF OwnStep
    <3>1. r \in Requests /\ drive = r /\ drive' = drive /\ step \notin {0, 1}
      BY <2>1, <2>2 DEF TypeOK
    <3>2. step' # None => step # None /\ step' = step - 1
      BY <2>3, <3>1
    <3>3. ASSUME step # None PROVE ran'[r] + (step - 1) >= dur[r]
      BY <1>4, <3>1, <3>3, FrameAges, BodyAssumption DEF BodyAssumption
    <3> QED
      BY <2>3, <3>1, <3>2, <3>3 DEF OwnStep
  <2> QED
    BY <1>0, <2>5, <2>6
<1> QED
  BY <1>1, <1>2, <1>3, <1>4 DEF Next

\* The drive commands keep their types, and a velocity whose handler has replied
\* always has a step that will end it, under any other writers of the drive.
THEOREM BodyCorrect == Spec => [](TypeOK /\ ArmedWhileDriving)
<1>1. BodyInv => TypeOK /\ ArmedWhileDriving
  BY DEF BodyInv
<1> QED
  BY <1>1, BodyInit, BodyNext, PTL DEF Spec

\* expire_drive_step ends the velocity of a command that began alone only after
\* the whole duration asked for.
THEOREM BodyOwnDuration == Spec => OwnDuration
<1>1. ASSUME BodyInv, NEW r \in alone, Frame, drive = r, drive' = Stopped
      PROVE  ran'[r] >= dur[r]
  <2>1. r \in Requests /\ drive # Stopped
    BY <1>1, BodyAssumption DEF BodyInv, TypeOK, BodyAssumption
  <2>2. step \in {0, 1}
    BY <1>1, <2>1 DEF Frame
  <2>3. step # None
    BY <2>2, BodyAssumption DEF BodyAssumption
  <2>4. /\ step \in 0..MaxDuration /\ ran[r] \in 0..MaxDuration
        /\ dur[r] \in 0..MaxDuration
        /\ ran'[r] = IF ran[r] < MaxDuration THEN ran[r] + 1 ELSE MaxDuration
        /\ ran[r] + step >= dur[r]
    BY <1>1, <2>3, FrameAges
  <2> QED
    BY <2>2, <2>4, BodyAssumption DEF BodyAssumption
<1>2. BodyInv /\ [Next]_vars =>
        [\A r \in alone :
           Frame /\ drive = r /\ drive' = Stopped => ran'[r] >= dur[r]]_vars
  BY <1>1
<1> QED
  BY <1>2, BodyInit, BodyNext, PTL DEF Spec, OwnDuration

-----------------------------------------------------------------------------
(* The scene and its scripts. *)

\* The server is a child of the robot, so there are no routes without it; a tick
\* under way began with a robot and left room for one more tick.
Hosted ==
  /\ routes => up
  /\ \A k \in Runs : leaf[k] = "eval" => up /\ input[k] < MaxTicks

\* A load is fresh until it is pushed: nothing that was loaded or called comes back.
PushedOnce == scene \notin fresh /\ \A k \in Runs : of[k] \notin fresh

\* The inductive invariant of SceneScripts.
HostInv ==
  /\ SceneTypeOK /\ Hosted /\ PushedOnce
  /\ served => loaded
  /\ NoTickLost /\ RestAfterClear

LEMMA SceneInit == InitScene => HostInv
<1> SUFFICES ASSUME InitScene PROVE HostInv
  OBVIOUS
<1>1. TypeOK
  BY BodyInit DEF InitScene, BodyInv
<1>2. 0 \in 0..MaxTicks
  BY SceneAssumption DEF SceneAssumption
<1>3. SceneTypeOK
  BY <1>1, <1>2, SceneAssumption DEF InitScene, SceneTypeOK, SceneAssumption
<1>4. drive = Stopped /\ Stopped \notin Runs
  BY BodyAssumption, SceneAssumption
     DEF InitScene, Init, BodyAssumption, SceneAssumption
<1>5. Hosted /\ PushedOnce
  BY SceneAssumption DEF InitScene, Hosted, PushedOnce, SceneAssumption
<1> QED
  BY <1>3, <1>4, <1>5 DEF InitScene, HostInv, NoTickLost, RestAfterClear

\* Every step of the scene is one of PerceiveActBody, or leaves its state alone.
LEMMA SceneStepsBody ==
  ASSUME HostInv, [NextScene]_sceneVars PROVE [Next]_vars
<1>1. CASE BodyStep
  BY <1>1 DEF BodyStep, Next
<1>2. CASE SceneFrame
  BY <1>2 DEF SceneFrame, Next
<1>3. CASE Clear
  BY <1>3 DEF Clear, HostInv, Hosted, Next, Reset
<1>4. ASSUME NEW k \in Runs, Apply(k) PROVE OtherDrive
  <2>1. up /\ k \in Others
    BY <1>4, SceneAssumption DEF Apply, HostInv, Hosted, SceneAssumption
  <2> QED
    BY <1>4, <2>1 DEF Apply, OtherDrive
<1>5. ASSUME NEW k \in Runs, Call(k) \/ Gather(k) \/ Gone(k) \/ EvalFails(k)
      PROVE  UNCHANGED vars
  BY <1>5 DEF Call, Gather, Gone, EvalFails
<1>6. CASE BuildRoutes \/ (\E l \in Loads : Push(l)) \/ UNCHANGED sceneVars
  BY <1>6 DEF BuildRoutes, Push, sceneVars
<1> QED
  BY <1>1, <1>2, <1>3, <1>4, <1>5, <1>6 DEF NextScene, Next

\* A tick under way belongs to a load.
LEMMA TickOfLoad ==
  ASSUME SceneTypeOK, NEW k \in Runs, leaf[k] = "eval"
  PROVE  of[k] \in Loads /\ of[k] # Default /\ of[k] # NoScene
BY SceneAssumption DEF SceneTypeOK, SceneAssumption

LEMMA SceneNext == ASSUME HostInv, [NextScene]_sceneVars PROVE HostInv'
<1> USE DEF HostInv
<1>0. TypeOK'
  BY SceneStepsBody, BodyType DEF SceneTypeOK
<1>1. CASE BodyStep \/ UNCHANGED sceneVars
  <2>1. UNCHANGED <<hostVars, runVars>> /\ (up => up')
    BY <1>1 DEF BodyStep, sceneVars, vars, SpawnRobot, WriteDrive, StampStep,
                OtherDrive, Reset
  <2>2. \A k \in Runs : drive' = k => drive = k
    <3>1. \A k \in Runs : k \notin Requests /\ k # Rc /\ k # Stopped
      BY BodyAssumption, SceneAssumption DEF BodyAssumption, SceneAssumption
    <3> QED
      BY <1>1, <3>1 DEF BodyStep, sceneVars, vars, SpawnRobot, WriteDrive, StampStep,
                        OtherDrive, Reset
  <2>3. SceneTypeOK' /\ Hosted' /\ PushedOnce'
    BY <1>0, <2>1 DEF SceneTypeOK, Hosted, PushedOnce, hostVars, runVars
  <2> QED
    BY <2>1, <2>2, <2>3 DEF NoTickLost, RestAfterClear, hostVars, runVars
<1>2. CASE SceneFrame
  <2>1. /\ UNCHANGED <<up, routes, fresh, leaf, of, input, sole, late>>
        /\ served' = routes /\ LoadDefault
        /\ drive' \in {drive, Stopped}
    BY <1>2 DEF SceneFrame, Frame
  <2>2. /\ loaded' \in BOOLEAN /\ (routes => loaded')
        /\ (scene' = Default /\ memory' = 0) \/ UNCHANGED <<scene, memory>>
    BY <2>1 DEF LoadDefault, SceneTypeOK
  <2>3. 0 \in 0..MaxTicks /\ Default \notin Loads /\ Default # NoScene
        /\ Stopped \notin Runs
    BY BodyAssumption, SceneAssumption DEF BodyAssumption, SceneAssumption
  <2>4. SceneTypeOK'
    BY <1>0, <2>1, <2>2, <2>3 DEF SceneTypeOK
  <2>5. Hosted' /\ PushedOnce'
    BY <2>1, <2>2, <2>3 DEF Hosted, PushedOnce, SceneTypeOK
  <2>6. NoTickLost'
    <3> SUFFICES ASSUME NEW k \in sole, scene' = of[k] PROVE input[k] = memory'
      BY <2>1 DEF NoTickLost
    <3>1. k \in Runs /\ leaf[k] = "eval"
      BY DEF SceneTypeOK
    <3>2. of[k] # Default
      BY <3>1, TickOfLoad
    <3> QED
      BY <2>2, <3>2 DEF NoTickLost
  <2>7. RestAfterClear'
    BY <2>1, <2>2, <2>3 DEF RestAfterClear
  <2> QED
    BY <2>1, <2>2, <2>4, <2>5, <2>6, <2>7
<1>3. CASE BuildRoutes
  BY <1>0, <1>3 DEF BuildRoutes, runVars, vars, SceneTypeOK, Hosted, PushedOnce,
                    NoTickLost, RestAfterClear
<1>4. CASE Clear
  <2>1. /\ scene' = NoScene /\ memory' = 0 /\ drive' = Stopped
        /\ UNCHANGED <<up, routes, fresh, loaded, served, leaf, of, input, sole, late>>
    BY <1>4 DEF Clear
  <2>2. 0 \in 0..MaxTicks /\ NoScene \notin Loads /\ Stopped \notin Runs
    BY BodyAssumption, SceneAssumption DEF BodyAssumption, SceneAssumption
  <2>3. SceneTypeOK' /\ Hosted' /\ PushedOnce'
    BY <1>0, <2>1, <2>2 DEF SceneTypeOK, Hosted, PushedOnce
  <2>4. NoTickLost'
    BY <2>1, TickOfLoad DEF NoTickLost, SceneTypeOK
  <2> QED
    BY <2>1, <2>2, <2>3, <2>4 DEF RestAfterClear
<1>5. ASSUME NEW l \in Loads, Push(l) PROVE HostInv'
  <2>1. /\ l \in fresh /\ scene' = l /\ fresh' = fresh \ {l} /\ memory' = 0
        /\ UNCHANGED <<vars, routes, loaded, served, leaf, of, input, sole, late>>
    BY <1>5 DEF Push
  <2>2. 0 \in 0..MaxTicks /\ l # NoScene
    BY SceneAssumption DEF SceneAssumption
  <2>3. SceneTypeOK' /\ Hosted' /\ PushedOnce'
    BY <1>0, <2>1, <2>2 DEF SceneTypeOK, Hosted, PushedOnce, vars
  <2>4. \A k \in sole : scene' # of[k]
    BY <2>1 DEF PushedOnce, SceneTypeOK
  <2> QED
    BY <2>1, <2>2, <2>3, <2>4 DEF NoTickLost, RestAfterClear
<1>6. ASSUME NEW k \in Runs, Call(k) PROVE HostInv'
  <2>1. /\ scene \in Loads /\ leaf[k] = "off"
        /\ leaf' = [leaf EXCEPT ![k] = "idle"] /\ of' = [of EXCEPT ![k] = scene]
        /\ UNCHANGED <<vars, hostVars, memory, input, sole, late>>
    BY <1>6 DEF Call
  <2>2. scene # NoScene
    BY <2>1, SceneAssumption DEF SceneAssumption
  <2>3. SceneTypeOK'
    BY <1>0, <2>1, <2>2 DEF SceneTypeOK, hostVars
  <2>4. Hosted' /\ PushedOnce'
    BY <2>1 DEF SceneTypeOK, Hosted, PushedOnce, hostVars, vars
  <2>5. \A j \in sole : of'[j] = of[j]
    BY <2>1 DEF SceneTypeOK
  <2> QED
    BY <2>1, <2>2, <2>3, <2>4, <2>5 DEF NoTickLost, RestAfterClear, hostVars, vars
<1>7. ASSUME NEW k \in Runs, Gather(k) PROVE HostInv'
  <2>1. /\ leaf[k] = "idle" /\ up /\ memory < MaxTicks
        /\ leaf' = [leaf EXCEPT ![k] = "eval"]
        /\ input' = [input EXCEPT ![k] = memory] /\ sole' = sole \cup {k}
        /\ UNCHANGED <<vars, hostVars, memory, of, late>>
    BY <1>7 DEF Gather
  <2>2. SceneTypeOK'
    BY <1>0, <2>1 DEF SceneTypeOK, hostVars
  <2>3. Hosted' /\ PushedOnce'
    BY <2>1 DEF SceneTypeOK, Hosted, PushedOnce, hostVars, vars
  <2>4. \A j \in Runs : input'[j] = IF j = k THEN memory ELSE input[j]
    BY <2>1 DEF SceneTypeOK
  <2> QED
    BY <2>1, <2>2, <2>3, <2>4 DEF NoTickLost, RestAfterClear, SceneTypeOK, hostVars, vars
<1>8. ASSUME NEW k \in Runs, Gone(k) PROVE HostInv'
  <2>1. /\ leaf[k] = "idle"
        /\ leaf' = [leaf EXCEPT ![k] = "off"] /\ of' = [of EXCEPT ![k] = NoScene]
        /\ UNCHANGED <<vars, hostVars, memory, input, sole, late>>
    BY <1>8 DEF Gone
  <2>2. SceneTypeOK'
    BY <1>0, <2>1 DEF SceneTypeOK, hostVars
  <2>3. NoScene \notin fresh
    BY SceneAssumption DEF SceneTypeOK, SceneAssumption
  <2>4. Hosted' /\ PushedOnce'
    BY <2>1, <2>3 DEF SceneTypeOK, Hosted, PushedOnce, hostVars, vars
  <2>5. \A j \in sole : of'[j] = of[j]
    BY <2>1 DEF SceneTypeOK
  <2> QED
    BY <2>1, <2>2, <2>4, <2>5 DEF NoTickLost, RestAfterClear, hostVars, vars
<1>9. ASSUME NEW k \in Runs, EvalFails(k) PROVE HostInv'
  <2>1. /\ leaf' = [leaf EXCEPT ![k] = "idle"]
        /\ input' = [input EXCEPT ![k] = 0] /\ sole' = sole \ {k}
        /\ leaf[k] = "eval" /\ UNCHANGED <<vars, hostVars, memory, of, late>>
    BY <1>9 DEF EvalFails
  <2>2. 0 \in 0..MaxTicks
    BY SceneAssumption DEF SceneAssumption
  <2>3. SceneTypeOK'
    BY <1>0, <2>1, <2>2 DEF SceneTypeOK, hostVars
  <2>4. Hosted' /\ PushedOnce'
    BY <2>1 DEF SceneTypeOK, Hosted, PushedOnce, hostVars, vars
  <2>5. \A j \in sole' : input'[j] = input[j]
    BY <2>1 DEF SceneTypeOK
  <2> QED
    BY <2>1, <2>3, <2>4, <2>5 DEF NoTickLost, RestAfterClear, hostVars, vars
<1>10. ASSUME NEW k \in Runs, Apply(k) PROVE HostInv'
  <2>1. /\ leaf' = [leaf EXCEPT ![k] = "idle"]
        /\ input' = [input EXCEPT ![k] = 0] /\ sole' \subseteq sole \ {k}
        /\ late' \subseteq late \cup {k} /\ drive' \in {k, Stopped}
        /\ leaf[k] = "eval" /\ UNCHANGED <<up, hostVars, of>>
    BY <1>10 DEF Apply
  <2>2. memory' \in 0..MaxTicks
    <3>1. input[k] \in 0..MaxTicks /\ input[k] < MaxTicks
      BY <2>1 DEF SceneTypeOK, Hosted
    <3>2. memory' \in {input[k] + 1, 0, memory} /\ memory \in 0..MaxTicks
      BY <1>10 DEF Apply, SceneTypeOK
    <3> QED
      BY <3>1, <3>2, SceneAssumption DEF SceneAssumption
  <2>3. 0 \in 0..MaxTicks /\ Stopped \notin Runs
    BY BodyAssumption, SceneAssumption DEF BodyAssumption, SceneAssumption
  <2>4. SceneTypeOK'
    BY <1>0, <2>1, <2>2, <2>3 DEF SceneTypeOK, hostVars
  <2>5. Hosted' /\ PushedOnce'
    BY <2>1 DEF SceneTypeOK, Hosted, PushedOnce, hostVars
  <2>6. NoTickLost'
    <3>1. CASE scene = of[k]
      BY <1>10, <3>1 DEF Apply, NoTickLost
    <3>2. CASE scene # of[k]
      <4>1. \A j \in sole' : j \in sole /\ input'[j] = input[j]
        BY <2>1 DEF SceneTypeOK
      <4> QED
        BY <1>10, <3>2, <4>1 DEF Apply, NoTickLost, hostVars
    <3> QED
      BY <3>1, <3>2
  <2>7. RestAfterClear'
    <3>1. of[k] # NoScene
      BY <2>1, TickOfLoad
    <3>2. scene = NoScene => late' = late \cup {k}
      BY <1>10, <3>1 DEF Apply
    <3> QED
      BY <2>1, <2>3, <3>2 DEF RestAfterClear, hostVars
  <2> QED
    BY <2>1, <2>4, <2>5, <2>6, <2>7 DEF hostVars
<1> QED
  BY <1>1, <1>2, <1>3, <1>4, <1>5, <1>6, <1>7, <1>8, <1>9, <1>10 DEF NextScene

LEMMA SceneAlways == SceneSpec => []HostInv
<1>1. HostInv /\ [NextScene]_sceneVars => HostInv'
  BY SceneNext
<1> QED
  BY <1>1, SceneInit, PTL DEF SceneSpec

\* Whatever scripts, loads, clears and the default scene do, the robot under them
\* behaves as PerceiveActBody says.
THEOREM SceneImplementsBody == SceneSpec => BodyImplemented
<1>1. InitScene => Init
  BY DEF InitScene
<1>2. HostInv /\ [NextScene]_sceneVars => [Next]_vars
  BY SceneStepsBody
<1> QED
  BY <1>1, <1>2, SceneAlways, PTL DEF SceneSpec, Spec, BodyImplemented

\* The types of the scene, and drive commands stay armed while scenes come and go.
THEOREM SceneSafe == SceneSpec => []SceneInv
<1>1. HostInv /\ ArmedWhileDriving => SceneInv
  BY DEF HostInv, SceneInv
<1>2. Spec => []ArmedWhileDriving
  BY BodyCorrect, PTL
<1> QED
  BY <1>1, <1>2, SceneAlways, SceneImplementsBody, PTL DEF BodyImplemented

\* The duration of a drive command that began alone holds while scenes come and go.
THEOREM SceneOwnDuration == SceneSpec => OwnDuration
BY SceneImplementsBody, BodyOwnDuration DEF BodyImplemented

\* ScriptState::step loses no tick of a leaf, for any number of runs, unless two runs of the leaf overlap.
THEOREM TicksKept == SceneSpec => []NoTickLost
<1>1. HostInv => NoTickLost
  BY DEF HostInv
<1> QED
  BY <1>1, SceneAlways, PTL

\* After a clear only an output that was being evaluated moves the robot.
THEOREM RestsAfterClear == SceneSpec => []RestAfterClear
<1>1. HostInv => RestAfterClear
  BY DEF HostInv
<1> QED
  BY <1>1, SceneAlways, PTL

\* load_default_scene takes nothing back from the host after its one attempt.
THEOREM HostKeepsScene == SceneSpec => HostWins
<1>1. HostInv /\ [NextScene]_sceneVars =>
        [served /\ scene' = Default => scene = Default]_sceneVars
  <2> SUFFICES ASSUME HostInv, NextScene, served, scene' = Default
               PROVE  scene = Default
    OBVIOUS
  <2>1. loaded
    BY DEF HostInv
  <2>2. CASE SceneFrame
    BY <2>1, <2>2 DEF SceneFrame, LoadDefault
  <2>3. Default \notin Loads /\ Default # NoScene
    BY SceneAssumption DEF SceneAssumption
  <2>4. CASE ~SceneFrame
    BY <2>3, <2>4 DEF NextScene, BodyStep, BuildRoutes, Clear, Push, Call, Gather,
                      Gone, EvalFails, Apply, hostVars
  <2> QED
    BY <2>2, <2>4
<1> QED
  BY <1>1, SceneAlways, PTL DEF SceneSpec, HostWins
=============================================================================

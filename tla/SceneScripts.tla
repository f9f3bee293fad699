------------------------------ MODULE SceneScripts ------------------------------
(***************************************************************************)
(* What a loaded scene does to the robot beside the drive requests of      *)
(* PerceiveActBody, whose drive it shares: the script leaves               *)
(* (src/src/scripting/mod.rs, src/src/alvik/scripting.rs) and the default  *)
(* scene of the firmware (src/src/extra/default_scene.rs).                 *)
(*                                                                         *)
(* One tick of a script leaf reads the ScriptState and the sensors in one  *)
(* access of the world, evaluates the script while frames and other tasks  *)
(* go on, and writes its output in a second access.  In between the scene  *)
(* may be replaced or cleared, and another run of the same leaf (its route *)
(* was called twice) may have written the state.                           *)
(*                                                                         *)
(* Pushing and clearing a scene, the RouteTree and the engine are beet's;  *)
(* a load is one POST that installs a scene, and no load is repeated.  The *)
(* velocity a run commands is named by the run, its memory is the number   *)
(* of ticks it counts, and an evaluation ends with an output or an error.  *)
(***************************************************************************)
EXTENDS PerceiveActBody

CONSTANTS
  Loads,     \* scenes with a script leaf, each pushed at most once
  Default,   \* the scene embedded in the firmware: the perceive-act body
  NoScene,
  Runs,      \* calls of a script route, each looping over its ticks
  Rc,        \* a velocity set by the RC route
  MaxTicks   \* bound on the ticks a ScriptState counts

ASSUME SceneAssumption ==
  /\ Others = Runs \cup {Rc} /\ Rc \notin Runs /\ MaxTicks \in Nat
  /\ Default # NoScene /\ {Default, NoScene} \cap Loads = {}

VARIABLES
  routes,    \* the server's router has its RouteTree
  scene,     \* the BeetSceneRoot that is loaded
  fresh,     \* the loads that have not been pushed
  loaded,    \* DefaultSceneLoaded
  memory,    \* ScriptState of the loaded scene's leaf
  leaf,      \* where each run is: "off", "idle" between ticks, or "eval"
  of,        \* the scene whose leaf a run was called on
  input,     \* the ScriptState a run's tick was given
  served,    \* history: a frame has passed since the RouteTree exists
  sole,      \* history: ticks under way since which no other tick was applied
  late       \* history: runs whose last output came after their scene

hostVars == <<routes, scene, fresh, loaded, served>>
runVars == <<memory, leaf, of, input, sole, late>>
sceneVars == <<vars, hostVars, runVars>>

InitScene ==
  /\ Init
  /\ routes = FALSE /\ scene = NoScene /\ fresh = Loads /\ loaded = FALSE
  /\ memory = 0
  /\ leaf = [k \in Runs |-> "off"] /\ of = [k \in Runs |-> NoScene]
  /\ input = [k \in Runs |-> 0]
  /\ served = FALSE /\ sole = {} /\ late = {}

-----------------------------------------------------------------------------
(* The scene host. *)

\* The scene server, a child of the robot, has booted.
BuildRoutes ==
  /\ up /\ ~routes /\ routes' = TRUE
  /\ UNCHANGED <<vars, scene, fresh, loaded, served, runVars>>

\* A POST to /load: the prior scene is despawned and another one spawned.
Push(l) ==
  /\ routes /\ l \in fresh
  /\ scene' = l /\ fresh' = fresh \ {l} /\ memory' = 0
  /\ UNCHANGED <<vars, routes, loaded, served, leaf, of, input, sole, late>>

\* Mutant of Clear: the scene is despawned and the hardware is left as it is.
ClearWithoutReset ==
  /\ routes
  /\ scene' = NoScene /\ memory' = 0
  /\ UNCHANGED <<vars, routes, fresh, loaded, served, leaf, of, input, sole, late>>

\* /clear: the scene is despawned and ResetScene brings the robot to rest.
Clear ==
  /\ routes
  /\ scene' = NoScene /\ memory' = 0
  /\ drive' = Stopped
  /\ UNCHANGED <<up, step, pc, dur, alone, ran>>
  /\ UNCHANGED <<routes, fresh, loaded, served, leaf, of, input, sole, late>>

\* Mutant of LoadDefault: a load that failed is tried again in the next frame.
LoadDefaultAgain ==
  IF routes /\ ~loaded
  THEN /\ memory' = 0
       /\ \/ scene' = Default /\ loaded' = TRUE
          \/ UNCHANGED <<scene, loaded>>
  ELSE UNCHANGED <<scene, loaded, memory>>

\* load_default_scene: with a RouteTree under the HttpServer the embedded scene
\* replaces whatever is loaded, or its load fails; it is attempted once.
LoadDefault ==
  IF routes /\ ~loaded
  THEN /\ loaded' = TRUE
       /\ \/ scene' = Default /\ memory' = 0
          \/ UNCHANGED <<scene, memory>>
  ELSE UNCHANGED <<scene, loaded, memory>>

\* The two systems of one Update.
SceneFrame ==
  /\ Frame /\ LoadDefault
  /\ served' = routes
  /\ UNCHANGED <<routes, fresh, leaf, of, input, sole, late>>

-----------------------------------------------------------------------------
(* A script leaf: ScriptState::step under a Repeat. *)

\* The scene's script route is called.
Call(k) ==
  /\ scene \in Loads /\ leaf[k] = "off"
  /\ leaf' = [leaf EXCEPT ![k] = "idle"] /\ of' = [of EXCEPT ![k] = scene]
  /\ UNCHANGED <<vars, hostVars, memory, input, sole, late>>

\* The first access: the script, the state and the sensors are cloned out.
\* Without a robot the tick is skipped.
Gather(k) ==
  /\ leaf[k] = "idle" /\ scene = of[k] /\ up
  /\ memory < MaxTicks
  /\ leaf' = [leaf EXCEPT ![k] = "eval"]
  /\ input' = [input EXCEPT ![k] = memory]
  /\ sole' = sole \cup {k}
  /\ UNCHANGED <<vars, hostVars, memory, of, late>>

\* The leaf is gone: the tick passes and the loop ends with its tree.
Gone(k) ==
  /\ leaf[k] = "idle" /\ scene # of[k]
  /\ leaf' = [leaf EXCEPT ![k] = "off"] /\ of' = [of EXCEPT ![k] = NoScene]
  /\ UNCHANGED <<vars, hostVars, memory, input, sole, late>>

\* Mutant of EvalFails: a failed evaluation clears the state.
EvalFailsClears(k) ==
  /\ leaf[k] = "eval"
  /\ leaf' = [leaf EXCEPT ![k] = "idle"] /\ input' = [input EXCEPT ![k] = 0]
  /\ sole' = sole \ {k}
  /\ memory' = 0
  /\ UNCHANGED <<vars, hostVars, of, late>>

\* The evaluation fails, is logged, and the tick passes.
EvalFails(k) ==
  /\ leaf[k] = "eval"
  /\ leaf' = [leaf EXCEPT ![k] = "idle"] /\ input' = [input EXCEPT ![k] = 0]
  /\ sole' = sole \ {k}
  /\ UNCHANGED <<vars, hostVars, memory, of, late>>

\* Mutant of Apply: the script takes the robot over and removes the DriveStep.
ApplyDisarms(k) ==
  /\ leaf[k] = "eval"
  /\ leaf' = [leaf EXCEPT ![k] = "idle"] /\ input' = [input EXCEPT ![k] = 0]
  /\ drive' \in {k, Stopped} /\ step' = None
  /\ IF scene = of[k]
     THEN memory' \in {input[k] + 1, 0} /\ sole' = {} /\ late' = late \ {k}
     ELSE UNCHANGED memory /\ sole' = sole \ {k} /\ late' = late \cup {k}
  /\ UNCHANGED <<up, pc, dur, alone, ran, hostVars, of>>

\* The second access: the output is written to the robot whatever became of the
\* scene, and the state only if the leaf is still there.  What an output leaves
\* out is zero: a velocity at rest, an empty state.
Apply(k) ==
  /\ leaf[k] = "eval"
  /\ leaf' = [leaf EXCEPT ![k] = "idle"] /\ input' = [input EXCEPT ![k] = 0]
  /\ drive' \in {k, Stopped}
  /\ IF scene = of[k]
     THEN memory' \in {input[k] + 1, 0} /\ sole' = {} /\ late' = late \ {k}
     ELSE UNCHANGED memory /\ sole' = sole \ {k} /\ late' = late \cup {k}
  /\ UNCHANGED <<up, step, pc, dur, alone, ran, hostVars, of>>

-----------------------------------------------------------------------------

\* The operations of PerceiveActBody beside the frame.
BodyStep ==
  /\ \/ SpawnRobot
     \/ \E r \in Requests : WriteDrive(r) \/ StampStep(r)
     \/ OtherDrive /\ drive' \in {Rc, Stopped}
     \/ Reset
  /\ UNCHANGED <<hostVars, runVars>>

NextScene ==
  \/ BodyStep \/ SceneFrame
  \/ BuildRoutes \/ Clear
  \/ \E l \in Loads : Push(l)
  \/ \E k \in Runs : Call(k) \/ Gather(k) \/ Gone(k) \/ EvalFails(k) \/ Apply(k)

SceneSpec == InitScene /\ [][NextScene]_sceneVars

-----------------------------------------------------------------------------
(* Properties. *)

\* Types of the scene and its runs; a tick is under way only in a run that was
\* called on a load.
SceneTypeOK ==
  /\ TypeOK
  /\ {routes, loaded, served} \subseteq BOOLEAN
  /\ scene \in Loads \cup {Default, NoScene} /\ fresh \subseteq Loads
  /\ memory \in 0..MaxTicks /\ input \in [Runs -> 0..MaxTicks]
  /\ leaf \in [Runs -> {"off", "idle", "eval"}]
  /\ of \in [Runs -> Loads \cup {NoScene}]
  /\ \A k \in Runs : leaf[k] = "off" <=> of[k] = NoScene
  /\ sole \subseteq {k \in Runs : leaf[k] = "eval"} /\ late \subseteq Runs

\* The types, and what PerceiveActBody keeps whatever else writes the drive.
SceneInv == SceneTypeOK /\ ArmedWhileDriving

\* Scripts and scenes change nothing the drive requests rely on: what they do
\* to the robot is what PerceiveActBody lets other writers do.
BodyImplemented == Spec

\* Once a frame has passed with the route tree there, the default scene never
\* comes back over what the host has pushed or cleared.
HostWins == [][served /\ scene' = Default => scene = Default]_sceneVars

\* A tick of a leaf that nothing else ticked meanwhile loses no state: its
\* input is still what the leaf remembers, so its output is built on the last
\* one.  Ticks of two runs of one leaf overlap, and the later output wins.
NoTickLost ==
  \A k \in sole : scene = of[k] => input[k] = memory

\* With the scene cleared the robot moves under a script only by an output that
\* was being evaluated when the scene went: nothing stops that velocity, since
\* the reset has passed.
RestAfterClear ==
  \A k \in Runs : scene = NoScene /\ drive = k => k \in late
=============================================================================

---------------------------- MODULE MCSceneScripts ----------------------------
(* TLC instance of SceneScripts.  Requests and runs are interchangeable, and *)
(* every property of the run is an invariant or a property of single steps.  *)
EXTENDS SceneScripts, TLC

Symmetry == Permutations(Requests) \cup Permutations(Runs)
=============================================================================

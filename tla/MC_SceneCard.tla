---------------------------- MODULE MC_SceneCard ----------------------------
(* A small instance of SceneCard for TLC: two lights and two catalogues to  *)
(* switch between, and as many loads and calls as it takes to have an old   *)
(* and a new one under way at once.                                         *)
EXTENDS SceneCard, TLC

Symmetry == Permutations(Entities) \cup Permutations(Urls) \cup Permutations(Scenes)
=============================================================================

-------------------------- MODULE MC_SceneUpload --------------------------
(* A small instance of SceneUpload for TLC: two uploads, three identifiers *)
(* and room for two scenes, so that the last slot is contended.            *)
EXTENDS SceneUpload, TLC

Symmetry == Permutations(Uploads) \cup Permutations(Names)
=============================================================================

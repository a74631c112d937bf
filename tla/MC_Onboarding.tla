--------------------------- MODULE MC_Onboarding ---------------------------
(* A small instance of Onboarding for TLC: two flows at a time, so that    *)
(* adding, repairing and removing overlap, and one reset between pairings. *)
EXTENDS Onboarding, TLC

Symmetry == Permutations(Tasks)
=============================================================================

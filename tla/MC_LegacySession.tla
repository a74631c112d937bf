-------------------------- MODULE MC_LegacySession --------------------------
(* A small instance of LegacySession for TLC: two coroutines, two requests, *)
(* and two key exchanges after the first, so that reauths can overlap and   *)
(* one can be retried. Coroutines are interchangeable.                      *)
EXTENDS LegacySession, TLC

Symmetry == Permutations(Tasks)
=============================================================================

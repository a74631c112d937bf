---------------------------- MODULE MC_V3Session ----------------------------
(* A small instance of V3Session for TLC: two coroutines, one message id, so *)
(* that the id comes back while replies to its first use are still around,   *)
(* and a nonce space of three counters.                                      *)
EXTENDS V3Session
=============================================================================

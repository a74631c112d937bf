--------------------------- MODULE MC_Coordinator ---------------------------
EXTENDS Coordinator
=============================================================================

------------------------------ MODULE MCBarrier ------------------------------
(* Instances of Barrier: more threads than the count, so that a caller can be *)
(* slow to leave while the next generation fills up.                          *)
EXTENDS Barrier
=============================================================================

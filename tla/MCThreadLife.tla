---------------------------- MODULE MCThreadLife ----------------------------
(* The initial thread and two or three others.                              *)
EXTENDS ThreadLife, TLC

Symmetry == Permutations(Threads \ {Main})
=============================================================================

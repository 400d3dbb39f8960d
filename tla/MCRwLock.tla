------------------------------ MODULE MCRwLock ------------------------------
(***************************************************************************)
(* An instance of RwLock for TLC: the threads whose priority stays the     *)
(* same are interchangeable.                                               *)
(***************************************************************************)
EXTENDS RwLock, TLC

Symmetry == Permutations(Threads \ Restless)
=============================================================================

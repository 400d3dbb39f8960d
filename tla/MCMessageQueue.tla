----------------------------- MODULE MCMessageQueue -----------------------------
\* Two processes on one path, with two slots and three messages of two priorities.
EXTENDS MessageQueue, TLC

CONSTANTS p1, p2

Symmetric == Permutations(Procs)
=============================================================================

--------------------------------- MODULE MCAio ---------------------------------
\* Two threads, two control blocks and one group.
EXTENDS Aio, TLC

CONSTANTS t1, t2, c1, c2, g1

Symmetric == Permutations(Threads) \cup Permutations(Cbs)
=============================================================================

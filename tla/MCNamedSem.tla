------------------------------ MODULE MCNamedSem ------------------------------
\* Two threads of one process and one of another.
EXTENDS NamedSem, TLC

CONSTANTS t1, t2, t3, p1, p2

Owners == t1 :> p1 @@ t2 :> p1 @@ t3 :> p2

Symmetric == Permutations({t1, t2})
=============================================================================

-------------------------------- MODULE MCOnce --------------------------------
\* Instances of Once: two controls that share the list of waiters.
EXTENDS Once

CONSTANTS t1, t2, t3, c1, c2

=============================================================================

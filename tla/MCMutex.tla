------------------------------- MODULE MCMutex -------------------------------
(* The mutex on small sets of threads: two can sleep while a third holds the  *)
(* mutex, gives it back, loses it by its death or destroys it.                *)
EXTENDS Mutex

\* The scheduler runs every thread inside a call, and clocks go on.
LiveSpec == Spec /\ \A t \in Threads : WF_vars(Progress(t))
=============================================================================

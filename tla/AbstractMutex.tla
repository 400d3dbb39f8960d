---------------------------- MODULE AbstractMutex ----------------------------
(***************************************************************************)
(* What a pthread_mutex_t promises its callers, without saying how a       *)
(* thread waits: at most one thread owns it, a recursive owner gives it    *)
(* back as often as it took it, and a robust mutex whose owner died is     *)
(* either handed on as inconsistent or lost for good.                      *)
(***************************************************************************)
EXTENDS Naturals

CONSTANTS Threads, None

VARIABLES
  owner,    \* the thread that owns the mutex, or None
  count,    \* how often the owner took it
  dirty,    \* an owner died and nobody has called the state consistent since
  lost,     \* the mutex was given back while dirty: nobody owns it again
  dead      \* the threads that have exited

vars == <<owner, count, dirty, lost, dead>>

Init ==
  /\ owner = None
  /\ count = 0
  /\ dirty = FALSE
  /\ lost = FALSE
  /\ dead = {}

\* A live thread takes a free mutex.  A free mutex is never dirty: it is lost.
Lock(t) ==
  /\ t \notin dead
  /\ owner = None
  /\ ~lost
  /\ ~dirty
  /\ owner' = t
  /\ count' = 1
  /\ dirty' = dirty /\ lost' = lost /\ dead' = dead

Relock(t) ==
  /\ owner = t
  /\ t \notin dead
  /\ count' = count + 1
  /\ owner' = owner /\ dirty' = dirty /\ lost' = lost /\ dead' = dead

\* A live thread takes a mutex over from a dead owner; it stays dirty.
Inherit(t) ==
  /\ t \notin dead
  /\ owner \in dead
  /\ dirty
  /\ owner' = t
  /\ count' = 1
  /\ dirty' = dirty /\ lost' = lost /\ dead' = dead

Unlock(t) ==
  /\ owner = t
  /\ t \notin dead
  /\ IF count = 1
     THEN owner' = None /\ count' = 0 /\ lost' = dirty
     ELSE owner' = owner /\ count' = count - 1 /\ lost' = lost
  /\ dirty' = dirty /\ dead' = dead

MarkConsistent(t) ==
  /\ owner = t
  /\ t \notin dead
  /\ dirty
  /\ dirty' = FALSE
  /\ owner' = owner /\ count' = count /\ lost' = lost /\ dead' = dead

\* A thread exits.  Only a robust mutex notices that it was the owner.
Die(t) ==
  /\ t \notin dead
  /\ dead' = dead \cup {t}
  /\ dirty' \in {dirty, dirty \/ owner = t}
  /\ owner' = owner /\ count' = count /\ lost' = lost

\* The mutex is destroyed and initialised again while nobody owns it.
Reset ==
  /\ owner = None
  /\ dirty' = FALSE
  /\ lost' = FALSE
  /\ owner' = owner /\ count' = count /\ dead' = dead

Next ==
  \/ \E t \in Threads : Lock(t)
  \/ \E t \in Threads : Relock(t)
  \/ \E t \in Threads : Inherit(t)
  \/ \E t \in Threads : Unlock(t)
  \/ \E t \in Threads : MarkConsistent(t)
  \/ \E t \in Threads : Die(t)
  \/ Reset

Spec == Init /\ [][Next]_vars
=============================================================================

------------------------------- MODULE CondVar -------------------------------
(***************************************************************************)
(* pthread_cond_t of src/src/thread/pthread_cond.c, used with one mutex    *)
(* that behaves as AbstractMutex promises (module Mutex implements it).    *)
(*                                                                         *)
(* cond_wait() is three sections under the fast lock with a sleep between  *)
(* them: the waiter is linked, then the mutex is given back, then the      *)
(* thread sleeps on the waiter's own semaphore.  A signal, the deadline, a *)
(* cancellation and a failing wait compete for the linked waiter; whatever *)
(* wins, the mutex is taken again.                                         *)
(***************************************************************************)
EXTENDS Naturals

CONSTANTS
  Threads,   \* the threads that use the condition variable
  None       \* the null pthread_t

ASSUME CondAssumption == None \notin Threads

VARIABLES
  magic,     \* "live" or "dead"; a static initializer becomes live unseen
  linked,    \* the waiters in the list data->waiters
  behind,    \* the linked waiters after each linked waiter in the list
  posted,    \* the waiters whose semaphore has been posted
  pc,        \* where each thread is in cond_wait()
  timed,     \* whether the call in progress has a deadline
  result,    \* what the call in progress is going to return
  owner,     \* the thread that owns the mutex
  count      \* how often it took it

condVars == <<magic, linked, behind, posted>>
callVars == <<pc, timed, result>>
mutexVars == <<owner, count>>
vars == <<magic, linked, behind, posted, pc, timed, result, owner, count>>

\* The mutex of the calls: not robust, so nobody's death is seen.
Mutex == INSTANCE AbstractMutex WITH
  dirty <- FALSE, lost <- FALSE, dead <- {}

Init ==
  /\ magic = "live"
  /\ linked = {}
  /\ behind = [t \in Threads |-> {}]
  /\ posted = {}
  /\ pc = [t \in Threads |-> "out"]
  /\ timed = [t \in Threads |-> FALSE]
  /\ result = [t \in Threads |-> "none"]
  /\ Mutex!Init

-----------------------------------------------------------------------------

\* pthread_mutex_lock() and pthread_mutex_unlock() around the calls.
Lock(t) ==
  /\ pc[t] = "out"
  /\ Mutex!Lock(t)
  /\ UNCHANGED <<condVars, callVars>>

Unlock(t) ==
  /\ pc[t] = "out"
  /\ Mutex!Unlock(t)
  /\ UNCHANGED <<condVars, callVars>>

\* cond_wait(), up to the section that links the new waiter at the head of
\* the list.  The waiter's semaphore is fresh.
Link(t, d) ==
  /\ pc[t] = "out"
  /\ owner = t
  /\ magic = "live"
  /\ linked' = linked \cup {t}
  /\ behind' = [behind EXCEPT ![t] = linked]
  /\ posted' = posted \ {t}
  /\ pc' = [pc EXCEPT ![t] = "linked"]
  /\ timed' = [timed EXCEPT ![t] = d]
  /\ UNCHANGED <<magic, result, mutexVars>>

\* cond_wait(): pthread_mutex_unlock(), after the waiter is linked.
Release(t) ==
  /\ pc[t] = "linked"
  /\ Mutex!Unlock(t)
  /\ pc' = [pc EXCEPT ![t] = "sleep"]
  /\ UNCHANGED <<condVars, timed, result>>

\* unlink_waiter(), which leaves a waiter that is not linked alone.
Unlink(t) ==
  /\ linked' = linked \ {t}
  /\ behind' = [u \in Threads |-> IF u = t THEN {} ELSE behind[u] \ {t}]

\* The loop is left with result r; the mutex is taken next.
Leave(t, r) ==
  /\ pc' = [pc EXCEPT ![t] = "relock"]
  /\ result' = [result EXCEPT ![t] = r]
  /\ UNCHANGED timed

\* __plat_wait_one() returns OK: the post was consumed.
WaitOk(t) ==
  /\ pc[t] = "sleep"
  /\ t \in posted
  /\ posted' = posted \ {t}
  /\ Leave(t, "ok")
  /\ UNCHANGED <<magic, linked, behind, mutexVars>>

\* Mutant: the deadline wins even when a signal has unlinked the waiter.
Timeout_Always(t) ==
  /\ pc[t] = "sleep"
  /\ timed[t]
  /\ Unlink(t)
  /\ Leave(t, "timedout")
  /\ UNCHANGED <<magic, posted, mutexVars>>

\* The deadline passes: ETIMEDOUT if the waiter is still linked, and else the
\* signal that unlinked it wins and the call returns 0.
Timeout(t) ==
  /\ pc[t] = "sleep"
  /\ timed[t]
  /\ Unlink(t)
  /\ Leave(t, IF t \in linked THEN "timedout" ELSE "ok")
  /\ UNCHANGED <<magic, posted, mutexVars>>

\* __plat_wait_one() returns ERROR: EINVAL.
WaitError(t) ==
  /\ pc[t] = "sleep"
  /\ Unlink(t)
  /\ Leave(t, "error")
  /\ UNCHANGED <<magic, posted, mutexVars>>

\* The sleep is interrupted and __pthread_testcancel() acts on a request:
\* cond_wait_cleanup() up to its pthread_mutex_lock().  Interruptions that
\* find no request go back to sleep and change nothing.
Cancel(t) ==
  /\ pc[t] = "sleep"
  /\ Unlink(t)
  /\ Leave(t, "canceled")
  /\ UNCHANGED <<magic, posted, mutexVars>>

\* The mutex is taken again, by cond_wait() or by its cleanup handler.  A
\* canceled thread goes on to its other cleanup handlers and never returns.
Relock(t) ==
  /\ pc[t] = "relock"
  /\ Mutex!Lock(t)
  /\ pc' = [pc EXCEPT ![t] = IF result[t] = "canceled" THEN "exiting"
                                                       ELSE "out"]
  /\ result' = [result EXCEPT ![t] = "none"]
  /\ timed' = [timed EXCEPT ![t] = FALSE]
  /\ posted' = posted \ {t}
  /\ UNCHANGED <<magic, linked, behind>>

\* The caller's own cleanup handler gives the mutex back.
ExitUnlock(t) ==
  /\ pc[t] = "exiting"
  /\ Mutex!Unlock(t)
  /\ pc' = [pc EXCEPT ![t] = "gone"]
  /\ UNCHANGED <<condVars, timed, result>>

\* The head of the list: every other linked waiter was there before it.
IsHead(x) == x \in linked /\ linked \ {x} \subseteq behind[x]

\* Mutant: the waiter that was posted stays in the list.
Signal_NoUnlink(t) ==
  /\ pc[t] = "out"
  /\ magic = "live"
  /\ \E x \in Threads : IsHead(x) /\ posted' = posted \cup {x}
  /\ UNCHANGED <<magic, linked, behind, callVars, mutexVars>>

\* pthread_cond_signal() when the list is not empty, by a thread that may or
\* may not own the mutex.
Signal(t) ==
  /\ pc[t] = "out"
  /\ magic = "live"
  /\ \E x \in Threads :
       /\ IsHead(x)
       /\ Unlink(x)
       /\ posted' = posted \cup {x}
  /\ UNCHANGED <<magic, callVars, mutexVars>>

\* Mutant: only the head is woken.
Broadcast_HeadOnly(t) ==
  /\ pc[t] = "out"
  /\ magic = "live"
  /\ \E x \in Threads :
       /\ IsHead(x)
       /\ Unlink(x)
       /\ posted' = posted \cup {x}
  /\ UNCHANGED <<magic, callVars, mutexVars>>

\* pthread_cond_broadcast() when the list is not empty.
Broadcast(t) ==
  /\ pc[t] = "out"
  /\ magic = "live"
  /\ linked # {}
  /\ posted' = posted \cup linked
  /\ linked' = {}
  /\ behind' = [u \in Threads |-> {}]
  /\ UNCHANGED <<magic, callVars, mutexVars>>

\* pthread_cond_destroy() when it returns 0.
Destroy(t) ==
  /\ pc[t] = "out"
  /\ magic = "live"
  /\ linked = {}
  /\ magic' = "dead"
  /\ UNCHANGED <<linked, behind, posted, callVars, mutexVars>>

Next ==
  \E t \in Threads :
    \/ Lock(t)
    \/ Unlock(t)
    \/ \E d \in BOOLEAN : Link(t, d)
    \/ Release(t)
    \/ WaitOk(t)
    \/ Timeout(t)
    \/ WaitError(t)
    \/ Cancel(t)
    \/ Relock(t)
    \/ ExitUnlock(t)
    \/ Signal(t)
    \/ Broadcast(t)
    \/ Destroy(t)

Spec == Init /\ [][Next]_vars

-----------------------------------------------------------------------------

TypeOK ==
  /\ magic \in {"live", "dead"}
  /\ linked \subseteq Threads
  /\ behind \in [Threads -> SUBSET Threads]
  /\ \A t \in Threads : t \notin behind[t]
  /\ posted \subseteq Threads
  /\ pc \in [Threads -> {"out", "linked", "sleep", "relock", "exiting",
                         "gone"}]
  /\ timed \in [Threads -> BOOLEAN]
  /\ result \in [Threads -> {"none", "ok", "timedout", "error", "canceled"}]
  /\ owner \in Threads \cup {None}
  /\ count \in {0, 1}

\* Release-and-wait is atomic for every signaller: from the moment a waiter's
\* mutex may be taken by another thread, the waiter is in the list or has been
\* posted, never neither and never both.  A thread that has left its sleep is
\* not in the list: no signal is spent on it, and no link leads to its frame.
ReachableOrPosted ==
  \A t \in Threads :
    IF pc[t] \in {"linked", "sleep"} THEN t \in linked <=> t \notin posted
                                    ELSE t \notin linked

\* The mutex of the calls is owned once or not at all.
OwnedOnce == count = IF owner = None THEN 0 ELSE 1

\* The inductive invariant.
IInv == TypeOK /\ OwnedOnce /\ ReachableOrPosted

\* A signal is reported to exactly one waiter.  A step that unlinks a waiter
\* without posting it ends that waiter's call with ETIMEDOUT, EINVAL or a
\* cancellation, and a call ends with 0 only after its waiter was posted.
SignalReported ==
  [][/\ \A t \in linked \ linked' :
          t \in posted' \/ result'[t] \in {"timedout", "error", "canceled"}
     /\ \A t \in Threads :
          (result[t] = "none" /\ result'[t] = "ok") => t \in posted
     /\ \A t \in Threads :
          (result[t] = "none" /\ result'[t] = "timedout") => t \notin posted
    ]_vars
=============================================================================

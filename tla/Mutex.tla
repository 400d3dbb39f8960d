-------------------------------- MODULE Mutex --------------------------------
(***************************************************************************)
(* The process-private pthread_mutex_t of src/src/thread/pthread_mutex.c:  *)
(* normal, error-checking and recursive mutexes, stalled and robust.       *)
(*                                                                         *)
(* A section under the process-wide __plat_fast_lock() is one action.      *)
(* Between the sections a thread creates the semaphore of a statically     *)
(* initialised mutex ("create"), is about to run the loop of               *)
(* mutex_acquire() ("loop"), sleeps ("wait"), has left its sleep but still *)
(* counts as a waiter ("woken", "late", "error"), or has given the mutex   *)
(* back and is about to post the semaphore ("post").                       *)
(*                                                                         *)
(* Calls that return an error and change nothing are not steps.            *)
(***************************************************************************)
EXTENDS Naturals, FiniteSets

CONSTANTS
  Threads,        \* the threads that use the mutex
  None,           \* the null pthread_t
  SemMax,         \* bound: stands for the semaphore's maximum, 0x7fffffff
  MaxRecursion    \* bound: how often a recursive owner takes the mutex

ASSUME ThreadsAssumption == IsFiniteSet(Threads) /\ None \notin Threads
ASSUME SemMaxAssumption == SemMax \in Nat \ {0}
ASSUME MaxRecursionAssumption == MaxRecursion \in Nat \ {0}

VARIABLES
  magic,          \* "zero" (static initializer), "live" or "dead"
  type,           \* "normal", "errorcheck" or "recursive"
  robust,         \* whether data->robust is PTHREAD_MUTEX_ROBUST
  owner,          \* data->owner
  recursion,      \* data->recursion
  waiters,        \* data->waiters
  robust_state,   \* "consistent", "ownerdead" or "notrecoverable"
  semaphore,      \* the count of data->semaphore
  exited,         \* the threads whose control block has exited set
  pc,             \* where each thread is in a call
  mode            \* "lock", "try" or "timed": the call in progress

attrVars == <<magic, type, robust>>
lockVars == <<owner, recursion, robust_state>>
vars == <<magic, type, robust, owner, recursion, waiters, robust_state,
          semaphore, exited, pc, mode>>

Modes == {"lock", "try", "timed"}
Live == Threads \ exited

Goto(t, l) == pc' = [pc EXCEPT ![t] = l]

-----------------------------------------------------------------------------

\* PTHREAD_MUTEX_INITIALIZER storage, or a mutex pthread_mutex_init() built.
Init ==
  /\ \/ magic = "zero" /\ type = "normal" /\ robust = FALSE
     \/ /\ magic = "live"
        /\ type \in {"normal", "errorcheck", "recursive"}
        /\ robust \in BOOLEAN
  /\ owner = None
  /\ recursion = 0
  /\ waiters = 0
  /\ robust_state = "consistent"
  /\ semaphore = 0
  /\ exited = {}
  /\ pc = [t \in Threads |-> "idle"]
  /\ mode = [t \in Threads |-> "lock"]

\* mutex_ready(), first section, on a mutex that is ready.
Enter(t, m) ==
  /\ pc[t] = "idle"
  /\ magic = "live"
  /\ ~(owner = t /\ recursion >= MaxRecursion)
  /\ Goto(t, "loop")
  /\ mode' = [mode EXCEPT ![t] = m]
  /\ UNCHANGED <<attrVars, lockVars, waiters, semaphore, exited>>

\* mutex_ready(), first section, on a static initializer.
EnterZero(t, m) ==
  /\ pc[t] = "idle"
  /\ magic = "zero"
  /\ Goto(t, "create")
  /\ mode' = [mode EXCEPT ![t] = m]
  /\ UNCHANGED <<attrVars, lockVars, waiters, semaphore, exited>>

\* create_semaphore() fails: EAGAIN.
CreateFails(t) ==
  /\ pc[t] = "create"
  /\ Goto(t, "idle")
  /\ UNCHANGED <<attrVars, lockVars, waiters, semaphore, exited, mode>>

\* Mutant: the second section initialises without looking at magic again.
Ready_NoRecheck(t) ==
  /\ pc[t] = "create"
  /\ magic' = "live"
  /\ owner' = None
  /\ recursion' = 0
  /\ waiters' = 0
  /\ semaphore' = 0
  /\ Goto(t, "loop")
  /\ UNCHANGED <<type, robust, robust_state, exited, mode>>

\* mutex_ready(), second section.  The first thread publishes its semaphore
\* and zeroes the fields; a later one closes the semaphore it created.
Ready(t) ==
  /\ pc[t] = "create"
  /\ IF magic = "zero"
     THEN /\ magic' = "live"
          /\ owner' = None
          /\ recursion' = 0
          /\ waiters' = 0
          /\ semaphore' = 0
     ELSE UNCHANGED <<magic, owner, recursion, waiters, semaphore>>
  /\ Goto(t, "loop")
  /\ UNCHANGED <<type, robust, robust_state, exited, mode>>

-----------------------------------------------------------------------------

\* data->robust is set and the owner's control block says it has exited.
OwnerDead == robust /\ owner \in exited

\* mutex_acquire(): EOWNERDEAD, the mutex is inherited from a dead owner.
InheritFromDead(t) ==
  /\ pc[t] = "loop"
  /\ OwnerDead
  /\ owner' = t
  /\ recursion' = 1
  /\ robust_state' = "ownerdead"
  /\ Goto(t, "idle")
  /\ UNCHANGED <<attrVars, waiters, semaphore, exited, mode>>

\* mutex_acquire(): the mutex is free and recoverable.
Acquire(t) ==
  /\ pc[t] = "loop"
  /\ owner = None
  /\ robust => robust_state # "notrecoverable"
  /\ owner' = t
  /\ recursion' = 1
  /\ Goto(t, "idle")
  /\ UNCHANGED <<attrVars, robust_state, waiters, semaphore, exited, mode>>

\* mutex_acquire(): the owner of a recursive mutex takes it again.
Relock(t) ==
  /\ pc[t] = "loop"
  /\ owner = t
  /\ type = "recursive"
  /\ recursion' = recursion + 1
  /\ Goto(t, "idle")
  /\ UNCHANGED <<attrVars, owner, robust_state, waiters, semaphore, exited,
                 mode>>

\* mutex_acquire() returns an error from inside its section: ENOTRECOVERABLE,
\* EDEADLK, EBUSY, or ETIMEDOUT for a deadline already passed.
Refuse(t) ==
  /\ pc[t] = "loop"
  /\ ~OwnerDead
  /\ \/ owner = None /\ robust /\ robust_state = "notrecoverable"
     \/ /\ owner # None
        /\ \/ owner = t /\ type = "errorcheck"
           \/ mode[t] = "try" /\ ~(owner = t /\ type = "recursive")
           \/ mode[t] = "timed" /\ ~(owner = t /\ type = "recursive")
  /\ Goto(t, "idle")
  /\ UNCHANGED <<attrVars, lockVars, waiters, semaphore, exited, mode>>

\* mutex_acquire(): the call has to wait, and is counted before it sleeps.
\* The owner of a normal mutex waits for itself.
Block(t) ==
  /\ pc[t] = "loop"
  /\ ~OwnerDead
  /\ owner # None
  /\ owner = t => type = "normal"
  /\ mode[t] # "try"
  /\ waiters' = waiters + 1
  /\ Goto(t, "wait")
  /\ UNCHANGED <<attrVars, lockVars, semaphore, exited, mode>>

\* __plat_wait_one() returns OK: a post was consumed.
WaitOk(t) ==
  /\ pc[t] = "wait"
  /\ semaphore > 0
  /\ semaphore' = semaphore - 1
  /\ Goto(t, "woken")
  /\ UNCHANGED <<attrVars, lockVars, waiters, exited, mode>>

\* __plat_wait_one() returns INTR: an APC ran, nothing was consumed.
WaitInterrupted(t) ==
  /\ pc[t] = "wait"
  /\ Goto(t, "woken")
  /\ UNCHANGED <<attrVars, lockVars, waiters, semaphore, exited, mode>>

\* Mutant: a robust mutex is not polled.
WaitTimeout_NoPoll(t) ==
  /\ pc[t] = "wait"
  /\ mode[t] = "timed"
  /\ Goto(t, "late")
  /\ UNCHANGED <<attrVars, lockVars, waiters, semaphore, exited, mode>>

\* __plat_wait_one() returns TIMEOUT: the caller's deadline, or the poll
\* interval ROBUST_POLL_TICKS of a robust mutex.
WaitTimeout(t) ==
  /\ pc[t] = "wait"
  /\ mode[t] = "timed" \/ robust
  /\ Goto(t, "late")
  /\ UNCHANGED <<attrVars, lockVars, waiters, semaphore, exited, mode>>

\* __plat_wait_one() returns ERROR.
WaitError(t) ==
  /\ pc[t] = "wait"
  /\ Goto(t, "error")
  /\ UNCHANGED <<attrVars, lockVars, waiters, semaphore, exited, mode>>

\* The section after the sleep: no longer a waiter; then the loop runs again,
\* or the call returns ETIMEDOUT (not robust) or EINVAL.
AfterWait(t) ==
  /\ pc[t] \in {"woken", "late", "error"}
  /\ waiters' = IF waiters > 0 THEN waiters - 1 ELSE 0
  /\ Goto(t, IF pc[t] = "woken" \/ (pc[t] = "late" /\ robust)
             THEN "loop" ELSE "idle")
  /\ UNCHANGED <<attrVars, lockVars, semaphore, exited, mode>>

-----------------------------------------------------------------------------

\* Mutant: the mutex is given back without a look at the waiters.
Unlock_NoWake(t) ==
  /\ pc[t] = "idle"
  /\ owner = t
  /\ t \in Live
  /\ recursion' = recursion - 1
  /\ IF recursion = 1
     THEN /\ robust_state' = IF robust /\ robust_state = "ownerdead"
                             THEN "notrecoverable" ELSE robust_state
          /\ owner' = None
     ELSE UNCHANGED <<owner, robust_state>>
  /\ UNCHANGED <<attrVars, waiters, semaphore, exited, pc, mode>>

\* pthread_mutex_unlock() by the owner: the section, up to the decision to
\* wake.  (Unlocking a normal mutex one does not own is the caller's error.)
Unlock(t) ==
  /\ pc[t] = "idle"
  /\ owner = t
  /\ t \in Live
  /\ recursion' = recursion - 1
  /\ IF recursion = 1
     THEN /\ robust_state' = IF robust /\ robust_state = "ownerdead"
                             THEN "notrecoverable" ELSE robust_state
          /\ owner' = None
          /\ Goto(t, IF waiters # 0 THEN "post" ELSE "idle")
     ELSE UNCHANGED <<owner, robust_state, pc>>
  /\ UNCHANGED <<attrVars, waiters, semaphore, exited, mode>>

\* pthread_mutex_unlock(): the post, after the fast lock was released.  It
\* reads data->semaphore again: null when the mutex was destroyed meanwhile.
Post(t) ==
  /\ pc[t] = "post"
  /\ semaphore' = IF magic = "live" /\ semaphore < SemMax
                  THEN semaphore + 1 ELSE semaphore
  /\ Goto(t, "idle")
  /\ UNCHANGED <<attrVars, lockVars, waiters, exited, mode>>

\* pthread_mutex_consistent() when it returns 0.
MarkConsistent(t) ==
  /\ pc[t] = "idle"
  /\ magic = "live"
  /\ robust
  /\ owner = t
  /\ t \in Live
  /\ robust_state = "ownerdead"
  /\ robust_state' = "consistent"
  /\ UNCHANGED <<attrVars, owner, recursion, waiters, semaphore, exited, pc,
                 mode>>

\* finish() in pthread.c: the control block of a thread says it has exited.
Exit(t) ==
  /\ pc[t] = "idle"
  /\ t \in Live
  /\ exited' = exited \cup {t}
  /\ UNCHANGED <<attrVars, lockVars, waiters, semaphore, pc, mode>>

\* A call that is about to take the mutex, or to make it ready.
Acquiring(t) == pc[t] \in {"create", "loop"}

\* pthread_mutex_destroy() when it returns 0; a static initializer is made
\* ready first, by mutex_ready().  Destroying a mutex that another
\* thread is about to lock is the caller's error; one that was just unlocked
\* may be destroyed at once.
Destroy ==
  /\ magic # "dead"
  /\ \A t \in Threads : ~Acquiring(t)
  /\ owner = None
  /\ waiters = 0
  /\ magic' = "dead"
  /\ semaphore' = 0
  /\ UNCHANGED <<type, robust, lockVars, waiters, exited, pc, mode>>

\* pthread_mutex_init() on the storage of a destroyed mutex.
Reinit(ty, ro) ==
  /\ magic = "dead"
  /\ magic' = "live"
  /\ type' = ty
  /\ robust' = ro
  /\ owner' = None
  /\ recursion' = 0
  /\ waiters' = 0
  /\ robust_state' = "consistent"
  /\ semaphore' = 0
  /\ UNCHANGED <<exited, pc, mode>>

\* The steps a thread takes inside a call once it has begun.
InCall(t) ==
  \/ CreateFails(t)
  \/ Ready(t)
  \/ InheritFromDead(t)
  \/ Acquire(t)
  \/ Relock(t)
  \/ Refuse(t)
  \/ Block(t)
  \/ WaitOk(t)
  \/ WaitInterrupted(t)
  \/ WaitTimeout(t)
  \/ WaitError(t)
  \/ AfterWait(t)
  \/ Post(t)

Next ==
  \/ \E t \in Live, m \in Modes : Enter(t, m)
  \/ \E t \in Live, m \in Modes : EnterZero(t, m)
  \/ \E t \in Threads : InCall(t)
  \/ \E t \in Threads : Unlock(t)
  \/ \E t \in Threads : MarkConsistent(t)
  \/ \E t \in Threads : Exit(t)
  \/ Destroy
  \/ \E ty \in {"normal", "errorcheck", "recursive"}, ro \in BOOLEAN :
        Reinit(ty, ro)

Spec == Init /\ [][Next]_vars

\* The steps the scheduler and the clock owe a thread: it runs, a post wakes
\* it, its deadline or poll interval passes.
Progress(t) ==
  \/ Ready(t)
  \/ InheritFromDead(t)
  \/ Acquire(t)
  \/ Relock(t)
  \/ Refuse(t)
  \/ Block(t)
  \/ WaitOk(t)
  \/ WaitTimeout(t)
  \/ AfterWait(t)
  \/ Post(t)

-----------------------------------------------------------------------------

Sleepers == {t \in Threads : pc[t] \in {"wait", "woken", "late", "error"}}

\* A call that has begun to acquire the mutex and has not returned.
InLock(t) == pc[t] = "loop" \/ t \in Sleepers

TypeOK ==
  /\ magic \in {"zero", "live", "dead"}
  /\ type \in {"normal", "errorcheck", "recursive"}
  /\ robust \in BOOLEAN
  /\ owner \in Threads \cup {None}
  /\ recursion \in 0..MaxRecursion
  /\ waiters \in Nat
  /\ robust_state \in {"consistent", "ownerdead", "notrecoverable"}
  /\ semaphore \in 0..SemMax
  /\ exited \subseteq Threads
  /\ pc \in [Threads -> {"idle", "create", "loop", "wait", "woken", "late",
                         "error", "post"}]
  /\ mode \in [Threads -> Modes]

\* data->waiters is the number of threads between its increment and its
\* decrement in mutex_acquire(), so pthread_mutex_destroy() returns EBUSY as
\* long as a thread may sleep on the semaphore it would close.
WaitersCounted == waiters = Cardinality(Sleepers)

\* No wakeup is lost although the post happens after the mutex was given back
\* and a newcomer may take the mutex first: while a stalled mutex is free and
\* a thread sleeps on it, a post is there or on its way, or another thread is
\* about to look at the mutex.
NoLostWakeup ==
  (magic = "live" /\ ~robust /\ owner = None
     /\ \E t \in Threads : pc[t] = "wait")
  => \/ semaphore > 0
     \/ \E t \in Threads : pc[t] \in {"post", "woken", "loop"}

\* Lazy initialisation happens once: no thread acquires or waits on a mutex
\* that a second initialiser could still zero.
ReadyBeforeUse ==
  magic = "zero" => owner = None /\ \A t \in Threads : ~InLock(t)

\* The mutex implements what its callers are promised.  A robust mutex is
\* dirty from the death of its owner on, although the code only records that
\* when the next caller finds the dead owner.
Abstract == INSTANCE AbstractMutex WITH
  count <- recursion,
  dirty <- robust /\ (robust_state # "consistent" \/ owner \in exited),
  lost <- robust_state = "notrecoverable",
  dead <- exited

ImplementsMutex == Abstract!Spec

\* A stalled mutex does not stay free while threads wait for it.
FreeMutexTaken ==
  []<>(~robust => owner # None \/ \A t \in Threads : ~InLock(t))

\* The poll of a robust mutex finds a dead owner as long as anybody waits.
DeathNoticed == []<>(~OwnerDead \/ \A t \in Threads : ~InLock(t))

\* __plat_sync_close() may be called "once no caller will wait on, post, or
\* set it again": no thread is about to post the semaphore of a mutex that
\* has been destroyed.
NoPostAfterDestroy == magic = "dead" => \A t \in Threads : pc[t] # "post"

-----------------------------------------------------------------------------

\* The strengthening that makes the invariants above inductive.  Who owns the
\* mutex, how often, and what that says about the robust state.
OwnershipConsistent ==
  /\ recursion = 0 <=> owner = None
  /\ magic # "live" => owner = None
  /\ ~robust => robust_state = "consistent"
  /\ owner = None => robust_state # "ownerdead"
  /\ robust_state = "notrecoverable" => owner = None

\* Only live threads are inside calls, and which calls can be in progress.
CallsConsistent ==
  /\ \A t \in Threads : pc[t] # "idle" => t \in Live
  /\ \A t \in Threads : pc[t] = "create" => owner # t
  /\ \A t \in Threads : InLock(t) /\ owner = t => recursion < MaxRecursion
  /\ magic = "dead" => \A t \in Threads : pc[t] \in {"idle", "post"}

IInv ==
  /\ TypeOK
  /\ WaitersCounted
  /\ NoLostWakeup
  /\ ReadyBeforeUse
  /\ OwnershipConsistent
  /\ CallsConsistent
=============================================================================

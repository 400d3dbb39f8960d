------------------------------- MODULE RwLock -------------------------------
(***************************************************************************)
(* The process-private pthread_rwlock_t of src/src/thread/pthread_rwlock.c. *)
(*                                                                         *)
(* Every section between __plat_fast_lock() and __plat_fast_unlock() is    *)
(* one action: the fast lock is process-wide and nothing in a section      *)
(* blocks.  What the code does between two sections (allocating a waiter,  *)
(* sleeping on its semaphore) separates two actions.                       *)
(*                                                                         *)
(* The doubly linked list head..tail is the set queue together with, for   *)
(* each queued thread, the set ahead[t] of the waiters linked before its   *)
(* own.  A waiter is identified with the thread that sleeps on it: a       *)
(* thread is in one call at a time.                                        *)
(***************************************************************************)
EXTENDS Integers, FiniteSets

CONSTANTS
  Threads,      \* the threads that use the lock
  Priorities,   \* the values sched_priority takes
  Restless,     \* the threads whose priority may change
  MaxHold,      \* bound: read locks one thread holds at the same time
  None          \* the null pthread_t

ASSUME ThreadsAssumption == IsFiniteSet(Threads) /\ None \notin Threads
ASSUME RestlessAssumption == Restless \subseteq Threads

\* sched_priority ranges over a small interval of naturals, so every set of
\* priorities that is not empty has a largest member.
ASSUME PrioritiesAssumption ==
  /\ Priorities \subseteq Nat
  /\ \A S \in SUBSET Priorities :
        S # {} => \E m \in S : \A n \in S : n <= m

ASSUME MaxHoldAssumption == MaxHold \in Nat \ {0}

VARIABLES
  magic,            \* "zero" (static initializer), "live" or "dead"
  writer,           \* data->writer
  readers,          \* data->readers
  waiting_writers,  \* data->waiting_writers
  queue,            \* the linked waiters
  ahead,            \* the linked waiters before each linked waiter
  semaphore,        \* count of each waiter's semaphore (maximum 1)
  sched_priority,   \* thread->sched_priority
  pc,               \* where each thread is in rwlock_acquire()
  write,            \* the write argument of the call in progress
  timed,            \* whether that call has a deadline that can pass
  depth             \* read locks each thread has been granted

lockVars == <<magic, writer, readers, waiting_writers, queue, ahead>>
callVars == <<pc, write, timed>>
vars == <<magic, writer, readers, waiting_writers, queue, ahead, semaphore,
          sched_priority, pc, write, timed, depth>>

-----------------------------------------------------------------------------

\* max_waiting_writer_priority(q) < priority of t.  The sentinel -1 lies
\* below every priority, so it is the case of no queued writer.
OutranksWriters(t, q) ==
  \A x \in q : write[x] => sched_priority[x] < sched_priority[t]

\* Mutant: a writer does not look at the readers.
Available_IgnoreReaders(t, w) ==
  /\ writer = None
  /\ ~w => OutranksWriters(t, queue)

\* rwlock_try_immediate(): available, for a call of thread t.
Available(t, w) ==
  /\ writer = None
  /\ IF w THEN readers = 0 ELSE OutranksWriters(t, queue)

\* rwlock_try_immediate(): the acquisition it records.
Record(t, w) ==
  IF w THEN writer' = t /\ UNCHANGED <<readers, depth>>
       ELSE /\ readers' = readers + 1
            /\ depth' = [depth EXCEPT ![t] = @ + 1]
            /\ UNCHANGED writer

\* wake_waiters(): the queued readers the first loop admits.
AdmittedReaders(q) == {x \in q : ~write[x] /\ OutranksWriters(x, q)}

\* Mutant: ">=" in place of ">", the last writer of the highest priority.
BestWriter_LastInList(x, q) ==
  /\ write[x]
  /\ \A y \in q : write[y] => sched_priority[y] <= sched_priority[x]
  /\ \A y \in q : write[y] /\ x \in ahead[y] =>
        sched_priority[y] < sched_priority[x]

\* wake_waiters(): the second loop's best, the first writer in the list of
\* the highest priority.
BestWriter(x, q) ==
  /\ write[x]
  /\ \A y \in q : write[y] => sched_priority[y] <= sched_priority[x]
  /\ \A y \in ahead[x] \cap q :
        write[y] => sched_priority[y] < sched_priority[x]

\* Mutant: the writer that is handed the lock is not posted.
Posted_ReadersOnly(woken) ==
  [t \in Threads |-> IF t \in woken /\ ~write[t] THEN 1 ELSE semaphore[t]]

\* __plat_semaphore_post() to the waiter of every thread in woken.
Posted(woken) ==
  [t \in Threads |-> IF t \in woken THEN 1 ELSE semaphore[t]]

\* wake_waiters() on a lock whose fields are w, r, ww and whose list is q.
\* unlink_waiter() and the semaphore post of every admitted waiter are part
\* of it, and so is the ghost count of what the callers were granted.
WakeWaiters(w, r, ww, q, d) ==
  LET admitted == IF w # None THEN {} ELSE AdmittedReaders(q)
      r1 == r + Cardinality(admitted)
      handOff == w = None /\ r1 = 0 /\ ww # 0
      best == CHOOSE b \in q : BestWriter(b, q)
      gone == admitted \cup (IF handOff THEN {best} ELSE {})
  IN /\ writer' = IF handOff THEN best ELSE w
     /\ readers' = r1
     /\ waiting_writers' = IF handOff THEN ww - 1 ELSE ww
     /\ queue' = q \ gone
     /\ ahead' = [t \in Threads |->
                    IF t \in q \ gone THEN ahead[t] \cap (q \ gone) ELSE {}]
     /\ semaphore' = Posted(gone)
     /\ depth' = [t \in Threads |->
                    IF t \in admitted THEN d[t] + 1 ELSE d[t]]

\* Mutant: the waiter is unlinked and nobody is woken.
UnlinkAndWake_NoWake(t) ==
  /\ waiting_writers' = IF write[t] THEN waiting_writers - 1
                                    ELSE waiting_writers
  /\ queue' = queue \ {t}
  /\ ahead' = [u \in Threads |-> IF u = t THEN {} ELSE ahead[u] \ {t}]
  /\ UNCHANGED <<writer, readers, semaphore, depth>>

\* The fields of the lock after unlink_waiter(t), then wake_waiters().
UnlinkAndWake(t) ==
  WakeWaiters(writer, readers,
              IF write[t] THEN waiting_writers - 1 ELSE waiting_writers,
              queue \ {t}, depth)

\* free(waiter) and the return from rwlock_acquire().
Return(t, to) ==
  /\ pc' = [pc EXCEPT ![t] = to]
  /\ write' = [write EXCEPT ![t] = FALSE]
  /\ timed' = [timed EXCEPT ![t] = FALSE]

-----------------------------------------------------------------------------

Init ==
  /\ magic = "zero"
  /\ writer = None
  /\ readers = 0
  /\ waiting_writers = 0
  /\ queue = {}
  /\ ahead = [t \in Threads |-> {}]
  /\ semaphore = [t \in Threads |-> 0]
  /\ sched_priority \in [Threads -> Priorities]
  /\ pc = [t \in Threads |-> "idle"]
  /\ write = [t \in Threads |-> FALSE]
  /\ timed = [t \in Threads |-> FALSE]
  /\ depth = [t \in Threads |-> 0]

\* rwlock_ready() and the first section of rwlock_acquire(), when the lock is
\* available: rdlock, wrlock, the try and the timed variants alike.
AcquireImmediately(t, w) ==
  /\ pc[t] = "idle"
  /\ magic # "dead"
  /\ ~w => depth[t] < MaxHold
  /\ Available(t, w)
  /\ Record(t, w)
  /\ magic' = "live"
  /\ UNCHANGED <<waiting_writers, queue, ahead, semaphore, sched_priority,
                 pc, write, timed>>

\* The first section when the lock is not available and the call may block:
\* the caller is not the writer (EDEADLK) and has a deadline.  The try
\* variants return EBUSY here and change nothing.  A wrlock of a thread that
\* holds a read lock is the caller's own deadlock and is not made.
AcquireMustWait(t, w, d) ==
  /\ pc[t] = "idle"
  /\ magic # "dead"
  /\ w => depth[t] = 0
  /\ ~w => depth[t] < MaxHold
  /\ ~Available(t, w)
  /\ writer # t
  /\ pc' = [pc EXCEPT ![t] = "allocate"]
  /\ write' = [write EXCEPT ![t] = w]
  /\ timed' = [timed EXCEPT ![t] = d]
  /\ magic' = "live"
  /\ UNCHANGED <<writer, readers, waiting_writers, queue, ahead, semaphore,
                 sched_priority, depth>>

\* calloc() or __plat_semaphore_create() fails: EAGAIN.
AllocateFails(t) ==
  /\ pc[t] = "allocate"
  /\ Return(t, "idle")
  /\ UNCHANGED <<lockVars, semaphore, sched_priority, depth>>

\* The second section: the lock may have become available meanwhile.
AcquireAfterAllocate(t) ==
  /\ pc[t] = "allocate"
  /\ Available(t, write[t])
  /\ Record(t, write[t])
  /\ Return(t, "idle")
  /\ UNCHANGED <<magic, waiting_writers, queue, ahead, semaphore,
                 sched_priority>>

\* Mutant: the second section does not try again before it links.
Enqueue_NoSecondTry(t) ==
  /\ pc[t] = "allocate"
  /\ queue' = queue \cup {t}
  /\ ahead' = [ahead EXCEPT ![t] = queue]
  /\ waiting_writers' = IF write[t] THEN waiting_writers + 1
                                    ELSE waiting_writers
  /\ semaphore' = [semaphore EXCEPT ![t] = 0]
  /\ pc' = [pc EXCEPT ![t] = "wait"]
  /\ UNCHANGED <<magic, writer, readers, sched_priority, write, timed, depth>>

\* The second section links the waiter at the tail; the semaphore is fresh.
Enqueue(t) ==
  /\ pc[t] = "allocate"
  /\ ~Available(t, write[t])
  /\ queue' = queue \cup {t}
  /\ ahead' = [ahead EXCEPT ![t] = queue]
  /\ waiting_writers' = IF write[t] THEN waiting_writers + 1
                                    ELSE waiting_writers
  /\ semaphore' = [semaphore EXCEPT ![t] = 0]
  /\ pc' = [pc EXCEPT ![t] = "wait"]
  /\ UNCHANGED <<magic, writer, readers, sched_priority, write, timed, depth>>

\* __plat_wait_one() returns OK: the post was consumed and the call returns 0.
Woken(t) ==
  /\ pc[t] = "wait"
  /\ semaphore[t] = 1
  /\ semaphore' = [semaphore EXCEPT ![t] = 0]
  /\ Return(t, "idle")
  /\ UNCHANGED <<lockVars, sched_priority, depth>>

\* The deadline passes while the waiter is linked: ETIMEDOUT.
TimeoutLinked(t) ==
  /\ pc[t] = "wait"
  /\ timed[t]
  /\ t \in queue
  /\ UnlinkAndWake(t)
  /\ Return(t, "idle")
  /\ UNCHANGED <<magic, sched_priority>>

\* The deadline passes after a waker unlinked the waiter: the call owns the
\* lock and returns 0.  The semaphore is closed with its post unconsumed.
TimeoutGranted(t) ==
  /\ pc[t] = "wait"
  /\ timed[t]
  /\ t \notin queue
  /\ semaphore' = [semaphore EXCEPT ![t] = 0]
  /\ Return(t, "idle")
  /\ UNCHANGED <<lockVars, sched_priority, depth>>

\* wait_cleanup() on its own: an asynchronous cancellation ends the thread, a
\* failed wait returns EINVAL.  Neither knows of a grant made before.
Abandon(t) ==
  /\ pc[t] = "wait"
  /\ IF t \in queue
     THEN UnlinkAndWake(t)
     ELSE /\ semaphore' = [semaphore EXCEPT ![t] = 0]
          /\ UNCHANGED <<writer, readers, waiting_writers, queue, ahead, depth>>
  /\ \E to \in {"gone", "idle"} : Return(t, to)
  /\ UNCHANGED <<magic, sched_priority>>

\* pthread_rwlock_unlock() by a thread that holds the lock.
Unlock(t) ==
  /\ pc[t] = "idle"
  /\ writer = t \/ depth[t] > 0
  /\ IF writer = t
     THEN WakeWaiters(None, readers, waiting_writers, queue, depth)
     ELSE WakeWaiters(writer, readers - 1, waiting_writers, queue,
                      [depth EXCEPT ![t] = @ - 1])
  /\ UNCHANGED <<magic, sched_priority, pc, write, timed>>

\* pthread_rwlock_destroy() when it does not return EBUSY.  A destroy while a
\* call is between its two sections is the caller's error and is not made.
Destroy ==
  /\ magic # "dead"
  /\ \A t \in Threads : pc[t] # "allocate"
  /\ writer = None
  /\ readers = 0
  /\ queue = {}
  /\ magic' = "dead"
  /\ UNCHANGED <<writer, readers, waiting_writers, queue, ahead, semaphore,
                 sched_priority, callVars, depth>>

\* pthread_setschedparam() on a thread, queued or not.
SetSchedParam(t, p) ==
  /\ sched_priority' = [sched_priority EXCEPT ![t] = p]
  /\ UNCHANGED <<lockVars, semaphore, callVars, depth>>

Next ==
  \/ \E t \in Threads, w \in BOOLEAN : AcquireImmediately(t, w)
  \/ \E t \in Threads, w, d \in BOOLEAN : AcquireMustWait(t, w, d)
  \/ \E t \in Threads : AllocateFails(t)
  \/ \E t \in Threads : AcquireAfterAllocate(t)
  \/ \E t \in Threads : Enqueue(t)
  \/ \E t \in Threads : Woken(t)
  \/ \E t \in Threads : TimeoutLinked(t)
  \/ \E t \in Threads : TimeoutGranted(t)
  \/ \E t \in Threads : Unlock(t)
  \/ \E t \in Threads : Abandon(t)
  \/ Destroy
  \/ \E t \in Restless, p \in Priorities : SetSchedParam(t, p)

Spec == Init /\ [][Next]_vars

-----------------------------------------------------------------------------

QueuedWriters(q) == {t \in q : write[t]}

\* The read locks granted and not yet released, one element for each.
ReadHolds(d) == {h \in Threads \X (1..MaxHold) : h[2] <= d[h[1]]}

TypeOK ==
  /\ magic \in {"zero", "live", "dead"}
  /\ writer \in Threads \cup {None}
  /\ readers \in Nat
  /\ waiting_writers \in Nat
  /\ queue \subseteq Threads
  /\ ahead \in [Threads -> SUBSET Threads]
  /\ semaphore \in [Threads -> {0, 1}]
  /\ sched_priority \in [Threads -> Priorities]
  /\ pc \in [Threads -> {"idle", "allocate", "wait", "gone"}]
  /\ write \in [Threads -> BOOLEAN]
  /\ timed \in [Threads -> BOOLEAN]
  /\ depth \in [Threads -> 0..MaxHold]

\* While the lock has a writer it has no reader, and its count of readers is
\* the number of read locks that callers were granted and have not released:
\* wake_waiters() grants from a list that timeouts and unlocks change at the
\* same time.
Exclusion ==
  /\ writer # None => readers = 0
  /\ readers = Cardinality(ReadHolds(depth))

\* No wakeup is lost: a lock that nobody holds has no waiter linked, whatever
\* unlocks, timeouts and cleanups happened while the list was being built.
NoStrandedWaiter == (writer = None /\ readers = 0) => queue = {}

\* waiting_writers counts the linked writers, so that wake_waiters() finds a
\* best writer (never a null pointer) whenever the counter is not zero.
WaitingWritersCounted ==
  /\ waiting_writers = Cardinality(QueuedWriters(queue))
  /\ waiting_writers # 0 => \E x \in queue : BestWriter(x, queue)

\* A sleeping thread is linked exactly as long as its semaphore is not posted,
\* and once it is posted the thread owns the lock it sleeps for: a timeout
\* that finds the waiter unlinked may return 0.
GrantMatchesPost ==
  \A t \in Threads : pc[t] = "wait" =>
    /\ t \in queue <=> semaphore[t] = 0
    /\ t \notin queue => IF write[t] THEN writer = t ELSE depth[t] > 0

\* Nothing looks at the list again when the priority of a queued thread
\* changes, so order is promised while no such thread is queued.
Settled == queue \cap Restless = {}

\* A queued reader is held back by a writer that owns the lock or by a queued
\* writer of at least its priority, never by another reader: whoever leaves
\* the list lets the readers in that it held back.
NoEligibleReaderWaits ==
  (writer = None /\ Settled)
  => \A t \in queue : ~write[t] => ~OutranksWriters(t, queue)

\* The threads a step gives the lock to.
Admitted ==
  {t \in Threads : \/ writer' = t /\ writer # t
                   \/ depth'[t] > depth[t]}

\* A grant leaves no waiter behind of higher priority, nor one of equal
\* priority unless a writer was preferred to a reader or to a writer linked
\* later.
GrantsInOrder ==
  Settled => \A a \in Admitted, b \in queue \cap queue' :
    \/ sched_priority[b] < sched_priority[a]
    \/ /\ sched_priority[b] = sched_priority[a]
       /\ write[a] \/ (pc[a] = "idle" /\ writer' = a)
       /\ write[b] => a \in ahead[b]

\* Locks are granted in priority order, by wake_waiters() to the list it finds
\* and by rwlock_try_immediate() to a caller that overtakes the list.
PriorityOrder == [][GrantsInOrder]_vars

-----------------------------------------------------------------------------

\* The strengthening that makes the invariants above inductive.  The list is
\* linked in order: every set of linked waiters has a first one.
QueueOrder(q) ==
  \A S \in SUBSET q : S # {} => \E x \in S : ahead[x] \cap S = {}

\* Every linked waiter belongs to a thread asleep in rwlock_acquire(), only
\* linked waiters are ahead of another, and a reader that is not granted yet
\* is below the bound on read locks.
CallsConsistent ==
  /\ \A t \in queue : pc[t] = "wait"
  /\ \A t \in Threads : ahead[t] \subseteq queue
  /\ \A t \in Threads : (pc[t] = "allocate" \/ t \in queue) /\ ~write[t]
                           => depth[t] < MaxHold

IInv ==
  /\ TypeOK
  /\ Exclusion
  /\ NoStrandedWaiter
  /\ waiting_writers = Cardinality(QueuedWriters(queue))
  /\ GrantMatchesPost
  /\ QueueOrder(queue)
  /\ CallsConsistent

\* Of two linked waiters one was linked before the other.
ListTotal ==
  \A x, y \in queue : x # y => x \in ahead[y] \/ y \in ahead[x]

\* What the order of the grants rests on, besides IInv.
OrderInv == NoEligibleReaderWaits /\ ListTotal
=============================================================================

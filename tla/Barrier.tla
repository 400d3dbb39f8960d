-------------------------------- MODULE Barrier --------------------------------
(***************************************************************************)
(* pthread_barrier_t: src/src/thread/pthread_sync.c.                       *)
(*                                                                         *)
(* The arrivals of one generation are counted under the fast lock (the     *)
(* guard word for a process-shared barrier).  A caller that is not the     *)
(* last one sleeps on an event of its own, linked into the barrier; when   *)
(* the event cannot be created, and always when the barrier is shared, it  *)
(* polls the generation instead.                                           *)
(***************************************************************************)
EXTENDS Naturals, FiniteSets

CONSTANTS
  Threads,
  Count,        \* the count given to pthread_barrier_init()
  Generations,  \* the modulus of the generation word, 2^32 in the code
  Private,      \* PTHREAD_PROCESS_PRIVATE
  EarlyReuse    \* whether the program initializes a destroyed barrier again
                \* before all callers of pthread_barrier_wait() are back

ASSUME BarrierAssumption ==
  /\ IsFiniteSet(Threads)
  /\ Count \in 1 .. Cardinality(Threads)
  /\ Generations \in Nat /\ Generations > 1
  /\ Private \in BOOLEAN
  /\ EarlyReuse \in BOOLEAN

VARIABLES
  live,        \* data->magic is BARRIER_MAGIC
  generation,  \* data->generation
  waiting,     \* data->waiting
  linked,      \* the callers on data->waiters
  event,       \* the callers whose event is set
  mygen,       \* each caller's local generation, 0 outside a call
  pc           \* where each thread is

vars == <<live, generation, waiting, linked, event, mygen, pc>>

Init ==
  /\ live = TRUE
  /\ generation = 0
  /\ waiting = 0
  /\ linked = {}
  /\ event = {}
  /\ mygen = [t \in Threads |-> 0]
  /\ pc = [t \in Threads |-> "out"]

-----------------------------------------------------------------------------

\* wake_barrier_waiters_locked().
Woken == {t \in linked : mygen[t] = generation}

\* A bound: no poller sleeps through 2^32 generations, the time the word needs
\* to come round to the caller's value again.
NotLapped ==
  \A t \in Threads :
    pc[t] = "poll" => mygen[t] # (generation + 1) % Generations

\* pthread_barrier_wait() by the caller that completes a generation: it wakes
\* the others and returns PTHREAD_BARRIER_SERIAL_THREAD.
Complete(t) ==
  /\ live
  /\ pc[t] = "out"
  /\ waiting + 1 = Count
  /\ NotLapped
  /\ waiting' = 0
  /\ generation' = (generation + 1) % Generations
  /\ event' = event \cup Woken
  /\ UNCHANGED <<live, linked, mygen, pc>>

\* pthread_barrier_wait() by any other caller, with an event of its own if the
\* barrier is private and the event could be created.
Arrive(t) ==
  /\ live
  /\ pc[t] = "out"
  /\ waiting + 1 < Count
  /\ waiting' = waiting + 1
  /\ mygen' = [mygen EXCEPT ![t] = generation]
  /\ \/ /\ Private
        /\ linked' = linked \cup {t}
        /\ event' = event \ {t}
        /\ pc' = [pc EXCEPT ![t] = "sleep"]
     \/ /\ pc' = [pc EXCEPT ![t] = "poll"]
        /\ UNCHANGED <<linked, event>>
  /\ UNCHANGED <<live, generation>>

\* Mutant: an interrupted wait counts as a wakeup.
WaitOk_Interrupted(t) ==
  /\ pc[t] = "sleep"
  /\ pc' = [pc EXCEPT ![t] = "unlink"]
  /\ UNCHANGED <<live, generation, waiting, linked, event, mygen>>

\* __plat_wait_one() on the caller's own event; it is retried when interrupted.
WaitOk(t) ==
  /\ pc[t] = "sleep"
  /\ t \in event
  /\ pc' = [pc EXCEPT ![t] = "unlink"]
  /\ UNCHANGED <<live, generation, waiting, linked, event, mygen>>

\* __plat_wait_one() fails: only INTR is told apart from OK, and the caller
\* leaves, its generation complete or not.
WaitError(t) ==
  /\ pc[t] = "sleep"
  /\ pc' = [pc EXCEPT ![t] = "error"]
  /\ UNCHANGED <<live, generation, waiting, linked, event, mygen>>

\* The call returns, and its locals are gone.
Back(t) ==
  /\ pc' = [pc EXCEPT ![t] = "out"]
  /\ mygen' = [mygen EXCEPT ![t] = 0]

\* unlink_barrier_waiter_locked(); the event is closed.
Unlink(t) ==
  /\ pc[t] \in {"unlink", "error"}
  /\ linked' = linked \ {t}
  /\ event' = event \ {t}
  /\ Back(t)
  /\ UNCHANGED <<live, generation, waiting>>

\* Mutant: the loop waits for the generation after the caller's.
Poll_Exact(t) ==
  /\ pc[t] = "poll"
  /\ generation = (mygen[t] + 1) % Generations
  /\ Back(t)
  /\ UNCHANGED <<live, generation, waiting, linked, event>>

\* The loop on data->generation ends.
Poll(t) ==
  /\ pc[t] = "poll"
  /\ generation # mygen[t]
  /\ Back(t)
  /\ UNCHANGED <<live, generation, waiting, linked, event>>

\* pthread_barrier_destroy(); it returns EBUSY while callers are counted.
Destroy(t) ==
  /\ pc[t] = "out"
  /\ live
  /\ waiting = 0
  /\ live' = FALSE
  /\ UNCHANGED <<generation, waiting, linked, event, mygen, pc>>

\* pthread_barrier_init() of the same storage.
Reinit(t) ==
  /\ EarlyReuse \/ \A u \in Threads : pc[u] = "out"
  /\ pc[t] = "out"
  /\ ~live
  /\ live' = TRUE
  /\ generation' = 0
  /\ waiting' = 0
  /\ linked' = {}
  /\ UNCHANGED <<event, mygen, pc>>

Return(t) == WaitOk(t) \/ Unlink(t) \/ Poll(t)

Next ==
  \E t \in Threads :
    Complete(t) \/ Arrive(t) \/ Return(t) \/ WaitError(t) \/ Destroy(t)
      \/ Reinit(t)

Spec == Init /\ [][Next]_vars

\* A caller that has something to do is run; a poller sees the generation
\* again and again.
LiveSpec == Spec /\ \A t \in Threads : WF_vars(Return(t))

-----------------------------------------------------------------------------

TypeOK ==
  /\ live \in BOOLEAN
  /\ generation \in 0 .. Generations - 1
  /\ waiting \in 0 .. Count - 1
  /\ linked \subseteq Threads
  /\ event \subseteq Threads
  /\ mygen \in [Threads -> 0 .. Generations - 1]
  /\ pc \in [Threads -> {"out", "sleep", "unlink", "error", "poll"}]

\* The callers whose generation has not completed, and the others.
Inside ==
  {t \in Threads : \/ pc[t] \in {"sleep", "error"} /\ t \notin event
                   \/ pc[t] = "poll" /\ mygen[t] = generation}
Released == {t \in Threads : pc[t] # "out"} \ Inside

Abstract == INSTANCE AbstractBarrier WITH
  arrived <- waiting,
  inside <- Inside,
  released <- Released,
  excused <- {t \in Threads : pc[t] = "error"}

\* Sleepers and pollers together are released by the arrival that completes
\* their generation, all of them, and by nothing else but a failing wait.
ImplementsBarrier == Abstract!Spec

\* Every caller whose event is not set yet is on the list with the current
\* generation, so the completing arrival wakes it.
SleepersReachable ==
  \A t \in Threads :
    (pc[t] \in {"sleep", "error"} /\ t \notin event) =>
      t \in linked /\ mygen[t] = generation

\* The inductive invariant: a destroyed barrier counts nobody.
IInv == TypeOK /\ SleepersReachable /\ (live \/ waiting = 0)

\* A caller whose generation completed returns
\* ("zero shall be returned to each of the remaining threads").
ReleasedReturn ==
  \A t \in Threads : (t \in Released) ~> (pc[t] = "out")
=============================================================================

# A verification of spicule's thread library

spicule is a C library, a shell and a set of POSIX utilities that run directly on
the NT system calls (`ntdll`) or on raw Linux system calls. This directory holds
TLA+ models of its concurrent core, the TLC runs that check them on small
instances, and TLAPS proofs of the results that matter most. Paths below are
relative to the directory that contains `src/`, the repository, and `tla/`.

## 1. Inventory

### 1.1 How the parts interact

Programs call the library; the library's portable front door (`src/src/<subsystem>/`)
calls a small platform layer (`src/src/internal/plat_*.h`, implemented under `nt/` and
`linux/` in each subsystem). The thread library is the part where steps of several
actors meet:

- Every object of the thread library keeps its state inside the caller's storage or a
  control block, and changes it under one process-wide lock, `__plat_fast_lock()`. A
  section between lock and unlock is atomic. What makes the code hard is what happens
  *between* sections: a caller allocates, sleeps, posts or closes without the lock and
  goes on with what it read before.
- Sleeping is done on a semaphore or an event of the platform layer. A wait ends with
  OK, TIMEOUT, INTR (an alert on NT) or ERROR, and each front door treats these differently.
- On NT, owning the fast lock defers cancellation (`src/src/internal/libc.h:1095-1103`),
  because an asynchronous cancellation changes the instruction pointer of its target. On
  Linux the lock is a plain spin lock (`src/src/thread/linux/plat_thread.c:641-670`).
- Named semaphores and message queues are shared by processes. Their state is in files, their
  locks and counts are named kernel objects, and any process can die between two steps. Asynchronous
  I/O has a worker thread and a lock of its own, `__sig_lock()`, with events to wait on.
- Condition variables call the mutex, `pthread_once()` and the waits run cleanup handlers
  of the cancellation code, the end of a thread changes the state that robust mutexes read,
  and the priority of a thread (`pthread_setschedparam()`) is read by the read-write lock.

### 1.2 Components

| Component | State | Operations | What makes it correct |
|---|---|---|---|
| read-write lock (`pthread_rwlock.c`) | writer, readers, waiting_writers, waiter list with a semaphore per waiter | rdlock, wrlock, try and timed forms, unlock, destroy | exclusion; no waiter left linked on a free lock; a grant and a post always together; priority order |
| mutex (`pthread_mutex.c`) | owner, recursion, waiters, robust_state, one semaphore | lock, trylock, timedlock, unlock, consistent, init, destroy, end of an owner | one owner; a wakeup for every free mutex with sleepers; deaths noticed; lazy initialization once |
| condition variable (`pthread_cond.c`) | waiter list (head, tail), a semaphore per waiter | wait, timedwait, signal, broadcast, destroy, cleanup | no signal lost between unlock and sleep; a signal is never reported as a timeout; no dead waiter linked |
| thread life (`pthread.c`) | per thread: detached, exited, joining, joined, handle; live_threads | create, exit, join, detach | handle closed once; only the last thread exits the process |
| cancellation (`pthread_cancel.c`) | per thread: state, type, pending, queued, running, deferral depth | cancel, testcancel, setcancelstate, setcanceltype, deferral enter and leave, redirection | cleanup once; never while the lock is owned; every suspension undone; requests acted on |
| barrier (`pthread_sync.c`) | count, waiting, generation, waiter list | init, wait, destroy | nobody leaves before all came; generations not confused |
| once (`pthread_tsd.c`) | the control word; a list shared by all controls | pthread_once, cleanup | one initializer; everybody returns |
| spin lock (`pthread_sync.c`) | a word | lock, trylock, unlock, destroy | exclusion |
| thread-specific data (`pthread_tsd.c`) | key slots with generations, a table per thread | key create, delete, get, set, destructors | a stale key never reads a new key's value; destructor rounds bounded |
| fork handlers (`pthread_atfork.c`) | the handler array | atfork, prepare, parent, child | order; the array is stable during a fork |
| semaphores (`semaphore.c`) | table of named entries, records on disk, platform semaphore | open, close, unlink, wait, post | one entry and one semaphore per linked name; recovery of a dead record |
| message queues (`mqueue.c`) | queue file, semaphores lock, items, spaces; notification | open, send, receive, notify, close, unlink | tokens match messages; order by priority; one notification |
| asynchronous I/O (`aio.c`) | request list, worker, groups, suspended callers | read, write, fsync, lio_listio, suspend, cancel, return | every request completes once; no suspended caller left; exit waits for the worker |
| platform synchronization (`linux/plat_thread.c`, `nt/plat_thread.c`) | futex words, start gate | events, semaphores, suspend, resume, wait | no lost futex wakeup; a gate opens once |
| signals, processes, exit, IPC, stdio | masks and pending sets; children; handler list; shared tables; buffers | see the components in `PROJECT.json` | planned for later extensions |
| files, sockets, terminals, loading, strings, numbers, patterns, time | mostly none of their own | translations of kernel calls and pure functions | covered by the repository's tests; not modelled |
| shell, utilities, startup code | sequential programs | | not modelled |

`PROJECT.json` lists every component with its status, and under `hazards` each place where
the code is hard to test, with the properties that cover it.

## 2. Modules

A component module declares its state, one action per section or per step outside a
section, and its properties. Definitions keep the names of the code. Definitions named
`X_Something` are deliberately wrong variants of `X`: replacing `X` by one of them makes TLC
report a violation, which shows that the property depends on that line of the code.

| Module | Models | Notes |
|---|---|---|
| `RwLock` | `pthread_rwlock.c`, private locks | The three sections of `rwlock_acquire()` are three actions, with the allocation between them. The waiter list is a set `queue` with `ahead[t]`, the waiters linked before `t`. `wake_waiters()` is the operator `WakeWaiters`, a part of every action that calls it. `Abandon` is a failing wait or an asynchronous cancellation. |
| `RwLockProofs` | | Proofs for `RwLock`. |
| `Mutex` | `pthread_mutex.c` | `Enter`, `EnterZero`, `CreateFails` and `Ready` are `mutex_ready()`; `InheritFromDead`, `Acquire`, `Relock`, `Refuse` and `Block` are the branches of the loop; the four outcomes of the wait are actions; `Unlock` and `Post` are separate, as in the code. |
| `AbstractMutex` | what a mutex promises | owner, count, and whether the protected data is dirty or lost. |
| `MutexProofs` | | Proofs for `Mutex`, including the refinement. |
| `CondVar` | `pthread_cond.c` with the mutex it is used with | `Link`, `Release`, the wait's outcomes and `Relock`. The list is the set `linked` with `behind[t]`, the waiters after `t`. The mutex is `AbstractMutex`, which `Mutex` is proved to implement. |
| `CondClient` | a program that uses `CondVar` | consumers wait in a loop; a producer signals early, sets the predicate, broadcasts without the mutex and destroys. |
| `CondProofs` | | Proofs for `CondVar` and `CondClient`. |
| `ThreadLife` | `pthread.c` | every store outside the lock is an action of its own, in program order. `finish()` is `FinishEnter`, its section `Finish`, and the unlock, which ends a deferral region on NT: `Leave`, or `LeaveDelivers` if a request is there. `request[t]` follows the request that a thread gets while it is in `finish()` (`CancelLate`): "late" means that `finish()` runs a second time. `NT` chooses the backend; on Linux the lock is no deferral region and a thread does not close its own handle. |
| `ThreadLifeProofs` | | Proofs for `ThreadLife`. |
| `Cancel` | `pthread_cancel.c`, the deferral macros of `libc.h`, both backends' suspend, resume, redirect and APC | the constant `NT` chooses the backend; `Failures` lets backend calls fail, and `failed` records that one did; `stuck` are the threads that a failed resume left suspended. The end of a thread takes the fast lock like every other call (`FinishEnter`, `Finish`). |
| `CancelProofs` | | Proofs for `Cancel`. |
| `Barrier`, `AbstractBarrier` | `pthread_sync.c` | sleeping callers and callers that poll; destruction and reuse of the storage. |
| `BarrierProofs` | | The refinement of `AbstractBarrier` by `Barrier`. |
| `Once` | `pthread_tsd.c`, `pthread_once()` | the waiter list is shared by all controls. |
| `OnceProofs` | | Proofs for `Once`. |
| `MessageQueue` | `mqueue.c` | One action per read or write of the queue file and per operation on a named semaphore, because a process can fail or die between any two of them. `AfterTake`, `AfterGive` and `AfterFailure` are tables of where each call goes on. `path` is the directory entry, `file[g]` the file of the g-th creation, `sem[g]` its named objects; `NT` lets an object vanish with its last handle. The histories `exact`, `torn`, `owed` and `quiet` record which promises are still owed. |
| `AbstractQueue` | what a message queue promises | the set of messages of each queue, and whether its last update was cut short. |
| `Aio` | `aio.c` | The sections under `__sig_lock()` are the actions. A request is named by its control block; of the sequence numbers `earlier[c]` is kept, the queued requests with a smaller one. `Finish` is `finish_locked()`, a part of each action that calls it. |
| `AioProofs` | | Proofs for `Aio`. |
| `NamedSem` | `semaphore.c`: `sem_open()`, `sem_close()`, `sem_unlink()` for one name | Threads of two processes; `record` is the file, `named[p]` the table of a process, `ns` the owner of the namespace lock, which passes on when its owner dies. |
| `MC*` | instances for TLC | symmetry sets, canceler relations, owners of threads, and the fairness of the mutex's liveness. |

## 3. Runs

| Run | Instance | What it shows |
|---|---|---|
| `rwlock` | 4 threads, 2 priorities, one thread whose priority changes at any time | Readers and a writer never hold the lock together and the reader count is exact (`Exclusion`); a lock nobody holds has no linked waiter (`NoStrandedWaiter`); grants are posted (`GrantMatchesPost`). No reader waits that the rules admit, and the lock is granted by priority and then by arrival (`NoEligibleReaderWaits`, `PriorityOrder`); these two are stated for lists without a thread whose priority changes, because nothing re-examines the list when a priority changes. |
| `mutex` | 3 threads, all types, robust or not, static or dynamic, destroy and reuse | The mutex implements `AbstractMutex`; no wakeup is lost; a mutex that is not robust does not stay free while a thread waits; a death is noticed although nobody posts. |
| `mutex_destroy` | 2 threads; violation | The unlocker posts a destroyed mutex (finding 1). |
| `cond` | 3 consumers and a producer | A waiter is in the list or posted, and nobody else is in the list; a signal is reported as one; nobody is stranded, and all consumers finish. |
| `thread_life` | NT, main and 2 threads | A handle is never closed under a sleeping joiner, and closed once unless `finish()`'s unlock delivered a request to its thread (`ClosedOnce`); no handle and no joiner's claim is left behind (`Reclaimed`); a joiner goes on after the end (`JoinAfterEnd`); the count that tells the last thread is exact but for the threads that ran `finish()` twice (`LiveCounted`). The same properties hold on the Linux instance (122,187 states), which is not a run of its own. |
| `cancel` | NT, two cancelers of one target that also cancels itself, failing calls | Cleanup once; the lock is never abandoned; suspensions are undone unless the resume itself fails; only asynchronous cancelability is interrupted; an asynchronous request is acted on unless a backend call failed. |
| `cancel_linux` | Linux, one canceler; violation | A suspended target is not resumed (finding 2). |
| `barrier` | 4 threads, count 3 | The barrier implements `AbstractBarrier`, failing waits included; every released caller returns. |
| `once` | 3 threads, 2 controls | One initializer; no sleeper left; every call returns. |
| `mqueue` | 2 processes, 2 slots, 2 priorities, 3 messages; one failing wait for the lock, read or write, or one death, at any step; NT objects | Tokens are never invented (`TokensSound`), and never lost unless a process died inside a call (`TokensExact`); a registration is neither forgotten nor answered twice (`RegistrationKept`); the message that ends the emptiness of a queue with a registered process is announced or has a receiver (`MessageAnnounced`, stated until a process using the queue fails, dies or gives up its wait); each file implements `AbstractQueue` until an update is cut short (`ImplementsQueue`). |
| `aio` | 2 threads, 2 control blocks, 1 group, the worker or the synchronous fallback | A group counts its unfinished members and is announced once (`GroupCounted`); no wakeup is missed between a look and a wait (`NoWakeupMissed`); the exit hook returns with the table drained (`Drained`); LIO_WAIT returns only when its list is complete (`ListComplete`). |
| `named_sem` | 2 threads of a process and 1 of another, a table of 2 entries, 3 references, 3 objects, one death | One entry per process and name (`OneEntry`); an entry in use keeps its object and its count (`EntryKept`); until it is unlinked a name is the same semaphore for all who opened it (`SameSemaphore`); O_CREAT recovers from a dead creator (`Recovers`). |

Deadlock checking is off in all runs: threads may stop calling the library at any time.

### Findings

1. `pthread_mutex_unlock()` (`src/src/thread/pthread_mutex.c:352`) reads `data->semaphore` and
   posts it after it released the fast lock. The waiter it meant to wake can have left its
   sleep on its own, taken and returned the mutex, and destroyed it.
2. On Linux `__plat_thread_suspend()` stops the target with SIGSTOP and
   `__plat_thread_resume()` (`src/src/thread/linux/plat_thread.c:1048`) only opens the start gate.

Four more places where the code and a comment, a test or an expectation part, without a run of
their own:

- A barrier may be destroyed as soon as its generation has completed, and its storage initialized
  again with generation 0, while a caller still polls for a change of generation
  (`src/src/thread/pthread_sync.c:262,275`). The run `barrier` assumes programs that wait for their
  callers first. With `EarlyReuse = TRUE` and `Private = FALSE` in its configuration both of its properties
  fail: `ReleasedReturn` with a caller that polls for ever, `ImplementsBarrier` because the new
  generation number takes back the release of the callers that still poll.
- On NT the unlock of `finish()`'s section (`src/src/thread/pthread.c:125`) is the end of a deferral region
  and delivers an asynchronous request that arrived inside it. `__pthread_cancel_current()` then calls
  `pthread_exit()` and `finish()` runs again: `live_threads` is counted down a second time, so that the process
  exits while another thread runs, or the last thread does not find zero, and a handle that
  a racing `pthread_detach()` closes can be closed twice. `ThreadLife` contains the case; `ClosedOnce` and
  `LiveCounted` say how far the promise reaches.
- `src/src/thread/aio.c:90-92` says that `worker_atexit_registered` is reset on fork;
  `__aio_reset_after_fork()` keeps it and says why (`:794-796`). `Fork` follows the code.
- `sem_open()` does not close the new object's handle when the record cannot be written
  (`src/src/thread/semaphore.c:287-299`).

### Bounds

- `MaxHold` (read locks per thread), `MaxRecursion` (recursion of a mutex) and `SemMax`
  (the semaphore's maximum) stand for limits near 2^31. `mutex` uses two of each,
  enough for a nested acquisition and a surplus token. `rwlock` uses one read lock per thread,
  which leaves room for four threads; with two it has 549,272 states and the same result.
  The proofs are for any value.
- `Generations` is the modulus of the barrier's generation word. `NotLapped` excludes a
  poller that sleeps through all 2^32 generations.
- Three threads give a holder, a waiter and one that interferes; four are used where order
  among waiters or unlinking from the middle of a list matters.
- Two priorities distinguish lower, equal and higher. Two once controls show that the shared
  list is filtered.
- `MaxMsg` = 2 slots and `MaxSeq` = 3 messages of two priorities let a slot be reused before an older
  message is taken; a queue is empty, partly full and full. `MaxFault` and `MaxCrash` allow one failure or
  death, after which the run goes on to every later state; `MaxGen` = 1 stops after one creation of the
  file. All five properties also hold with two creations, one slot and one message of one priority
  (1,309,231 states); that instance is not a run of its own.
- `MaxReq` = 2 fills the request table; a list of two has a first and a last member, and
  one group is enough for a second `lio_listio()` to find it in use or reuse it.
- `MaxRefs` = 3 and two table entries let an unlinked entry in use, a new one and a full table occur;
  `MaxObj` = 3 objects let a name be created again twice.
- Time is abstracted: a deadline may pass whenever the call has one.

### Fairness

- `MCMutex!LiveSpec`, `Once!LiveSpec` and `Barrier!LiveSpec` assume weak fairness of each thread's
  steps inside a call: the scheduler runs threads, a posted wait returns, a poll interval
  passes. The callers' decisions to lock, unlock, exit or initialize are not fair.
- `CondClient!Fairness` is weak fairness of each consumer's steps and of the broadcast that
  follows setting the predicate.
- `Cancel!Progress` is weak fairness of the library's code in threads that are not suspended,
  and strong fairness for those steps that take the fast lock: a contended lock is eventually
  granted. The NT lock queues its contenders; the Linux spin lock gives this only in practice,
  and the run that uses it is of the NT backend.

## 4. Proofs

The theorems hold for every value of the constants that satisfies the named assumptions: `Threads` (and
the control blocks of `Aio`) are finite, `None` is no thread and no group, and the choice of the backend is a Boolean; priorities are naturals whose nonempty subsets have a maximum; the
bounds are positive naturals; a barrier's count is between 1 and the number of threads and its generation word has more than
one value; there is a once control; the producer and the initial thread are threads. TLC evaluates the
assumptions in every run. Two theorems take an assumption more, named in their statement: `NT`
(`CancelSuspensionBracketed`) and `~EarlyReuse` (`BarrierImplementsAbstract`).

Each component has an inductive invariant `IInv`, stated beside its properties and found to hold by TLC on the
instance of the run before it was proved; the proof has one step per action and one lemma per conjunct.

**Read-write lock** (`RwLockProofs`). The invariants are not inductive as they stand.
`NoStrandedWaiter` survives an unlock only because `wake_waiters()` empties the list of a free
lock, and it does so only if `waiting_writers` is exact and a best writer exists: that needs
`QueueOrder` (every set of linked waiters has a first one). `Exclusion` counts read
locks as a set of pairs (`ReadHolds`), with lemmas for adding one, removing one and admitting a
set of readers at once. `CallsConsistent` ties list membership to the program counter. `IInv`
joins them. The theorems are `InductiveInvariant`, `TypeCorrect`, `ExclusionHolds`,
`NoWakeupLost`, `GrantsArePosted` and `BestWriterFound`. The order of the grants needs a second
invariant, `OrderInv`: of two linked waiters one was linked first (`ListTotal`), and no reader that the rules
admit stays linked (`EligibleReadersAdmitted`). From it `GrantedInPriorityOrder` follows: one lemma says
what `WakeWaiters` leaves in the list, and every action that grants goes through it.

**Mutex** (`MutexProofs`). `IInv` adds to the invariants that lazy initialization is over before
anybody acquires (`ReadyBeforeUse`), how owner, count and robust state fit together
(`OwnershipConsistent`) and which calls can be in progress (`CallsConsistent`). From it follow
`TypeCorrect`, `SleepersAreCounted`, `WakeupsKept` and `MutexRefinesAbstract`: under the mapping
in `Mutex!Abstract` (a robust mutex is dirty from the death of its owner on) each step is a step
of `AbstractMutex` or leaves it unchanged.

**Condition variable** (`CondProofs`). `ReachableOrPosted` is inductive once the types say that a waiter
is not behind itself and the mutex is owned at most once (`OwnedOnce`): a thread that unlinks `x` leaves all others
where they are. `CondSignalReported` is the action property that the reported result says who won the race.
`ClientUsesCond` shows that the program of `CondClient` takes only steps of `CondVar`, so its proof of
`ClientNoConsumerStranded` may use the invariant of `CondVar`; its own part, `ClientInv`, says where producer and predicate are.

**Thread life** (`ThreadLifeProofs`). Handles are closed outside the lock by four different callers, so `ClosedOnce`
needs to know who may be about to close: `EndsSound` (where a thread can be with the flags and the request it has), `BlocksSound` (what a
control block's flags say of its handle), `HandleLeft` (a detached thread that does not close its handle has left that to the thread that
detached it), `CreatorsSound` (a block between creation and resumption belongs to its creator), `JoinersSound` (`joining` is the claim of exactly
one joiner) and `DetachersSound`. From these follow `ThreadClosedOnce`, `ThreadReclaimed` and `ThreadJoinAfterEnd`;
`ThreadLiveCounted` counts `Countable` and `FinishedTwice` with one element added or removed per step. The theorems hold on both backends.

**Cancellation** (`CancelProofs`). A thread's deferral depth follows from where it is (`LevelsHeld`). So a thread at depth 0 is neither in a
section (`SectionOwned`, hence `CancelLockNotAbandoned`) nor, on NT, between its suspension of another thread and the resumption
(`CancelSuspensionBracketed`); `cancel_running` is set once (`EntriesClaimed`, hence `CancelCleanupOnce`); and what justified a decision
still holds at the claim (`DecisionHolds`, hence the action property `CancelInterruptedOnlyAsync`). The section of `finish()` is one of the sections: a thread that ends cannot be redirected inside it.

**Barrier** (`BarrierProofs`). A caller whose event is not set is on the list with the current generation
(`SleepersReachable`). Under the mapping `Barrier!Abstract` a completing arrival releases everybody inside, every other arrival
adds one, and the rest are returns or stutters: `BarrierImplementsAbstract`.

**Once** (`OnceProofs`). `ClaimHeld` states `OneInitializer` without counting, `SleepersLinked` that a broadcast
reaches every sleeper.

**Asynchronous I/O** (`AioProofs`). `IInv` joins the types with `RunningPerformed` (a running request has exactly one
performer, the worker or in the synchronous fallback its submitter), `WorkerSound` (what the flags of the worker say of where
it is, and that it leaves its loop with nothing but late requests in progress) and `CallsSound` (a call has a group only inside its `lio_listio()`,
and keeps in `pending` what it must not leave behind). `AioDrained` and `AioListComplete` are consequences. Steps are proved by
kind: `Kinds` says that each step is quiet (only the worker's own flags), local to a call, part of `exit()`, or one of seven with a proof step of its own, and `Apart` says
what a thread's step leaves to the others. `AioNoWakeupMissed` is inductive on top of `IInv`: a completion triggers all waiters that name it, and a look that finds nothing
and the registration are one section. So is `AioGroupCounted`, whose three sets change by one element per step, or by the finished members at once (`FinishCounts`).

**Only model-checked.** All liveness properties (`FreeMutexTaken`, `DeathNoticed`, `ConsumersFinish`, `AsyncActedOn`, `ReleasedReturn`, `CallsReturn`): liveness under
fairness and ENABLED are beyond the prover. Every property of `MessageQueue` and `NamedSem`. The invariant that
`MessageQueue`'s properties would rest on is stated beside them (`IInv`) and no proof of it is kept: a proof of all
its parts, over twelve conjuncts and some thirty actions, is more than the prover translates in one module in the time
it gives a leaf. `EntryKept` of `NamedSem` sums over a set, and what such a recursive operator computes for
every argument needs an induction the prover cannot do.

In every proof module the leaves go to Zenon unless they name SMT, which is kept for arithmetic and for the few
goals Zenon does not find; the limit of both is 30 seconds. `TypeOK`, `WaitingWritersCounted` and
`WaitersCounted` are proved and are not properties of a run.

## 5. Not modelled

- Process-shared read-write locks (`pthread_rwlock.c:108-131,424-434`), priority ceilings,
  attributes objects, `__pthread_reset_after_fork()`.
- Message queues: a failing write leaves the old contents (no partly written header); processes have one
  thread each and no pid is used again; a registration is for a signal (SIGEV_NONE, which has
  nothing to send, is left out). A process that dies holding the queue's lock blocks the others for good, and a dead process
  stays registered or counted in `receive_waiters`: the model contains these cases, the code has no
  recovery that a property could state. A creator that dies before it has written the header leaves a file
  on which `mq_open()` fails until it is unlinked. On Linux named objects outlive their processes, so that counts
  are never rebuilt; the run has the NT objects, where more can happen.
- Asynchronous I/O: the transfer itself, priorities, and what a notification does. The worker's events
  reset themselves, as on NT, which is the stricter case for a lost wakeup. A second `exit()` is excluded.
- Named semaphores: waiting, posting, unnamed semaphores, paths; `unlink()` of an existing record by
  `sem_unlink()` succeeds. The namespace lock passes on from a dead process, as an NT mutant does; the Linux
  one is a semaphore with one token (`linux/plat_thread.c:925-964`), so a creator that died holding it blocks
  every later call and the recovery described at `semaphore.c:307-309` is not reached.
- Failures that only a caller's error or the platform's can cause: an unlock inside `pthread_cond_wait()` that fails because the
  caller does not own the mutex (`pthread_cond.c:253-257`), and a wait for a message queue's name lock that fails
  (`mqueue.c:282,664`). A caller of `pthread_barrier_wait()` looks at the magic word and enters the section in one step
  (`pthread_sync.c:230`): a destruction in between is an error of the program.
- Asynchronous cancellation inside functions that are not async-cancel-safe (creating, joining, detaching, `pthread_once()`): a
  request is delivered there only where the code means it to be, in the waits. So `Once` does not deliver
  one between the claim of a control and its cleanup handler (`pthread_tsd.c:207-209`).
- Weak memory: stores outside the lock take effect in program order.
- Late suspension: `NtSuspendThread()` is taken to stop its target before it returns.
- Reads of freed storage, allocation beyond success or failure, error texts and clocks. So the wait of
  `pthread_rwlock_rdlock()` until the absolute time 0x7fffffff (`pthread_rwlock.c:367`) has no end here.
- A main thread without a control block is not counted (`pthread.c:176`), and destructors that are
  interrupted by a redirection run again (`pthread.c:119`); both are outside what the properties state.
- The components marked `not_modelled` in `PROJECT.json`.

## 6. Plan

Done: the objects every other part of the thread library rests on; asynchronous I/O; the two
objects that processes share. Next, in this order:

1. `PlatSync`: futex events and semaphores and the start gate, shown to implement the semaphore
   and the event that the modules above assume.
2. The value of a semaphore under waiting, posting and cancellation; `TsdKeys`, `SpinLock`, `Atfork`;
   the process-shared read-write lock; `Cancel` composed with `ThreadLife` for handles closed while
   a `pthread_cancel()` still uses them; progress of `Aio` and `MessageQueue` under fairness.
3. Signals (masks, pending sets, delivery), process groups and waiting, exit handlers, System V
   IPC tables, stream buffers.

Theorems worth proving next: `OneEntry` and `SameSemaphore` of `NamedSem`; the token invariants of the
message queue.

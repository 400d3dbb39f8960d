---------------------------------- MODULE Aio ----------------------------------
(***************************************************************************)
(* Asynchronous I/O: src/src/thread/aio.c.                                 *)
(*                                                                         *)
(* Requests wait in a table until the one worker thread performs them; the *)
(* first submission starts it.  A thread can cancel queued requests, wait  *)
(* for one of several (aio_suspend) or for all of a list (lio_listio), be  *)
(* told when a list is complete, and exit, which drains the table.  The    *)
(* sections under __sig_lock() are the actions.  A request is named by its *)
(* control block: __opaque ties a block to at most one table entry.        *)
(***************************************************************************)
EXTENDS Naturals, FiniteSets

CONSTANTS
  Threads,    \* threads of the application
  Cbs,        \* control blocks (struct aiocb)
  Groups,     \* entries of groups[]
  MaxReq,     \* AIO_MAX: entries of requests[]
  None

ASSUME AioAssumption ==
  /\ IsFiniteSet(Threads) /\ IsFiniteSet(Cbs)
  /\ MaxReq \in Nat \ {0} /\ None \notin Groups \cup Threads

VARIABLES
  state,       \* of the request of each control block: free, queued, running, done
  earlier,     \* of each queued request the queued ones with a smaller sequence
  group,       \* the group of each request, or None
  remaining,   \* of each active group the members not yet done; 0: inactive
  waiters,     \* the threads linked into waiters
  triggered,   \* those whose event has been set
  started,     \* worker_started
  sync,        \* worker_synchronous
  wake,        \* the event worker_wake is set
  shutdown,    \* worker_shutdown
  ended,       \* worker_exited
  doneSet,     \* the event worker_done_event is set
  registered,  \* worker_atexit_registered
  worker,      \* where the worker is
  pc,          \* where each thread is
  call,        \* the call it is in
  list,        \* the control blocks it still has to submit, or waits for
  job,         \* what it, or the worker (None), performs
  pending,     \* what its lio_listio() has submitted and not seen complete
  mygroup,     \* the group its lio_listio() has allocated, or None
  notes,       \* the notifications it, or the worker, still has to send
  over,        \* the process has ended
  late,        \* history: requests submitted after the shutdown
  unfinished   \* history: requests a lio_listio() must not leave behind

table == <<state, earlier, group, remaining, waiters, triggered>>
life == <<started, sync, wake, shutdown, ended, doneSet, registered, over>>
local == <<call, list, job, pending, mygroup, notes>>
vars == <<table, life, worker, pc, local, late, unfinished>>

Actors == Threads \cup {None}
Fresh == [c \in Cbs |-> "free"]
NoOrder == [c \in Cbs |-> {}]

Init ==
  /\ state = Fresh /\ earlier = NoOrder
  /\ group = [c \in Cbs |-> None]
  /\ remaining = [g \in Groups |-> 0]
  /\ waiters = {} /\ triggered = {}
  /\ started = FALSE /\ sync = FALSE /\ wake = FALSE /\ shutdown = FALSE
  /\ ended = FALSE /\ doneSet = FALSE /\ registered = FALSE /\ over = FALSE
  /\ worker = "none"
  /\ pc = [t \in Threads |-> "idle"]
  /\ call = [t \in Threads |-> "none"]
  /\ list = [t \in Threads |-> {}]
  /\ job = [a \in Actors |-> None]
  /\ pending = [t \in Threads |-> {}]
  /\ mygroup = [t \in Threads |-> None]
  /\ notes = [a \in Actors |-> {}]
  /\ late = {}
  /\ unfinished = [t \in Threads |-> {}]

Goto(t, l) == pc' = [pc EXCEPT ![t] = l]
Idle(t) == Goto(t, "idle") /\ call' = [call EXCEPT ![t] = "none"]
At(t, l) == pc[t] = l /\ ~over
InProgress(c) == state[c] \in {"queued", "running"}
Queued == {c \in Cbs : state[c] = "queued"}

\* The requests C leave the queue.
Dequeue(C) == earlier' = [c \in Cbs |-> IF c \in C THEN {} ELSE earlier[c] \ C]

-----------------------------------------------------------------------------
(* Completion. *)

\* finish_locked() for the requests C, by actor a: groups whose last members
\* these are become inactive, and threads that wait for one of C are woken.
Finish(a, C) ==
  LET Left(g) == remaining[g] - Cardinality({c \in C : group[c] = g})
  IN  /\ state' = [c \in Cbs |-> IF c \in C THEN "done" ELSE state[c]]
      /\ Dequeue(C)
      /\ remaining' = [g \in Groups |-> IF remaining[g] > 0 THEN Left(g) ELSE 0]
      /\ notes' = [notes EXCEPT ![a] = C \cup {g \in Groups : remaining[g] > 0 /\ Left(g) = 0}]
      /\ triggered' = triggered \cup {t \in waiters : list[t] \cap C # {}}
      /\ unfinished' = [t \in Threads |-> unfinished[t] \ C]
      /\ UNCHANGED <<group, waiters>>

\* notify(), after the lock has been released.
Notify(t) ==
  /\ At(t, "notify")
  /\ notes' = [notes EXCEPT ![t] = {}]
  /\ IF call[t] = "cancel" THEN Idle(t) ELSE Goto(t, "list") /\ UNCHANGED call
  /\ UNCHANGED <<table, life, worker, list, job, pending, mygroup, late, unfinished>>

-----------------------------------------------------------------------------
(* aio_worker(). *)

\* next_queued(): the queued request with the smallest sequence number.
Take ==
  \E c \in Queued :
    /\ earlier[c] = {}
    /\ job' = [job EXCEPT ![None] = c]
    /\ state' = [state EXCEPT ![c] = "running"]
    /\ Dequeue({c})
    /\ worker' = "perform"

\* Mutant: a shutdown is obeyed before the queue is looked at.
WorkerLook_Shutdown ==
  /\ worker = "look"
  /\ \/ shutdown /\ worker' = "exit" /\ UNCHANGED <<state, earlier, job>>
     \/ ~shutdown /\ Queued # {} /\ Take
     \/ ~shutdown /\ Queued = {} /\ worker' = "wait" /\ UNCHANGED <<state, earlier, job>>
  /\ UNCHANGED <<group, remaining, waiters, triggered, life, pc, call, list, pending,
                 mygroup, notes, late, unfinished>>

\* The next request, or what to do without one.
WorkerLook ==
  /\ worker = "look"
  /\ \/ Take
     \/ /\ Queued = {}
        /\ worker' = IF shutdown THEN "exit" ELSE "wait"
        /\ UNCHANGED <<state, earlier, job>>
  /\ UNCHANGED <<group, remaining, waiters, triggered, life, pc, call, list, pending,
                 mygroup, notes, late, unfinished>>

\* __plat_wait_one(wake): the event resets itself.
WorkerWake ==
  /\ worker = "wait" /\ wake
  /\ wake' = FALSE
  /\ worker' = "look"
  /\ UNCHANGED <<table, started, sync, shutdown, ended, doneSet, registered, over,
                 pc, local, late, unfinished>>

\* perform() returns.
WorkerFinish ==
  /\ worker = "perform"
  /\ Finish(None, {job[None]})
  /\ worker' = "notify"
  /\ job' = [job EXCEPT ![None] = None]
  /\ UNCHANGED <<life, pc, call, list, pending, mygroup, late>>

WorkerNotify ==
  /\ worker = "notify"
  /\ notes' = [notes EXCEPT ![None] = {}]
  /\ worker' = "look"
  /\ UNCHANGED <<table, life, pc, call, list, job, pending, mygroup, late, unfinished>>

WorkerExit ==
  /\ worker = "exit"
  /\ ended' = TRUE
  /\ worker' = "exited"
  /\ UNCHANGED <<table, started, sync, wake, shutdown, doneSet, registered, over,
                 pc, local, late, unfinished>>

WorkerDone ==
  /\ worker = "exited"
  /\ doneSet' = TRUE
  /\ worker' = "done"
  /\ UNCHANGED <<table, started, sync, wake, shutdown, ended, registered, over,
                 pc, local, late, unfinished>>

Worker ==
  WorkerLook \/ WorkerWake \/ WorkerFinish \/ WorkerNotify \/ WorkerExit \/ WorkerDone

-----------------------------------------------------------------------------
(* Submission. *)

\* aio_read(), aio_write() and aio_fsync() submit one block; lio_listio()
\* submits several, with LIO_NOWAIT as a group.
Submit(t, how, L) ==
  /\ At(t, "idle")
  /\ L # {} /\ (how = "one" => Cardinality(L) = 1)
  /\ call' = [call EXCEPT ![t] = how]
  /\ list' = [list EXCEPT ![t] = L]
  /\ IF how = "nowait"
     THEN \E g \in Groups :
            /\ remaining[g] = 0
            /\ remaining' = [remaining EXCEPT ![g] = Cardinality(L)]
            /\ mygroup' = [mygroup EXCEPT ![t] = g]
     ELSE UNCHANGED <<remaining, mygroup>>
  /\ Goto(t, "list")
  /\ UNCHANGED <<state, earlier, group, waiters, triggered, life, worker, job, pending,
                 notes, late, unfinished>>

\* start_worker(): a worker, or the synchronous fallback.  The registration of
\* the exit hook may fail.
StartWorker ==
  \/ started /\ UNCHANGED <<started, sync, worker, registered>>
  \/ /\ ~started /\ started' = TRUE
     /\ \/ sync' = TRUE /\ UNCHANGED <<worker, registered>>
        \/ sync' = FALSE /\ worker' = "look" /\ registered' \in {registered, TRUE}

\* submit() for one block.  A synchronous request is performed right away.
Enqueue(t, c) ==
  /\ At(t, "list") /\ c \in list[t]
  /\ state[c] = "free"
  /\ Cardinality({d \in Cbs : state[d] # "free"}) < MaxReq
  /\ StartWorker
  /\ state' = [state EXCEPT ![c] = IF sync' THEN "running" ELSE "queued"]
  /\ earlier' = IF sync' THEN earlier ELSE [earlier EXCEPT ![c] = Queued]
  /\ wake' = (wake \/ ~sync')
  /\ group' = [group EXCEPT ![c] = mygroup[t]]
  /\ list' = [list EXCEPT ![t] = @ \ {c}]
  /\ job' = IF sync' THEN [job EXCEPT ![t] = c] ELSE job
  /\ pending' = [pending EXCEPT ![t] = IF call[t] = "wait" THEN @ \cup {c} ELSE @]
  /\ unfinished' = [unfinished EXCEPT ![t] = IF call[t] = "wait" THEN @ \cup {c} ELSE @]
  /\ late' = IF shutdown THEN late \cup {c} ELSE late
  /\ Goto(t, IF sync' THEN "perform" ELSE "list")
  /\ UNCHANGED <<remaining, waiters, triggered, shutdown, ended, doneSet, over,
                 call, mygroup, notes>>

\* The synchronous perform() returns.
FinishSync(t) ==
  /\ At(t, "perform")
  /\ Finish(t, {job[t]})
  /\ Goto(t, "notify")
  /\ job' = [job EXCEPT ![t] = None]
  /\ UNCHANGED <<life, worker, call, list, pending, mygroup, late>>

\* The block is invalid or in use, the table is full, or no worker could be
\* started.  Any block may be invalid.
Reject(t, c) ==
  /\ At(t, "list") /\ c \in list[t]
  /\ list' = [list EXCEPT ![t] = @ \ {c}]
  /\ Goto(t, IF mygroup[t] = None THEN "list" ELSE "drop")
  /\ UNCHANGED <<table, life, worker, call, job, pending, mygroup, notes, late, unfinished>>

\* group_drop(): the member that was not submitted is counted off.
Drop(t) ==
  /\ At(t, "drop")
  /\ remaining' = [remaining EXCEPT ![mygroup[t]] = @ - 1]
  /\ notes' = [notes EXCEPT ![t] = IF remaining[mygroup[t]] = 1 THEN {mygroup[t]} ELSE {}]
  /\ Goto(t, "notify")
  /\ UNCHANGED <<state, earlier, group, waiters, triggered, life, worker, call, list, job,
                 pending, mygroup, late, unfinished>>

\* All are submitted; LIO_WAIT goes on to wait for them.
Submitted(t) ==
  /\ At(t, "list") /\ list[t] = {}
  /\ mygroup' = [mygroup EXCEPT ![t] = None]
  /\ IF call[t] = "wait" THEN Goto(t, "collect") /\ UNCHANGED call ELSE Idle(t)
  /\ UNCHANGED <<table, life, worker, list, job, pending, notes, late, unfinished>>

\* A pass over the submitted blocks with aio_error(), then aio_suspend() for
\* those still in progress.
Collect(t) ==
  /\ At(t, "collect")
  /\ LET open == {c \in pending[t] : InProgress(c)} IN
       /\ pending' = [pending EXCEPT ![t] = open]
       /\ list' = [list EXCEPT ![t] = open]
       /\ IF open = {} THEN Idle(t) ELSE Goto(t, "suspend") /\ UNCHANGED call
  /\ UNCHANGED <<table, life, worker, job, mygroup, notes, late, unfinished>>

-----------------------------------------------------------------------------
(* aio_return(), aio_cancel() and aio_suspend(). *)

Return(t, c) ==
  /\ At(t, "idle")
  /\ state[c] = "done"
  /\ state' = [state EXCEPT ![c] = "free"]
  /\ group' = [group EXCEPT ![c] = None]
  /\ late' = late \ {c}
  /\ UNCHANGED <<earlier, remaining, waiters, triggered, life, worker, pc, local, unfinished>>

\* Mutant: a request the worker performs is cancelled as well.
Cancel_Running(t, C) ==
  /\ At(t, "idle")
  /\ Finish(t, {c \in C : InProgress(c)})
  /\ call' = [call EXCEPT ![t] = "cancel"]
  /\ Goto(t, "notify")
  /\ UNCHANGED <<life, worker, list, job, pending, mygroup, late>>

\* One block, or all those of a descriptor.
Cancel(t, C) ==
  /\ At(t, "idle")
  /\ Finish(t, {c \in C : state[c] = "queued"})
  /\ call' = [call EXCEPT ![t] = "cancel"]
  /\ Goto(t, "notify")
  /\ UNCHANGED <<life, worker, list, job, pending, mygroup, late>>

Suspend(t, L) ==
  /\ At(t, "idle") /\ L # {}
  /\ call' = [call EXCEPT ![t] = "suspend"]
  /\ list' = [list EXCEPT ![t] = L]
  /\ Goto(t, "suspend")
  /\ UNCHANGED <<table, life, worker, job, pending, mygroup, notes, late, unfinished>>

Ready(t) == \E c \in list[t] : ~InProgress(c)

\* Mutant: LIO_WAIT returns after the first completion.
Leave_Once(t, ok) ==
  /\ Idle(t)
  /\ list' = [list EXCEPT ![t] = {}]
  /\ pending' = [pending EXCEPT ![t] = {}]
  /\ unfinished' = IF ok THEN unfinished ELSE [unfinished EXCEPT ![t] = {}]

\* aio_suspend() returns.  Inside lio_listio() a failure ends that call too.
Leave(t, ok) ==
  /\ list' = [list EXCEPT ![t] = {}]
  /\ IF call[t] = "wait" /\ ok
     THEN Goto(t, "collect") /\ UNCHANGED <<call, pending, unfinished>>
     ELSE /\ Idle(t)
          /\ pending' = [pending EXCEPT ![t] = {}]
          /\ unfinished' = [unfinished EXCEPT ![t] = {}]

\* The first look, and the creation of the event.
SuspendLook(t) ==
  /\ At(t, "suspend")
  /\ \/ Ready(t) /\ Leave(t, TRUE)
     \/ ~Ready(t) /\ Goto(t, "link") /\ UNCHANGED <<call, list, pending, unfinished>>
     \/ ~Ready(t) /\ Leave(t, FALSE)
  /\ UNCHANGED <<table, life, worker, job, mygroup, notes, late>>

\* Mutant: no second look.
SuspendLink_NoLook(t) ==
  /\ At(t, "link")
  /\ Goto(t, "wait")
  /\ waiters' = waiters \cup {t}
  /\ UNCHANGED <<state, earlier, group, remaining, triggered, life, worker, local, late, unfinished>>

\* The second look and the registration, or a timeout of zero.
SuspendLink(t) ==
  /\ At(t, "link")
  /\ \/ Ready(t) /\ Leave(t, TRUE) /\ UNCHANGED <<waiters, triggered>>
     \/ ~Ready(t) /\ Leave(t, FALSE) /\ UNCHANGED <<waiters, triggered>>
     \/ /\ ~Ready(t)
        /\ Goto(t, "wait")
        /\ waiters' = waiters \cup {t}
        /\ UNCHANGED <<triggered, call, list, pending, unfinished>>
  /\ UNCHANGED <<state, earlier, group, remaining, life, worker, job, mygroup, notes, late>>

\* The wait ends by the thread's event.
SuspendWake(t) ==
  /\ At(t, "wait") /\ t \in triggered
  /\ waiters' = waiters \ {t}
  /\ triggered' = triggered \ {t}
  /\ Leave(t, TRUE)
  /\ UNCHANGED <<state, earlier, group, remaining, life, worker, job, mygroup, notes, late>>

\* The wait ends by a signal or its deadline.  A completion still counts.
SuspendLate(t) ==
  /\ At(t, "wait")
  /\ waiters' = waiters \ {t}
  /\ triggered' = triggered \ {t}
  /\ Leave(t, t \in triggered \/ Ready(t))
  /\ UNCHANGED <<state, earlier, group, remaining, life, worker, job, mygroup, notes, late>>

-----------------------------------------------------------------------------
(* exit() and fork(). *)

\* aio_worker_atexit(), if it has been registered.
Exit(t) ==
  /\ At(t, "idle") /\ ~shutdown
  /\ IF registered
     THEN /\ shutdown' = TRUE
          /\ wake' = (wake \/ (started /\ ~sync))
          /\ IF started /\ ~sync /\ ~ended THEN Goto(t, "exit") /\ UNCHANGED over
                                           ELSE over' = TRUE /\ UNCHANGED pc
     ELSE over' = TRUE /\ UNCHANGED <<shutdown, wake, pc>>
  /\ UNCHANGED <<table, started, sync, ended, doneSet, registered, worker, local, late, unfinished>>

ExitWaited(t) ==
  /\ At(t, "exit") /\ doneSet
  /\ over' = TRUE
  /\ UNCHANGED <<table, started, sync, wake, shutdown, ended, doneSet, registered,
                 worker, pc, local, late, unfinished>>

\* __aio_reset_after_fork(): from here on the child, which has this thread only.
Fork(t) ==
  /\ At(t, "idle")
  /\ state' = Fresh /\ earlier' = NoOrder
  /\ group' = [c \in Cbs |-> None]
  /\ remaining' = [g \in Groups |-> 0]
  /\ waiters' = {} /\ triggered' = {}
  /\ started' = FALSE /\ sync' = FALSE /\ wake' = FALSE
  /\ shutdown' = FALSE /\ ended' = FALSE /\ doneSet' = FALSE
  /\ worker' = "none"
  /\ pc' = [u \in Threads |-> IF u = t THEN "idle" ELSE "gone"]
  /\ list' = [u \in Threads |-> {}]
  /\ job' = [a \in Actors |-> None]
  /\ pending' = [u \in Threads |-> {}]
  /\ mygroup' = [u \in Threads |-> None]
  /\ notes' = [a \in Actors |-> {}]
  /\ late' = {}
  /\ unfinished' = [u \in Threads |-> {}]
  /\ call' = [u \in Threads |-> "none"]
  /\ UNCHANGED <<registered, over>>

-----------------------------------------------------------------------------

Step(t) ==
  \/ Notify(t) \/ (\E c \in Cbs : Enqueue(t, c) \/ Reject(t, c)) \/ FinishSync(t) \/ Drop(t)
  \/ Submitted(t) \/ Collect(t) \/ SuspendLook(t) \/ SuspendLink(t) \/ SuspendWake(t)
  \/ ExitWaited(t)

Next ==
  \/ Worker
  \/ \E t \in Threads :
       \/ Step(t) \/ SuspendLate(t) \/ Exit(t) \/ Fork(t)
       \/ \E c \in Cbs : Return(t, c)
       \/ \E L \in SUBSET Cbs :
            Cancel(t, L) \/ Suspend(t, L) \/ \E how \in {"one", "nowait", "wait"} : Submit(t, how, L)

Spec == Init /\ [][Next]_vars

-----------------------------------------------------------------------------
(* Properties. *)

\* The members of a group that are in progress, those its lio_listio() still
\* has to submit, and those it could not submit and has to count off.
Members(g) == {c \in Cbs : group[c] = g /\ InProgress(c)}
Unsubmitted(g) == {x \in Threads \X Cbs : mygroup[x[1]] = g /\ x[2] \in list[x[1]]}
Dropping(g) == {t \in Threads : mygroup[t] = g /\ pc[t] = "drop"}

\* A group counts exactly these, so it becomes inactive, and is announced, once
\* and when its last member is done.
GroupCounted ==
  \A g \in Groups :
    remaining[g] = Cardinality(Members(g)) + Cardinality(Unsubmitted(g))
                     + Cardinality(Dropping(g))

\* A thread blocked in aio_suspend() whose event is not set waits only for
\* requests in progress, and a completion will find it; an idle worker whose
\* event is not set has nothing to perform and no shutdown to obey.  So no
\* wakeup is lost between a look at the table and the wait that follows it.
NoWakeupMissed ==
  /\ \A t \in Threads : pc[t] = "wait" /\ t \notin triggered => t \in waiters /\ ~Ready(t)
  /\ worker = "wait" /\ ~wake => Queued = {} /\ ~shutdown

\* When the exit hook lets the process end, the worker has left its loop, and
\* no request submitted before the shutdown is unperformed or unannounced.
Drained ==
  over /\ shutdown /\ started /\ ~sync =>
    /\ worker \in {"exited", "done"} /\ notes[None] = {}
    /\ \A c \in Cbs \ late : ~InProgress(c)

\* lio_listio() with LIO_WAIT returns success only when each request it
\* submitted has been completed since.
ListComplete == \A t \in Threads : pc[t] = "idle" => unfinished[t] = {}

-----------------------------------------------------------------------------
(* The inductive invariant. *)

\* What the counts of remaining are is GroupCounted's.
TableTyped ==
  /\ state \in [Cbs -> {"free", "queued", "running", "done"}]
  /\ earlier \in [Cbs -> SUBSET Cbs]
  /\ group \in [Cbs -> Groups \cup {None}]
  /\ remaining = [g \in Groups |-> remaining[g]]
  /\ waiters \subseteq Threads /\ triggered \subseteq Threads
  /\ late \subseteq Cbs

LifeTyped ==
  /\ started \in BOOLEAN /\ sync \in BOOLEAN /\ wake \in BOOLEAN
  /\ shutdown \in BOOLEAN /\ ended \in BOOLEAN /\ doneSet \in BOOLEAN
  /\ registered \in BOOLEAN /\ over \in BOOLEAN
  /\ worker \in {"none", "look", "wait", "perform", "notify", "exit", "exited", "done"}

CallsTyped ==
  /\ pc \in [Threads -> {"idle", "list", "perform", "notify", "drop", "collect",
                         "suspend", "link", "wait", "exit", "gone"}]
  /\ call \in [Threads -> {"none", "one", "nowait", "wait", "cancel", "suspend"}]
  /\ list \in [Threads -> SUBSET Cbs]
  /\ job \in [Actors -> Cbs \cup {None}]
  /\ pending \in [Threads -> SUBSET Cbs]
  /\ mygroup \in [Threads -> Groups \cup {None}]
  /\ notes \in [Actors -> SUBSET (Cbs \cup Groups)]
  /\ unfinished \in [Threads -> SUBSET Cbs]

TypeOK == TableTyped /\ LifeTyped /\ CallsTyped

\* A running request is performed by one actor: the worker, or in the
\* synchronous fallback the thread that has submitted it.
RunningPerformed ==
  /\ worker = "perform" => job[None] \in Cbs /\ state[job[None]] = "running"
  /\ \A t \in Threads :
       pc[t] = "perform" => sync /\ job[t] \in Cbs /\ state[job[t]] = "running"
  /\ \A t, u \in Threads :
       (pc[t] = "perform" /\ pc[u] = "perform" /\ job[t] = job[u]) => t = u
  /\ \A c \in Cbs : state[c] = "running" =>
       \/ worker = "perform" /\ job[None] = c
       \/ \E t \in Threads : pc[t] = "perform" /\ job[t] = c

\* What the flags say of the worker.  It leaves its loop with nothing to do,
\* after the shutdown, and only then does the exit hook return.
WorkerSound ==
  /\ worker # "none" <=> started /\ ~sync
  /\ sync => started
  /\ ended <=> worker \in {"exited", "done"}
  /\ doneSet <=> worker = "done"
  /\ worker # "notify" => notes[None] = {}
  /\ worker \in {"exit", "exited", "done"} =>
       shutdown /\ \A c \in Cbs : InProgress(c) => c \in late
  /\ over /\ shutdown /\ started /\ ~sync => worker \in {"exited", "done"}

\* A thread has a group only inside its lio_listio(), and what it must not
\* leave behind it still waits for.
CallSound(t) ==
  /\ mygroup[t] # None =>
       call[t] = "nowait" /\ pc[t] \in {"list", "perform", "notify", "drop"}
  /\ pc[t] = "drop" => mygroup[t] # None
  /\ pc[t] = "idle" => call[t] = "none"
  /\ \A c \in unfinished[t] : call[t] = "wait" /\ c \in pending[t] /\ InProgress(c)

CallsSound == \A t \in Threads : CallSound(t)

IInv == TypeOK /\ RunningPerformed /\ WorkerSound /\ CallsSound
=============================================================================

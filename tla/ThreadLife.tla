------------------------------ MODULE ThreadLife ------------------------------
(***************************************************************************)
(* The life of a pthread_t: pthread_create(), finish(), pthread_exit(),    *)
(* pthread_join() and pthread_detach() of src/src/thread/pthread.c.        *)
(*                                                                         *)
(* The flags of a control block are tested and set under the fast lock,    *)
(* but its handle is closed, and its last flags are written, after the     *)
(* lock was released: each of those stores is an action of its own, in     *)
(* program order.  Control blocks are never freed.                         *)
(*                                                                         *)
(* On NT the fast lock defers cancellation.  A request that arrives while  *)
(* a thread with asynchronous cancelability is inside finish()'s section,  *)
(* or waits for it, is delivered when the thread leaves: finish() is then  *)
(* run from its start again by a thread that was marked exited.            *)
(***************************************************************************)
EXTENDS Integers, FiniteSets

CONSTANTS
  Threads,   \* the threads of the process, each created at most once
  Main,      \* the initial thread
  NT         \* whether the backend is NT (TRUE) or Linux (FALSE)

ASSUME ThreadsAssumption == IsFiniteSet(Threads) /\ Main \in Threads
ASSUME BackendAssumption == NT \in BOOLEAN

VARIABLES
  known,         \* the threads that have a control block
  detached,      \* thread->detached
  exited,        \* thread->exited
  joining,       \* thread->joining
  joined,        \* thread->joined
  handle,        \* whether thread->handle is not null
  closes,        \* how often the thread's handle was closed
  request,       \* an asynchronous cancellation, as far as finish() meets it
  live_threads,  \* the static counter
  pc,            \* what each thread is doing
  arg,           \* the other thread of the call in progress
  processDone    \* exit() has been called

flagVars == <<detached, exited, joining, joined>>
vars == <<known, detached, exited, joining, joined, handle, closes,
          request, live_threads, pc, arg, processDone>>

\* Where a thread can be while a thread handle is its to close.
JoinStates == {"joinwait", "joinclose", "joinhandle", "joinflag", "joinlast"}
\* Between the release of finish()'s section and the end of its deferral, by
\* what finish() has to do next.
LeaveStates == {"leave", "leavelast", "leavedetached"}
ThreadStates ==
  {"none", "suspended", "run", "canceled", "spawned", "resume", "unwind",
   "detachclose", "detachhandle", "finishing", "tailclose", "tailhandle",
   "terminated"}
    \cup JoinStates \cup LeaveStates

\* "pending": finish()'s leave delivers it; "taken": it was acted on before
\* finish(), and cancel_running is set; "late": it was acted on in finish().
Requests == {"none", "pending", "taken", "late"}

Init ==
  /\ known = {}
  /\ detached = [t \in Threads |-> FALSE]
  /\ exited = [t \in Threads |-> FALSE]
  /\ joining = [t \in Threads |-> FALSE]
  /\ joined = [t \in Threads |-> FALSE]
  /\ handle = [t \in Threads |-> FALSE]
  /\ closes = [t \in Threads |-> 0]
  /\ request = [t \in Threads |-> "none"]
  /\ live_threads = 0
  /\ pc = [t \in Threads |-> IF t = Main THEN "run" ELSE "none"]
  /\ arg = [t \in Threads |-> t]
  /\ processDone = FALSE

Goto(t, l) == pc' = [pc EXCEPT ![t] = l]

\* __plat_thread_close(thread->handle); a null handle closes nothing.
Close(u) == closes' = [closes EXCEPT ![u] = IF handle[u] THEN @ + 1 ELSE @]

-----------------------------------------------------------------------------

\* __pthread_current() of a thread that has no control block yet.
Current(t) ==
  /\ pc[t] = "run"
  /\ t \notin known
  /\ known' = known \cup {t}
  /\ handle' = [handle EXCEPT ![t] = TRUE]
  /\ live_threads' = live_threads + 1
  /\ UNCHANGED <<flagVars, closes, request, pc, arg, processDone>>

\* pthread_create(), up to the suspended native thread.  A caller that passes
\* PTHREAD_EXPLICIT_SCHED may have no control block of its own.
Spawn(t, u, d) ==
  /\ pc[t] = "run"
  /\ pc[u] = "none"
  /\ known' = known \cup {u}
  /\ detached' = [detached EXCEPT ![u] = d]
  /\ handle' = [handle EXCEPT ![u] = TRUE]
  /\ pc' = [pc EXCEPT ![t] = "spawned", ![u] = "suspended"]
  /\ arg' = [arg EXCEPT ![t] = u]
  /\ UNCHANGED <<exited, joining, joined, closes, request, live_threads,
                 processDone>>

\* Mutant: the new thread is counted only after it was resumed.
Count_AfterResume(t) ==
  /\ pc[t] = "spawned"
  /\ pc' = [pc EXCEPT ![t] = "resume", ![arg[t]] = "run"]
  /\ UNCHANGED <<known, flagVars, handle, closes, request, live_threads, arg,
                 processDone>>

\* pthread_create(): the new thread is counted before it can run.
Count(t) ==
  /\ pc[t] = "spawned"
  /\ live_threads' = live_threads + 1
  /\ Goto(t, "resume")
  /\ UNCHANGED <<known, flagVars, handle, closes, request, arg, processDone>>

\* pthread_create(): __plat_thread_resume() succeeds.
Resume(t) ==
  /\ pc[t] = "resume"
  /\ pc' = [pc EXCEPT ![t] = "run", ![arg[t]] = "run"]
  /\ UNCHANGED <<known, flagVars, handle, closes, request, live_threads, arg,
                 processDone>>

\* pthread_create(): __plat_thread_resume() fails; the control block becomes
\* a tombstone and the native thread never runs.
ResumeFails(t) ==
  /\ pc[t] = "resume"
  /\ Close(arg[t])
  /\ handle' = [handle EXCEPT ![arg[t]] = FALSE]
  /\ joined' = [joined EXCEPT ![arg[t]] = TRUE]
  /\ Goto(t, "unwind")
  /\ UNCHANGED <<known, detached, exited, joining, request, live_threads, arg,
                 processDone>>

\* pthread_create(): the failed thread is no longer counted; EAGAIN.
Uncount(t) ==
  /\ pc[t] = "unwind"
  /\ live_threads' = live_threads - 1
  /\ Goto(t, "run")
  /\ UNCHANGED <<known, flagVars, handle, closes, request, arg, processDone>>

-----------------------------------------------------------------------------

\* finish(), by a return from the start routine or pthread_exit(): cleanup
\* handlers and destructors have run, and it goes for the fast lock, which on
\* NT begins a deferral.
FinishEnter(t) ==
  /\ pc[t] = "run"
  /\ t \in known
  /\ Goto(t, "finishing")
  /\ UNCHANGED <<known, flagVars, handle, closes, request, live_threads, arg,
                 processDone>>

\* finish(), its section.  A canceled thread comes here with cancelability
\* disabled.
Finish(t) ==
  /\ pc[t] \in {"finishing", "canceled"}
  /\ exited' = [exited EXCEPT ![t] = TRUE]
  /\ live_threads' = live_threads - 1
  /\ Goto(t, IF live_threads = 1 THEN "leavelast"
             ELSE IF detached[t] THEN "leavedetached" ELSE "leave")
  /\ UNCHANGED <<known, detached, joining, joined, handle, closes, request,
                 arg, processDone>>

\* __pthread_cancel_defer_leave() in finish()'s unlock finds a request:
\* __pthread_cancel_current() disables cancelability and runs finish() again,
\* which forgets what the first run read under the lock.
LeaveDelivers(t) ==
  /\ pc[t] \in LeaveStates
  /\ request[t] = "pending"
  /\ request' = [request EXCEPT ![t] = "late"]
  /\ Goto(t, "canceled")
  /\ UNCHANGED <<known, flagVars, handle, closes, live_threads, arg,
                 processDone>>

\* finish()'s unlock finds none: the last thread exits the process.
Leave(t) ==
  /\ pc[t] \in LeaveStates
  /\ request[t] # "pending"
  /\ processDone' = (pc[t] = "leavelast")
  /\ Goto(t, IF pc[t] = "leavedetached" THEN "tailclose" ELSE "terminated")
  /\ UNCHANGED <<known, flagVars, handle, closes, request, live_threads, arg>>

\* finish(): a detached thread closes its own handle.  On Linux the handle is
\* also the pseudo handle of its thread, which is left alone.
TailClose(t) ==
  /\ pc[t] = "tailclose"
  /\ IF handle[t] /\ NT
       THEN Close(t) /\ Goto(t, "tailhandle")
       ELSE Goto(t, "terminated") /\ UNCHANGED closes
  /\ UNCHANGED <<known, flagVars, handle, request, live_threads, arg,
                 processDone>>

TailHandle(t) ==
  /\ pc[t] = "tailhandle"
  /\ handle' = [handle EXCEPT ![t] = FALSE]
  /\ Goto(t, "terminated")
  /\ UNCHANGED <<known, flagVars, closes, request, live_threads, arg,
                 processDone>>

-----------------------------------------------------------------------------

\* The other threads whose pthread_t a thread can have been given.
Visible(t) ==
  {u \in known \ {t} : pc[u] \notin {"none", "suspended"} \/ joined[u]}

\* pthread_cancel() of a thread with asynchronous cancelability that is in
\* finish(): inside a deferral the request stays pending.  Any other request
\* leads to one finish(), or is acted on in pthread_join().
CancelLate(t, u) ==
  /\ NT
  /\ pc[t] = "run"
  /\ u \in Visible(t)
  /\ pc[u] \in {"finishing"} \cup LeaveStates
  /\ handle[u] \/ ~exited[u]
  /\ request[u] = "none"
  /\ request' = [request EXCEPT ![u] = "pending"]
  /\ UNCHANGED <<known, flagVars, handle, closes, live_threads, pc, arg,
                 processDone>>

\* pthread_join(), its section when it claims the thread.  Otherwise it
\* returns EINVAL or ESRCH.
Join(t, u) ==
  /\ pc[t] = "run"
  /\ t \in known
  /\ u \in Visible(t)
  /\ ~detached[u]
  /\ ~joined[u] /\ ~joining[u] /\ handle[u]
  /\ joining' = [joining EXCEPT ![u] = TRUE]
  /\ Goto(t, "joinwait")
  /\ arg' = [arg EXCEPT ![t] = u]
  /\ UNCHANGED <<known, detached, exited, joined, handle, closes, request,
                 live_threads, processDone>>

\* Mutant: an interrupted wait is taken for the end of the thread.
JoinWaitOk_Interrupted(t) ==
  /\ pc[t] = "joinwait"
  /\ Goto(t, "joinclose")
  /\ UNCHANGED <<known, flagVars, handle, closes, request, live_threads, arg,
                 processDone>>

\* __plat_wait_one() on the handle returns OK: the native thread is gone.
JoinWaitOk(t) ==
  /\ pc[t] = "joinwait"
  /\ pc[arg[t]] = "terminated"
  /\ Goto(t, "joinclose")
  /\ UNCHANGED <<known, flagVars, handle, closes, request, live_threads, arg,
                 processDone>>

\* __pthread_testcancel() before or after the wait acts on a request:
\* join_cleanup() gives the claim back and the joiner goes on to finish().
JoinCanceled(t) ==
  /\ pc[t] = "joinwait"
  /\ joining' = [joining EXCEPT ![arg[t]] = FALSE]
  /\ request' = [request EXCEPT ![t] = "taken"]
  /\ Goto(t, "canceled")
  /\ UNCHANGED <<known, detached, exited, joined, handle, closes, live_threads,
                 arg, processDone>>

\* __plat_wait_one() returns ERROR: EINVAL.
JoinError(t) ==
  /\ pc[t] = "joinwait"
  /\ joining' = [joining EXCEPT ![arg[t]] = FALSE]
  /\ Goto(t, "run")
  /\ UNCHANGED <<known, detached, exited, joined, handle, closes, request,
                 live_threads, arg, processDone>>

\* The tail of pthread_join(), outside the lock: close, then three stores.
JoinClose(t) ==
  /\ pc[t] = "joinclose"
  /\ Close(arg[t])
  /\ Goto(t, "joinhandle")
  /\ UNCHANGED <<known, flagVars, handle, request, live_threads, arg,
                 processDone>>

\* Mutant: the claim is dropped before the handle is.
JoinHandle_FlagFirst(t) ==
  /\ pc[t] = "joinhandle"
  /\ joining' = [joining EXCEPT ![arg[t]] = FALSE]
  /\ Goto(t, "joinflag")
  /\ UNCHANGED <<known, detached, exited, joined, handle, closes, request,
                 live_threads, arg, processDone>>

JoinHandle(t) ==
  /\ pc[t] = "joinhandle"
  /\ handle' = [handle EXCEPT ![arg[t]] = FALSE]
  /\ Goto(t, "joinflag")
  /\ UNCHANGED <<known, flagVars, closes, request, live_threads, arg,
                 processDone>>

JoinFlag(t) ==
  /\ pc[t] = "joinflag"
  /\ joining' = [joining EXCEPT ![arg[t]] = FALSE]
  /\ Goto(t, "joinlast")
  /\ UNCHANGED <<known, detached, exited, joined, handle, closes, request,
                 live_threads, arg, processDone>>

JoinLast(t) ==
  /\ pc[t] = "joinlast"
  /\ joined' = [joined EXCEPT ![arg[t]] = TRUE]
  /\ Goto(t, "run")
  /\ UNCHANGED <<known, detached, exited, joining, handle, closes, request,
                 live_threads, arg, processDone>>

\* Mutant: the thread that detaches always leaves the handle to the thread.
Detach_NeverCloses(t, u) ==
  /\ pc[t] = "run"
  /\ u \in Visible(t) \cup ({t} \cap known)
  /\ ~joined[u] /\ (handle[u] \/ ~exited[u])
  /\ ~detached[u] /\ ~joining[u]
  /\ detached' = [detached EXCEPT ![u] = TRUE]
  /\ UNCHANGED <<known, exited, joining, joined, handle, closes, request,
                 live_threads, pc, arg, processDone>>

\* pthread_detach(), its section when it detaches.
Detach(t, u) ==
  /\ pc[t] = "run"
  /\ u \in Visible(t) \cup ({t} \cap known)
  /\ ~joined[u] /\ (handle[u] \/ ~exited[u])
  /\ ~detached[u] /\ ~joining[u]
  /\ detached' = [detached EXCEPT ![u] = TRUE]
  /\ arg' = [arg EXCEPT ![t] = u]
  /\ Goto(t, IF exited[u] /\ handle[u] THEN "detachclose" ELSE "run")
  /\ UNCHANGED <<known, exited, joining, joined, handle, closes, request,
                 live_threads, processDone>>

DetachClose(t) ==
  /\ pc[t] = "detachclose"
  /\ Close(arg[t])
  /\ Goto(t, "detachhandle")
  /\ UNCHANGED <<known, flagVars, handle, request, live_threads, arg,
                 processDone>>

DetachHandle(t) ==
  /\ pc[t] = "detachhandle"
  /\ handle' = [handle EXCEPT ![arg[t]] = FALSE]
  /\ Goto(t, "run")
  /\ UNCHANGED <<known, flagVars, closes, request, live_threads, arg,
                 processDone>>

Step(t) ==
  \/ Current(t)
  \/ \E u \in Threads, d \in BOOLEAN : Spawn(t, u, d)
  \/ Count(t)
  \/ Resume(t)
  \/ ResumeFails(t)
  \/ Uncount(t)
  \/ FinishEnter(t)
  \/ Finish(t)
  \/ LeaveDelivers(t)
  \/ Leave(t)
  \/ TailClose(t)
  \/ TailHandle(t)
  \/ \E u \in Threads : CancelLate(t, u)
  \/ \E u \in Threads : Join(t, u)
  \/ JoinWaitOk(t)
  \/ JoinCanceled(t)
  \/ JoinError(t)
  \/ JoinClose(t)
  \/ JoinHandle(t)
  \/ JoinFlag(t)
  \/ JoinLast(t)
  \/ \E u \in Threads : Detach(t, u)
  \/ DetachClose(t)
  \/ DetachHandle(t)

\* exit() ends every thread.
Next == ~processDone /\ \E t \in Threads : Step(t)

Spec == Init /\ [][Next]_vars

-----------------------------------------------------------------------------

TypeOK ==
  /\ known \subseteq Threads
  /\ detached \in [Threads -> BOOLEAN]
  /\ exited \in [Threads -> BOOLEAN]
  /\ joining \in [Threads -> BOOLEAN]
  /\ joined \in [Threads -> BOOLEAN]
  /\ handle \in [Threads -> BOOLEAN]
  /\ closes \in [Threads -> Nat]
  /\ request \in [Threads -> Requests]
  /\ live_threads \in Int
  /\ pc \in [Threads -> ThreadStates]
  /\ arg \in [Threads -> Threads]
  /\ processDone \in BOOLEAN

\* The threads that are responsible for closing u's handle right now.
Closers(u) ==
  {t \in Threads : \/ arg[t] = u /\ pc[t] \in {"joinclose", "detachclose"}
                   \/ t = u /\ pc[t] = "tailclose"}

\* The threads that hold the claim on u that is marked by joining.
Claiming == {"joinwait", "joinclose", "joinhandle", "joinflag"}
Joiners(u) == {t \in Threads : arg[t] = u /\ pc[t] \in Claiming}

\* However a join, a detach and the end of the thread interleave, its handle
\* is closed at most once, by one of them, and never while a joiner sleeps on
\* it.  The one exception is a thread to which finish()'s unlock delivers a
\* request: it may close a handle that pthread_detach() closes.
ClosedOnce ==
  \A u \in Threads :
    /\ request[u] # "late" => closes[u] + Cardinality(Closers(u)) <= 1
    /\ closes[u] # 0 \/ Closers(u) # {} =>
         \A t \in Threads : ~(arg[t] = u /\ pc[t] = "joinwait")

\* Nothing is left behind.  A thread that has ended and was joined, or on NT
\* detached, has no open handle once the call that reclaims it is over, and it
\* is marked as being joined exactly while one thread is joining it
\* (join_cleanup(): a canceled joiner would otherwise "leave its target
\* permanently unjoinable").
Reclaimed ==
  \A u \in Threads :
    /\ (/\ pc[u] = "terminated" /\ ~processDone
        /\ joined[u] \/ (NT /\ detached[u])
        /\ Closers(u) = {})
       => closes[u] # 0
    /\ Cardinality(Joiners(u)) = IF joining[u] THEN 1 ELSE 0

\* A joiner goes on only after the thread it joins has ended, so the result it
\* reads is final ("the target thread has NOT necessarily exited just because
\* the wait was interrupted").
JoinAfterEnd ==
  \A t \in Threads : pc[t] \in JoinStates \ {"joinwait"} =>
    exited[arg[t]] /\ pc[arg[t]] = "terminated"

\* The control blocks that stand for a thread which can still run: not those
\* whose native thread is not counted yet, or is a tombstone.
Countable ==
  {u \in known :
     /\ ~exited[u]
     /\ ~\E t \in Threads : pc[t] = "spawned" /\ arg[t] = u
     /\ joined[u] => \E t \in Threads : pc[t] = "unwind" /\ arg[t] = u}

\* The threads that have run finish()'s section twice.
FinishedTwice == {u \in Threads : request[u] = "late" /\ pc[u] # "canceled"}

\* live_threads is the number of those, whatever creations, failures and ends
\* overlap, less one for each thread that ran finish()'s section twice: the
\* count that finish() compares with zero is exact as long as no request is
\* delivered by finish()'s own unlock, and then short by that thread.
LiveCounted ==
  live_threads = Cardinality(Countable) - Cardinality(FinishedTwice)

-----------------------------------------------------------------------------
(* The inductive invariant.                                                *)

\* Where a thread can be with the flags and the request it has: exited is set
\* from finish()'s section on, also while a late request runs finish() again.
EndsSound ==
  \A u \in Threads :
    /\ exited[u] <=>
         \/ pc[u] \in LeaveStates
         \/ pc[u] \in {"tailclose", "tailhandle", "terminated"}
         \/ pc[u] = "canceled" /\ request[u] = "late"
    /\ request[u] = "pending" => pc[u] \in {"finishing"} \cup LeaveStates
    /\ request[u] = "taken" => pc[u] = "canceled" \/ exited[u]
    /\ request[u] = "late" => exited[u]
    /\ u \notin known => ~exited[u]
    /\ pc[u] = "none" => u \notin known
    /\ pc[u] \in {"joinwait", "finishing", "canceled"} => u \in known

\* What a control block says of its thread's handle.  One that is closed and
\* not null yet is covered by a flag that keeps everybody else from it.
BlocksSound ==
  \A u \in Threads :
    /\ u \notin known => closes[u] = 0 /\ ~joined[u]
    /\ joined[u] => pc[u] \in {"suspended", "terminated"} /\ closes[u] = 1
    /\ (u \in known /\ ~exited[u] /\ ~joined[u]) => closes[u] = 0 /\ handle[u]
    /\ request[u] # "late" => closes[u] <= 1
    /\ closes[u] # 0 => ~handle[u] \/ joining[u] \/ detached[u]
    /\ (u \in known /\ ~handle[u]) => closes[u] # 0
    /\ pc[u] \in {"leavedetached", "tailclose"} =>
         detached[u] /\ (request[u] # "late" => closes[u] = 0 /\ handle[u])
    /\ pc[u] = "tailhandle" => detached[u] /\ closes[u] # 0

\* A detached thread that will not close its handle itself has left that to
\* the thread that detached it.
LeftOpen(u) ==
  /\ NT /\ ~processDone
  /\ pc[u] \in {"leave", "terminated"}
  /\ detached[u] /\ closes[u] = 0

HandleLeft ==
  \A u \in Threads : LeftOpen(u) =>
    \E t \in Threads : arg[t] = u /\ pc[t] = "detachclose"

\* A new thread belongs to the one creator that has not resumed it, and a
\* tombstone to the one that is giving up.
CreatorsSound ==
  /\ \A t \in Threads :
       /\ pc[t] \in {"spawned", "resume"} =>
            /\ arg[t] \in known
            /\ pc[arg[t]] = "suspended"
            /\ ~joined[arg[t]]
       /\ pc[t] = "unwind" =>
            arg[t] \in known /\ pc[arg[t]] = "suspended" /\ joined[arg[t]]
  /\ \A t, v \in Threads :
       (/\ pc[t] \in {"spawned", "resume", "unwind"}
        /\ pc[v] \in {"spawned", "resume", "unwind"}
        /\ arg[t] = arg[v]) => t = v

\* A joiner has its target to itself, and closes the handle once the target
\* is gone.
JoinersSound ==
  /\ \A t \in Threads :
       /\ pc[t] \in Claiming =>
            /\ arg[t] \in known
            /\ joining[arg[t]] /\ ~detached[arg[t]] /\ ~joined[arg[t]]
            /\ pc[arg[t]] \notin {"none", "suspended"}
       /\ pc[t] \in JoinStates \ {"joinwait"} => pc[arg[t]] = "terminated"
       /\ pc[t] \in {"joinwait", "joinclose"} => closes[arg[t]] = 0
       /\ pc[t] \in {"joinhandle", "joinflag", "joinlast"} =>
            closes[arg[t]] = 1
       /\ pc[t] \in {"joinflag", "joinlast"} => ~handle[arg[t]]
       /\ pc[t] = "joinlast" => ~joining[arg[t]] /\ ~detached[arg[t]]
  /\ \A t, v \in Threads :
       (pc[t] \in Claiming /\ pc[v] \in Claiming /\ arg[t] = arg[v]) => t = v
  /\ \A u \in Threads :
       joining[u] => \E t \in Threads : arg[t] = u /\ pc[t] \in Claiming

\* The thread that detaches one that has ended is its only closer, unless the
\* thread runs finish() again.
DetachersSound ==
  /\ \A t \in Threads :
       /\ pc[t] \in {"detachclose", "detachhandle"} =>
            /\ detached[arg[t]] /\ exited[arg[t]] /\ ~joined[arg[t]]
            /\ request[arg[t]] # "late" =>
                 pc[arg[t]] \in {"leave", "leavelast", "terminated"}
       /\ pc[t] = "detachclose" /\ request[arg[t]] # "late" =>
            closes[arg[t]] = 0 /\ handle[arg[t]]
       /\ pc[t] = "detachhandle" => closes[arg[t]] # 0
  /\ \A t, v \in Threads :
       (/\ pc[t] \in {"detachclose", "detachhandle"}
        /\ pc[v] \in {"detachclose", "detachhandle"}
        /\ arg[t] = arg[v]) => t = v

IInv ==
  /\ TypeOK /\ EndsSound /\ BlocksSound /\ HandleLeft
  /\ CreatorsSound /\ JoinersSound /\ DetachersSound
  /\ LiveCounted
=============================================================================

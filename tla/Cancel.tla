-------------------------------- MODULE Cancel --------------------------------
(***************************************************************************)
(* Thread cancellation: src/src/thread/pthread_cancel.c.                   *)
(*                                                                         *)
(* Every thread may be canceled, and cancel others, while it runs.  A      *)
(* deferred request waits for a cancellation point; an asynchronous one is *)
(* forced on the target by suspending it, moving its instruction pointer   *)
(* to a trampoline and resuming it.  Holding the fast lock is a deferral   *)
(* region on NT (the RtlAcquirePebLock() macros of internal/libc.h): the   *)
(* outermost leave delivers what was held back, also the one in finish(),  *)
(* which then runs a second time.                                          *)
(*                                                                         *)
(* The targets are joinable threads nobody has joined yet, so that         *)
(* thread->handle is not null and pthread_cancel() does not return ESRCH.  *)
(***************************************************************************)
EXTENDS Naturals, FiniteSets

CONSTANTS
  Threads,
  None,
  MayCancel,   \* the pairs <<t, u>> such that the program of t cancels u
  NT,          \* TRUE: the NT backend; FALSE: the Linux one
  Failures     \* whether the backend's thread calls may fail

ASSUME CancelAssumption ==
  /\ IsFiniteSet(Threads)
  /\ None \notin Threads
  /\ MayCancel \subseteq Threads \X Threads
  /\ NT \in BOOLEAN
  /\ Failures \in BOOLEAN

VARIABLES
  state,      \* thread->cancel_state is PTHREAD_CANCEL_ENABLE
  async,      \* thread->cancel_type is PTHREAD_CANCEL_ASYNCHRONOUS
  pending,    \* thread->cancel_pending
  queued,     \* thread->cancel_queued
  running,    \* thread->cancel_running
  depth,      \* thread->cancel_defer_depth
  unsafe,     \* thread->cancel_unsafe_depth > 0
  exited,     \* thread->exited
  apc,        \* a cancel_apc() waits for the thread's next alertable wait
  suspenders, \* the threads whose suspension of this thread is in force
  lock,       \* the owner of the fast lock
  pc, op, arg, \* where a thread is, in which operation, on which thread
  cancel,     \* the local of that name in testcancel and cancel_apc()
  entries,    \* how often the thread entered cancel_current_claimed()
  aborted,    \* __plat_cancel_unsafe_abort() ended the process
  failed,     \* history: a call of the backend has failed
  stuck       \* the threads that a failed resume has left suspended

flags == <<state, async, pending, queued, running>>
calls == <<pc, op, arg, cancel>>
procVars == <<aborted, failed, stuck>>
vars == <<flags, depth, unsafe, exited, apc, suspenders, lock, calls, entries,
          procVars>>

Targets == {p[2] : p \in MayCancel}
Operations == {"none", "state", "type", "test", "apc", "cancel", "finish"}
Places == {"user", "lock", "section", "suspend", "inspect", "resume",
           "resumeAbort", "resumeQueue", "queue", "unqueue", "tail", "check",
           "claim", "claimed", "cleanup", "returning", "exited", "gone"}

Init ==
  /\ state = [t \in Threads |-> TRUE]
  /\ async = [t \in Threads |-> FALSE]
  /\ pending = [t \in Threads |-> FALSE]
  /\ queued = [t \in Threads |-> FALSE]
  /\ running = [t \in Threads |-> FALSE]
  /\ depth = [t \in Threads |-> 0]
  /\ unsafe = [t \in Threads |-> FALSE]
  /\ exited = [t \in Threads |-> FALSE]
  /\ apc = [t \in Threads |-> FALSE]
  /\ suspenders = [t \in Threads |-> {}]
  /\ lock = None
  /\ pc = [t \in Threads |-> "user"]
  /\ op = [t \in Threads |-> "none"]
  /\ arg = [t \in Threads |-> t]
  /\ cancel = [t \in Threads |-> FALSE]
  /\ entries = [t \in Threads |-> 0]
  /\ aborted = FALSE
  /\ failed = FALSE
  /\ stuck = {}

Goto(t, l) == pc' = [pc EXCEPT ![t] = l] /\ UNCHANGED <<op, arg, cancel>>

-----------------------------------------------------------------------------
(* What the program does.                                                  *)

\* How many deferral levels an operation holds inside its section: one of its
\* own in the three async-cancel-safe functions, and one with the lock on NT.
LockLevel == IF NT THEN 1 ELSE 0
OwnLevel(o) == IF o \in {"state", "type", "cancel"} THEN 1 ELSE 0

\* Mutant: taking the lock does not defer cancellation.
Enter_NoDefer(t, o, u) ==
  /\ pc[t] = "user"
  /\ pc' = [pc EXCEPT ![t] = "lock"]
  /\ op' = [op EXCEPT ![t] = o]
  /\ arg' = [arg EXCEPT ![t] = u]
  /\ cancel' = [cancel EXCEPT ![t] = FALSE]
  /\ depth' = [depth EXCEPT ![t] = @ + OwnLevel(o)]
  /\ UNCHANGED <<flags, unsafe, exited, apc, suspenders, lock, entries,
                 procVars>>

\* An operation starts: __pthread_cancel_defer_enter(), as often as it is
\* called before the lock is requested.
Enter(t, o, u) ==
  /\ pc[t] = "user"
  /\ pc' = [pc EXCEPT ![t] = "lock"]
  /\ op' = [op EXCEPT ![t] = o]
  /\ arg' = [arg EXCEPT ![t] = u]
  /\ cancel' = [cancel EXCEPT ![t] = FALSE]
  /\ depth' = [depth EXCEPT ![t] = @ + OwnLevel(o) + LockLevel]
  /\ UNCHANGED <<flags, unsafe, exited, apc, suspenders, lock, entries,
                 procVars>>

\* The alertable wait of a thread runs the cancel_apc() queued for it.
RunApc(t) ==
  /\ apc[t]
  /\ pc[t] = "user"
  /\ apc' = [apc EXCEPT ![t] = FALSE]
  /\ pc' = [pc EXCEPT ![t] = "lock"]
  /\ op' = [op EXCEPT ![t] = "apc"]
  /\ depth' = [depth EXCEPT ![t] = @ + LockLevel]
  /\ cancel' = [cancel EXCEPT ![t] = FALSE]
  /\ UNCHANGED <<flags, unsafe, exited, suspenders, lock, arg, entries,
                 procVars>>

\* __pthread_cancel_unsafe_enter() and __pthread_cancel_unsafe_leave().
Unsafe(t) ==
  /\ pc[t] = "user"
  /\ unsafe' = [unsafe EXCEPT ![t] = ~@]
  /\ UNCHANGED <<flags, depth, exited, apc, suspenders, lock, calls, entries,
                 procVars>>

\* The start routine returns; finish() runs handlers and destructors.
Return(t) ==
  /\ pc[t] = "user"
  /\ ~unsafe[t]
  /\ Goto(t, "returning")
  /\ UNCHANGED <<flags, depth, unsafe, exited, apc, suspenders, lock, entries,
                 procVars>>

-----------------------------------------------------------------------------
(* Sections of the fast lock.                                              *)

Acquire(t) ==
  /\ pc[t] = "lock"
  /\ lock = None
  /\ lock' = t
  /\ Goto(t, "section")
  /\ UNCHANGED <<flags, depth, unsafe, exited, apc, suspenders, entries,
                 procVars>>

\* The end of a section: the lock is released, then the deferral level that
\* came with it.
Release(t, l) ==
  /\ pc[t] = "section"
  /\ lock' = None
  /\ depth' = [depth EXCEPT ![t] = IF @ = 0 THEN 0 ELSE @ - LockLevel]
  /\ pc' = [pc EXCEPT ![t] = l]
  /\ UNCHANGED <<unsafe, apc, suspenders, op, arg, entries, procVars>>

\* pthread_setcancelstate().  The call of __pthread_cancel_current() that
\* follows the section returns at once: the function's own level is still held.
SetState(t) ==
  /\ op[t] = "state"
  /\ Release(t, "tail")
  /\ state' = [state EXCEPT ![t] = ~@]
  /\ UNCHANGED <<async, pending, queued, running, exited, cancel>>

\* pthread_setcanceltype(), likewise.
SetType(t) ==
  /\ op[t] = "type"
  /\ Release(t, "tail")
  /\ async' = [async EXCEPT ![t] = ~@]
  /\ UNCHANGED <<state, pending, queued, running, exited, cancel>>

\* __pthread_testcancel().
TestCancel(t) ==
  /\ op[t] = "test"
  /\ Release(t, "check")
  /\ cancel' = [cancel EXCEPT ![t] = state[t] /\ pending[t]]
  /\ UNCHANGED <<flags, exited>>

\* cancel_apc().
CancelApc(t) ==
  /\ op[t] = "apc"
  /\ Release(t, "check")
  /\ cancel' = [cancel EXCEPT ![t] = state[t] /\ pending[t] /\ async[t]]
  /\ queued' = [queued EXCEPT ![t] = FALSE]
  /\ UNCHANGED <<state, async, pending, running, exited>>

\* finish(), after the cleanup handlers and destructors: it goes for the lock.
FinishEnter(t) ==
  /\ pc[t] \in {"cleanup", "returning"}
  /\ pc' = [pc EXCEPT ![t] = "lock"]
  /\ op' = [op EXCEPT ![t] = "finish"]
  /\ cancel' = [cancel EXCEPT ![t] = FALSE]
  /\ depth' = [depth EXCEPT ![t] = @ + LockLevel]
  /\ UNCHANGED <<flags, unsafe, exited, apc, suspenders, lock, arg, entries,
                 procVars>>

\* finish(): its section.
Finish(t) ==
  /\ op[t] = "finish"
  /\ Release(t, "check")
  /\ exited' = [exited EXCEPT ![t] = TRUE]
  /\ UNCHANGED <<flags, cancel>>

\* pthread_cancel(): its section.
PthreadCancel(t) ==
  LET u == arg[t]
      deliver == state[u] /\ ~queued[u]
  IN /\ op[t] = "cancel"
     /\ pending' = [pending EXCEPT ![u] = TRUE]
     /\ queued' = [queued EXCEPT ![u] = @ \/ deliver]
     /\ Release(t, IF ~deliver THEN "tail"
                   ELSE IF t # u /\ async[u] THEN "suspend" ELSE "queue")
     /\ UNCHANGED <<state, async, running, exited, cancel>>

\* __pthread_cancel_defer_leave() at the end of the three functions.
Tail(t) ==
  /\ pc[t] = "tail"
  /\ depth' = [depth EXCEPT ![t] = IF @ = 0 THEN 0 ELSE @ - 1]
  /\ Goto(t, "check")
  /\ UNCHANGED <<flags, unsafe, exited, apc, suspenders, lock, entries,
                 procVars>>

\* Whether an asynchronous request can be acted on now.
AsyncDue(t) == state[t] /\ async[t] /\ pending[t]

\* Where a thread goes on after an operation that did not cancel it.
Onward(t) == IF op[t] = "finish" THEN "exited" ELSE "user"

\* Mutant: leaving the outermost deferral region delivers nothing.
Check_NoDelivery(t) ==
  /\ pc[t] = "check"
  /\ Goto(t, IF cancel[t] THEN "claim" ELSE Onward(t))
  /\ UNCHANGED <<flags, depth, unsafe, exited, apc, suspenders, lock, entries,
                 procVars>>

\* What __pthread_cancel_defer_leave() reads once it left the outermost
\* region (the Linux lock has no such leave), and the caller's own decision.
Check(t) ==
  /\ pc[t] = "check"
  /\ LET leave == NT \/ OwnLevel(op[t]) = 1
     IN Goto(t, IF cancel[t] \/ (leave /\ AsyncDue(t))
                  THEN "claim" ELSE Onward(t))
  /\ UNCHANGED <<flags, depth, unsafe, exited, apc, suspenders, lock, entries,
                 procVars>>

-----------------------------------------------------------------------------
(* Acting on a request.                                                    *)

\* __pthread_cancel_current() aborts the process in an unsafe region.
ClaimUnsafe(t) ==
  /\ pc[t] = "claim"
  /\ state[t] /\ async[t] /\ unsafe[t]
  /\ aborted' = TRUE
  /\ UNCHANGED <<flags, depth, unsafe, exited, apc, suspenders, lock, calls,
                 entries, failed, stuck>>

\* __pthread_cancel_current(): the compare-and-exchange on cancel_running.
Claim(t) ==
  /\ pc[t] = "claim"
  /\ ~(state[t] /\ async[t] /\ unsafe[t])
  /\ running' = [running EXCEPT ![t] = TRUE]
  /\ entries' = [entries EXCEPT ![t] = IF running[t] THEN @ ELSE @ + 1]
  /\ Goto(t, IF running[t] THEN Onward(t) ELSE "claimed")
  /\ UNCHANGED <<state, async, pending, queued, depth, unsafe, exited, apc,
                 suspenders, lock, procVars>>

\* cancel_current_claimed(): its section; pthread_exit() runs the handlers.
Claimed(t) ==
  /\ pc[t] = "claimed"
  /\ lock = None
  /\ pending' = [pending EXCEPT ![t] = FALSE]
  /\ queued' = [queued EXCEPT ![t] = FALSE]
  /\ state' = [state EXCEPT ![t] = FALSE]
  /\ Goto(t, "cleanup")
  /\ UNCHANGED <<async, running, depth, unsafe, exited, apc, suspenders, lock,
                 entries, procVars>>

\* __plat_thread_terminate_self(), or the return from thread_entry().
Terminate(t) ==
  /\ pc[t] = "exited"
  /\ Goto(t, "gone")
  /\ UNCHANGED <<flags, depth, unsafe, exited, apc, suspenders, lock, entries,
                 procVars>>

-----------------------------------------------------------------------------
(* redirect_async_cancel() and the APC.                                    *)

\* __plat_thread_suspend(): kill(SIGSTOP) on Linux.
Suspend(t) ==
  /\ pc[t] = "suspend"
  /\ pc[arg[t]] # "gone"
  /\ suspenders' = [suspenders EXCEPT ![arg[t]] = @ \cup {t}]
  /\ Goto(t, "inspect")
  /\ UNCHANGED <<flags, depth, unsafe, exited, apc, lock, entries, procVars>>

\* It fails on a thread that is gone, or by itself.
SuspendFails(t) ==
  /\ pc[t] = "suspend"
  /\ Failures \/ pc[arg[t]] = "gone"
  /\ failed' = (failed \/ pc[arg[t]] # "gone")
  /\ Goto(t, "queue")
  /\ UNCHANGED <<flags, depth, unsafe, exited, apc, suspenders, lock, entries,
                 aborted, stuck>>

\* Mutant: cancel_running is not looked at.
Consumed_IgnoresRunning(u) == ~pending[u] \/ exited[u]

\* The request was consumed, or is being consumed, by the target itself.
Consumed(u) == ~pending[u] \/ running[u] \/ exited[u]

\* Mutant: the settings found when the request was made are trusted.
Interruptible_NoRecheck(u) == depth[u] = 0

\* The target is where its instruction pointer can be moved.
Interruptible(u) == state[u] /\ async[u] /\ depth[u] = 0

\* The tests made on the suspended target, when it is not redirected.
Inspect(t) ==
  LET u == arg[t] IN
  /\ pc[t] = "inspect"
  /\ \/ Consumed(u) /\ Goto(t, "resume")
     \/ /\ ~Consumed(u)
        /\ ~Interruptible(u)
        /\ Goto(t, "resumeQueue")
     \/ /\ ~Consumed(u)
        /\ Interruptible(u)
        /\ unsafe[u]
        /\ Goto(t, "resumeAbort")
  /\ UNCHANGED <<flags, depth, unsafe, exited, apc, suspenders, lock, entries,
                 procVars>>

\* The claim on cancel_running succeeds (the target is suspended) and
\* __plat_thread_redirect_ip() sends it to cancel_current_claimed().
Redirect(t) ==
  LET u == arg[t] IN
  /\ pc[t] = "inspect"
  /\ NT
  /\ ~Consumed(u) /\ Interruptible(u) /\ ~unsafe[u]
  /\ running' = [running EXCEPT ![u] = TRUE]
  /\ entries' = [entries EXCEPT ![u] = @ + 1]
  /\ pc' = [pc EXCEPT ![t] = "resume", ![u] = "claimed"]
  /\ UNCHANGED <<state, async, pending, queued, depth, unsafe, exited, apc,
                 suspenders, lock, op, arg, cancel, procVars>>

\* __plat_thread_redirect_ip() fails, as it always does on Linux, and the
\* claim is taken back.
RedirectFails(t) ==
  LET u == arg[t] IN
  /\ pc[t] = "inspect"
  /\ Failures \/ ~NT
  /\ ~Consumed(u) /\ Interruptible(u) /\ ~unsafe[u]
  /\ failed' = TRUE
  /\ Goto(t, "resumeQueue")
  /\ UNCHANGED <<flags, depth, unsafe, exited, apc, suspenders, lock, entries,
                 aborted, stuck>>

\* Mutant: a target whose request was consumed is not resumed.
Resume_OnlyQueued(t) ==
  /\ pc[t] \in {"resume", "resumeQueue", "resumeAbort"}
  /\ suspenders' = [suspenders EXCEPT ![arg[t]] =
                      IF NT /\ pc[t] = "resumeQueue" THEN @ \ {t} ELSE @]
  /\ aborted' = (pc[t] = "resumeAbort")
  /\ Goto(t, IF pc[t] = "resumeQueue" THEN "queue" ELSE "tail")
  /\ UNCHANGED <<flags, depth, unsafe, exited, apc, lock, entries, failed,
                 stuck>>

\* __plat_thread_resume(), then the abort or the return.  The Linux function
\* sets the gate of a thread that has not started yet and sends no SIGCONT.
Resume(t) ==
  /\ pc[t] \in {"resume", "resumeQueue", "resumeAbort"}
  /\ suspenders' = [suspenders EXCEPT ![arg[t]] =
                      IF NT THEN @ \ {t} ELSE @]
  /\ aborted' = (pc[t] = "resumeAbort")
  /\ Goto(t, IF pc[t] = "resumeQueue" THEN "queue" ELSE "tail")
  /\ UNCHANGED <<flags, depth, unsafe, exited, apc, lock, entries, failed,
                 stuck>>

\* It fails, which nobody looks at: the target stays suspended for good.
ResumeFails(t) ==
  /\ pc[t] \in {"resume", "resumeQueue", "resumeAbort"}
  /\ NT /\ Failures
  /\ suspenders' = [suspenders EXCEPT ![arg[t]] = @ \ {t}]
  /\ stuck' = stuck \cup {arg[t]}
  /\ failed' = TRUE
  /\ aborted' = (pc[t] = "resumeAbort")
  /\ Goto(t, IF pc[t] = "resumeQueue" THEN "queue" ELSE "tail")
  /\ UNCHANGED <<flags, depth, unsafe, exited, apc, lock, entries>>

\* __plat_thread_queue_apc().
QueueApc(t) ==
  /\ pc[t] = "queue"
  /\ \/ /\ NT
        /\ pc[arg[t]] # "gone"
        /\ apc' = [apc EXCEPT ![arg[t]] = TRUE]
        /\ Goto(t, "tail")
        /\ UNCHANGED failed
     \/ /\ ~NT \/ Failures \/ pc[arg[t]] = "gone"
        /\ failed' = (failed \/ pc[arg[t]] # "gone")
        /\ Goto(t, "unqueue")
        /\ UNCHANGED apc
  /\ UNCHANGED <<flags, depth, unsafe, exited, suspenders, lock, entries,
                 aborted, stuck>>

\* The section that takes cancel_queued back when no APC could be queued.
Unqueue(t) ==
  /\ pc[t] = "unqueue"
  /\ lock = None
  /\ queued' = [queued EXCEPT ![arg[t]] = FALSE]
  /\ Goto(t, "tail")
  /\ UNCHANGED <<state, async, pending, running, depth, unsafe, exited, apc,
                 suspenders, lock, entries, procVars>>

-----------------------------------------------------------------------------

\* Steps a thread takes by the choice of its program.  One that nobody cancels
\* only cancels others: whatever else it does leaves their requests alone.
Program(t) ==
  \/ \E u \in Threads : <<t, u>> \in MayCancel /\ Enter(t, "cancel", u)
  \/ t \in Targets /\ \E o \in {"state", "type", "test"} : Enter(t, o, t)
  \/ t \in Targets /\ (Unsafe(t) \/ Return(t))
  \/ RunApc(t)

\* Steps inside the library, which go on once begun.
Library(t) ==
  \/ Acquire(t)
  \/ SetState(t)
  \/ SetType(t)
  \/ TestCancel(t)
  \/ CancelApc(t)
  \/ PthreadCancel(t)
  \/ Tail(t)
  \/ Check(t)
  \/ ClaimUnsafe(t)
  \/ Claim(t)
  \/ Claimed(t)
  \/ FinishEnter(t)
  \/ Finish(t)
  \/ Terminate(t)
  \/ Suspend(t)
  \/ SuspendFails(t)
  \/ Inspect(t)
  \/ Redirect(t)
  \/ RedirectFails(t)
  \/ Resume(t)
  \/ ResumeFails(t)
  \/ QueueApc(t)
  \/ Unqueue(t)

Runs(t) == suspenders[t] = {} /\ t \notin stuck /\ ~aborted

Next == \E t \in Threads : Runs(t) /\ (Program(t) \/ Library(t))

Spec == Init /\ [][Next]_vars

\* A thread that is not suspended keeps running the library's code; contended
\* for, the lock is granted fairly.
Progress ==
  \A t \in Threads :
    /\ WF_vars(Runs(t) /\ Library(t))
    /\ SF_vars(Runs(t) /\ (Acquire(t) \/ Claimed(t) \/ Unqueue(t)))

LiveSpec == Spec /\ Progress

-----------------------------------------------------------------------------

TypeOK ==
  /\ state \in [Threads -> BOOLEAN]
  /\ async \in [Threads -> BOOLEAN]
  /\ pending \in [Threads -> BOOLEAN]
  /\ queued \in [Threads -> BOOLEAN]
  /\ running \in [Threads -> BOOLEAN]
  /\ unsafe \in [Threads -> BOOLEAN]
  /\ exited \in [Threads -> BOOLEAN]
  /\ apc \in [Threads -> BOOLEAN]
  /\ cancel \in [Threads -> BOOLEAN]
  /\ depth \in [Threads -> Nat]
  /\ suspenders \in [Threads -> SUBSET Threads]
  /\ lock \in Threads \cup {None}
  /\ pc \in [Threads -> Places]
  /\ op \in [Threads -> Operations]
  /\ arg \in [Threads -> Threads]
  /\ entries \in [Threads -> Nat]
  /\ aborted \in BOOLEAN
  /\ failed \in BOOLEAN
  /\ stuck \subseteq Threads

\* A thread starts its cleanup for cancellation once, whether it acts on the
\* request itself or is redirected ("closing the interval in which both paths
\* [...] enter cleanup twice").
CleanupOnce == \A t \in Threads : entries[t] <= 1

\* A thread is never redirected while it owns the fast lock
\* (internal/libc.h: "Asynchronous cancellation must never redirect a thread
\* while it owns the PEB lock").
LockNotAbandoned == lock # None => pc[lock] = "section"

\* A thread goes into cleanup from anywhere but a cancellation point only
\* with asynchronous cancellation enabled at that very moment.
InterruptedOnlyAsync ==
  [][\A t \in Threads :
       entries'[t] # entries[t] =>
         state[t] /\ (async[t] \/ (pc[t] = "claim" /\ op[t] = "test"))]_vars

\* A suspension lasts as long as the call that asked for it
\* (internal/plat_thread.h: "the suspend/resume bracketing it"), on every path
\* through redirect_async_cancel(), unless the backend fails to end it.
SuspensionBracketed ==
  \A u \in Threads : \A t \in suspenders[u] :
    arg[t] = u /\ pc[t] \in {"inspect", "resume", "resumeQueue", "resumeAbort"}

\* The deferral levels a thread holds follow from where it is: its own and the
\* lock's up to the end of its section, its own until it leaves the function.
LevelsHeld ==
  \A t \in Threads :
    depth[t] = CASE pc[t] \in {"lock", "section"} -> OwnLevel(op[t]) + LockLevel
                 [] pc[t] \in {"suspend", "inspect", "resume", "resumeAbort",
                              "resumeQueue", "queue", "unqueue", "tail"} -> 1
                 [] OTHER -> 0

\* The lock is owned exactly by the thread inside a section.
SectionOwned == \A t \in Threads : pc[t] = "section" <=> lock = t

\* cancel_running is the claim: it is set once and never taken back.
EntriesClaimed ==
  \A t \in Threads : entries[t] = IF running[t] THEN 1 ELSE 0

\* Between the decision to act on a request and the claim, the settings that
\* justified it still hold; before the decision the local is clear.
DecisionHolds ==
  \A t \in Threads :
    /\ (pc[t] = "claim" \/ (pc[t] = "check" /\ cancel[t])) =>
         state[t] /\ (async[t] \/ op[t] = "test")
    /\ cancel[t] =>
         pc[t] \notin {"lock", "section", "suspend", "inspect", "resume",
                      "resumeAbort", "resumeQueue", "queue", "unqueue", "tail"}

\* The inductive invariant; suspensions are bracketed on NT only.
IInv ==
  /\ TypeOK /\ LevelsHeld /\ SectionOwned /\ EntriesClaimed /\ DecisionHolds
  /\ NT => SuspensionBracketed

\* "A pending async request is remembered and acted on after the outermost
\* protected transaction commits", as long as the backend does what it is
\* asked to.
AsyncActedOn ==
  \A t \in Targets :
    AsyncDue(t) ~>
      (running[t] \/ exited[t] \/ aborted \/ failed \/ ~state[t] \/ ~async[t])
=============================================================================

--------------------------------- MODULE Once ---------------------------------
(***************************************************************************)
(* pthread_once(): src/src/thread/pthread_tsd.c.                           *)
(*                                                                         *)
(* All once controls of the process share one list of waiters.  Each       *)
(* waiter sleeps on an event of its own, so that completion wakes every    *)
(* waiter of one control and nobody else.  A canceled initializer puts its *)
(* control back and wakes its waiters, one of which starts over.           *)
(***************************************************************************)
EXTENDS Naturals, FiniteSets

CONSTANTS Threads, Controls

ASSUME OnceAssumption == IsFiniteSet(Threads) /\ Controls # {}

VARIABLES
  control,   \* *control: 0 (PTHREAD_ONCE_INIT), 1 or 2
  event,     \* the callers that have an event
  set,       \* the callers whose event is set
  linked,    \* the callers on once_waiters
  pc, arg    \* where each thread is, and the control of its call

vars == <<control, event, set, linked, pc, arg>>

Init ==
  /\ control = [c \in Controls |-> 0]
  /\ event = {}
  /\ set = {}
  /\ linked = {}
  /\ pc = [t \in Threads |-> "out"]
  /\ arg \in [Threads -> Controls]

Goto(t, l) == pc' = [pc EXCEPT ![t] = l]

\* wake_once_waiters_locked().
Waiters(c) == {u \in linked : arg[u] = c}

-----------------------------------------------------------------------------

Call(t, c) ==
  /\ pc[t] \in {"out", "done"}
  /\ arg' = [arg EXCEPT ![t] = c]
  /\ Goto(t, "top")
  /\ UNCHANGED <<control, event, set, linked>>

\* The section at the top of the loop: the control is done.
SeeDone(t) ==
  /\ pc[t] = "top"
  /\ control[arg[t]] = 2
  /\ event' = event \ {t}
  /\ set' = set \ {t}
  /\ Goto(t, "done")
  /\ UNCHANGED <<control, linked, arg>>

\* The same section: the caller becomes the initializer.
Claim(t) ==
  /\ pc[t] = "top"
  /\ control[arg[t]] = 0
  /\ control' = [control EXCEPT ![arg[t]] = 1]
  /\ event' = event \ {t}
  /\ set' = set \ {t}
  /\ Goto(t, "init")
  /\ UNCHANGED <<linked, arg>>

\* The same section: another thread is initializing; the caller links itself
\* if it has an event, and gets one outside the lock if not.
Enqueue(t) ==
  /\ pc[t] = "top"
  /\ control[arg[t]] = 1
  /\ IF t \in event THEN linked' = linked \cup {t} /\ Goto(t, "sleep")
                    ELSE UNCHANGED linked /\ Goto(t, "create")
  /\ UNCHANGED <<control, event, set, arg>>

\* __plat_event_create() succeeds, or the caller yields and tries again.
Create(t) ==
  /\ pc[t] = "create"
  /\ event' = event \cup {t}
  /\ Goto(t, "top")
  /\ UNCHANGED <<control, set, linked, arg>>

CreateFails(t) ==
  /\ pc[t] = "create"
  /\ Goto(t, "top")
  /\ UNCHANGED <<control, event, set, linked, arg>>

\* Mutant: completion wakes one waiter only.
Initialized_WakesOne(t) ==
  /\ pc[t] = "init"
  /\ control' = [control EXCEPT ![arg[t]] = 2]
  /\ \/ \E u \in Waiters(arg[t]) : set' = set \cup {u}
     \/ Waiters(arg[t]) = {} /\ UNCHANGED set
  /\ Goto(t, "done")
  /\ UNCHANGED <<event, linked, arg>>

\* initialize() returned.
Initialized(t) ==
  /\ pc[t] = "init"
  /\ control' = [control EXCEPT ![arg[t]] = 2]
  /\ set' = set \cup Waiters(arg[t])
  /\ Goto(t, "done")
  /\ UNCHANGED <<event, linked, arg>>

\* Mutant: the control of a canceled initializer is not put back.
Canceled_NoReset(t) ==
  /\ pc[t] = "init"
  /\ set' = set \cup Waiters(arg[t])
  /\ Goto(t, "canceled")
  /\ UNCHANGED <<control, event, linked, arg>>

\* The initializer is canceled inside initialize(): reset_once() runs as a
\* cleanup handler and the thread ends.
Canceled(t) ==
  /\ pc[t] = "init"
  /\ control' = [control EXCEPT ![arg[t]] = 0]
  /\ set' = set \cup Waiters(arg[t])
  /\ Goto(t, "canceled")
  /\ UNCHANGED <<event, linked, arg>>

\* __plat_wait_one(): the event is set.
WaitOk(t) ==
  /\ pc[t] = "sleep"
  /\ t \in set
  /\ Goto(t, "unlink")
  /\ UNCHANGED <<control, event, set, linked, arg>>

\* __plat_wait_one() fails: its result is not looked at.
WaitError(t) ==
  /\ pc[t] = "sleep"
  /\ Goto(t, "unlink")
  /\ UNCHANGED <<control, event, set, linked, arg>>

\* remove_once_waiter_locked(), then the event is closed and the loop begins
\* again.
Unlink(t) ==
  /\ pc[t] = "unlink"
  /\ linked' = linked \ {t}
  /\ event' = event \ {t}
  /\ set' = set \ {t}
  /\ Goto(t, "top")
  /\ UNCHANGED <<control, arg>>

Step(t) ==
  \/ SeeDone(t)
  \/ Claim(t)
  \/ Enqueue(t)
  \/ Create(t)
  \/ CreateFails(t)
  \/ Initialized(t)
  \/ Canceled(t)
  \/ WaitOk(t)
  \/ Unlink(t)

Next ==
  \E t \in Threads :
    Step(t) \/ WaitError(t) \/ \E c \in Controls : Call(t, c)

Spec == Init /\ [][Next]_vars

\* Threads are scheduled and initialize() returns or is canceled; a wait that
\* fails is no help one may count on.
LiveSpec == Spec /\ \A t \in Threads : WF_vars(Step(t))

-----------------------------------------------------------------------------

TypeOK ==
  /\ control \in [Controls -> 0 .. 2]
  /\ event \subseteq Threads
  /\ set \subseteq event
  /\ linked \subseteq event
  /\ pc \in [Threads -> {"out", "top", "create", "init", "sleep", "unlink",
                         "done", "canceled"}]
  /\ arg \in [Threads -> Controls]

\* A control is in progress exactly while one thread is inside initialize()
\* for it: no second thread runs it, and a canceled one is replaced.
OneInitializer ==
  \A c \in Controls :
    Cardinality({t \in Threads : pc[t] = "init" /\ arg[t] = c})
      = (IF control[c] = 1 THEN 1 ELSE 0)

\* Nobody sleeps for a control that is not in progress: completion and
\* cancellation are broadcasts ("no waiter can consume a shared auto-reset
\* wake intended for another once control").
NoSleeperLeft ==
  \A t \in Threads : (pc[t] = "sleep" /\ t \notin set) => control[arg[t]] = 1

\* What OneInitializer rests on, without counting: an initializer holds its
\* control alone, and a control in progress has one.
ClaimHeld ==
  /\ \A t \in Threads : pc[t] = "init" => control[arg[t]] = 1
  /\ \A t, u \in Threads :
       (pc[t] = "init" /\ pc[u] = "init" /\ arg[t] = arg[u]) => t = u
  /\ \A c \in Controls :
       control[c] = 1 => \E t \in Threads : pc[t] = "init" /\ arg[t] = c

\* A sleeper is on the list from before its sleep until it takes itself off,
\* so a broadcast reaches it.
SleepersLinked ==
  /\ \A t \in Threads : pc[t] = "sleep" => t \in linked
  /\ \A t \in linked : pc[t] \in {"sleep", "unlink"}

\* The inductive invariant.
IInv == TypeOK /\ ClaimHeld /\ SleepersLinked /\ NoSleeperLeft

\* Every call of pthread_once() returns, or its thread is canceled inside
\* initialize().
CallsReturn ==
  \A t \in Threads : (pc[t] = "top") ~> (pc[t] \in {"done", "canceled"})
=============================================================================

----------------------------- MODULE MessageQueue -----------------------------
(***************************************************************************)
(* POSIX message queues: src/src/thread/mqueue.c.                          *)
(*                                                                         *)
(* A queue is a file: a header and a table of slots.  Three named          *)
(* semaphores go with it: a lock for the file, a count of messages and a   *)
(* count of free slots; a fourth, the name lock, serializes the calls that *)
(* open or unlink the path.  The actors are processes with one thread      *)
(* each.  A process can die between any two steps.  Its handles are then   *)
(* closed, a semaphore it had taken is not given back, and a named object  *)
(* disappears with its last handle (NT).                                   *)
(***************************************************************************)
EXTENDS Integers, FiniteSets

CONSTANTS
  Procs, None,
  Dead,        \* the pid of a registered process that has died
  Prios,       \* the priorities that are sent
  MaxMsg,      \* mq_maxmsg
  MaxSeq,      \* bound on the messages sent to one queue file
  MaxGen,      \* bound on the queue files created
  MaxFault,    \* bound on deaths of processes and failed reads and writes
  NT           \* named objects disappear with their last handle

MQ_PRIO_MAX == 32768

ASSUME QueueAssumption ==
  /\ IsFiniteSet(Procs) /\ None \notin Procs /\ Dead \notin Procs /\ None # Dead
  /\ \A prio \in Prios : prio \in Nat /\ prio < MQ_PRIO_MAX
  /\ MaxMsg \in Nat \ {0} /\ MaxSeq \in Nat /\ MaxGen \in Nat /\ MaxFault \in Nat
  /\ NT \in BOOLEAN

Gens == 1 .. MaxGen
Kinds == {"lock", "items", "spaces"}
Message == [prio : Prios, sequence : 1 .. MaxSeq]
Empty == [prio |-> 0, sequence |-> 0]
Absent == -1   \* the value of a named object that does not exist

VARIABLES
  path,      \* the queue file the path names, or 0
  gen,       \* queue files created so far (object_sequence)
  ns,        \* the name lock
  op,        \* how each process called mq_open(), and whether it created the file
  q,         \* the queue file it has open, or 0
  hold,      \* the named objects it has handles of
  pc,        \* where it is
  msg,       \* the message whose slot, not yet the header, it has written
  sig,       \* the process its mq_send() still has to signal
  file,      \* the queue files: header and slots
  sem,       \* the semaphores of each queue file
  faults,    \* deaths and failures so far
  exact,     \* history: nobody died in a call since the semaphores were made
  torn,      \* history: of some update of the file only the first write was made
  owed,      \* history: how many signals each process has coming
  quiet      \* history: registered while empty, and one message at most since

names == <<path, gen, ns, op, q, hold>>
history == <<faults, exact, torn, owed, quiet>>
vars == <<names, pc, msg, sig, file, sem, history>>

Header == [ready |-> FALSE, curmsgs |-> 0, receive_waiters |-> 0, sequence |-> 1,
           notify |-> None, slots |-> [i \in 1 .. MaxMsg |-> Empty]]

Init ==
  /\ path = 0 /\ gen = 0 /\ ns = Absent
  /\ op = [p \in Procs |-> "none"]
  /\ q = [p \in Procs |-> 0]
  /\ hold = [p \in Procs |-> {}]
  /\ pc = [p \in Procs |-> "idle"]
  /\ msg = [p \in Procs |-> Empty]
  /\ sig = [p \in Procs |-> None]
  /\ file = [g \in Gens |-> Header]
  /\ sem = [g \in Gens |-> [k \in Kinds |-> Absent]]
  /\ faults = 0
  /\ exact = [g \in Gens |-> TRUE]
  /\ torn = {} /\ quiet = {}
  /\ owed = [p \in Procs |-> 0]

Goto(p, l) == pc' = [pc EXCEPT ![p] = l]
H(p) == file[q[p]]

\* The calls on an open queue, each entered where it begins.
Call(p, l) ==
  /\ pc[p] = "idle" /\ q[p] # 0
  /\ Goto(p, l)
  /\ UNCHANGED <<names, msg, sig, file, sem, history>>

-----------------------------------------------------------------------------
(* Semaphores of the platform layer. *)

Initial(g, k) ==
  CASE k = "lock" -> 1
    [] k = "items" -> file[g].curmsgs
    [] k = "spaces" -> MaxMsg - file[g].curmsgs

\* Mutant: the counts are made as for an empty queue.
CreateSem_AsNew(g, K) ==
  [sem EXCEPT ![g] = [k \in Kinds |->
     IF k \in K /\ @[k] = Absent
     THEN CASE k = "lock" -> 1 [] k = "items" -> 0 [] k = "spaces" -> MaxMsg
     ELSE @[k]]]

\* create_sem(): open_or_create of the kinds K of queue file g.
CreateSem(g, K) ==
  [sem EXCEPT ![g] = [k \in Kinds |->
     IF k \in K /\ @[k] = Absent THEN Initial(g, k) ELSE @[k]]]

\* take() when it does not have to wait.
Take(p, k) == sem[q[p]][k] > 0 /\ sem' = [sem EXCEPT ![q[p]][k] = @ - 1]

\* give(): a post beyond the maximum fails, and the failure is ignored.
Give(p, k) ==
  sem' = [sem EXCEPT ![q[p]][k] = IF @ < (IF k = "lock" THEN 1 ELSE MaxMsg) THEN @ + 1 ELSE @]

\* The semaphores after process p closed its handles of the kinds K.
CloseSem(p, K) ==
  [g \in Gens |-> [k \in Kinds |->
     IF /\ NT /\ g = q[p] /\ k \in K \cap hold[p]
        /\ \A r \in Procs \ {p} : q[r] = g => k \notin hold[r]
     THEN Absent ELSE sem[g][k]]]

\* The name lock, of value v, after process p closed its handle.
CloseNs(p, v) ==
  IF NT /\ \A r \in Procs \ {p} : "ns" \notin hold[r] THEN Absent ELSE v

-----------------------------------------------------------------------------
(* mq_open() and mq_unlink(). *)

\* create_sem(nsname, 1, 1, &ns).
Enter(p, o) ==
  /\ pc[p] = "idle" /\ q[p] = 0
  /\ op' = [op EXCEPT ![p] = o]
  /\ ns' = IF ns = Absent THEN 1 ELSE ns
  /\ hold' = [hold EXCEPT ![p] = {"ns"}]
  /\ Goto(p, "ns")
  /\ UNCHANGED <<path, gen, q, msg, sig, file, sem, history>>

TakeNs(p) ==
  /\ pc[p] = "ns"
  /\ ns = 1
  /\ ns' = 0
  /\ Goto(p, IF op[p] = "unlink" THEN "unlink" ELSE "name")
  /\ UNCHANGED <<path, gen, op, q, hold, msg, sig, file, sem, history>>

\* give(ns) and __plat_sync_close(ns).
LeaveNs(p, l) ==
  /\ ns' = CloseNs(p, 1)
  /\ hold' = [hold EXCEPT ![p] = @ \ {"ns"}]
  /\ op' = [op EXCEPT ![p] = "none"]
  /\ Goto(p, l)
  /\ UNCHANGED <<gen, q, msg, sig, file, sem, history>>

Unlink(p) == pc[p] = "unlink" /\ path' = 0 /\ LeaveNs(p, "idle")

\* open(path, O_CREAT | O_EXCL): a new queue file.
CreateFile(p) ==
  /\ pc[p] = "name" /\ op[p] \in {"creat", "excl"}
  /\ path = 0 /\ gen < MaxGen
  /\ gen' = gen + 1
  /\ path' = gen'
  /\ q' = [q EXCEPT ![p] = gen']
  /\ op' = [op EXCEPT ![p] = "created"]
  /\ Goto(p, "created")
  /\ UNCHANGED <<ns, hold, msg, sig, file, sem, history>>

\* open(path), and the header of an existing file is valid.
OpenFile(p) ==
  /\ pc[p] = "name" /\ op[p] \in {"open", "creat"}
  /\ path # 0 /\ file[path].ready
  /\ q' = [q EXCEPT ![p] = path]
  /\ Goto(p, "header")
  /\ UNCHANGED <<path, gen, ns, op, hold, msg, sig, file, sem, history>>

\* ENOENT, EEXIST, or EIO because the file has no header.
OpenFileFails(p) ==
  /\ pc[p] = "name"
  /\ \/ path = 0 /\ op[p] = "open"
     \/ path # 0 /\ (op[p] = "excl" \/ ~file[path].ready)
  /\ LeaveNs(p, "idle")
  /\ UNCHANGED path

\* ftruncate() and the first header.
WriteFirstHeader(p) ==
  /\ pc[p] = "created"
  /\ file' = [file EXCEPT ![q[p]].ready = TRUE]
  /\ Goto(p, "header")
  /\ UNCHANGED <<names, msg, sig, sem, history>>

\* create_sem(h.lock_name, 1, 1, &lock); TakeLock follows.
CreateLock(p) ==
  /\ pc[p] = "header"
  /\ sem' = CreateSem(q[p], {"lock"})
  /\ hold' = [hold EXCEPT ![p] = @ \cup {"lock"}]
  /\ Goto(p, "open_lock")
  /\ UNCHANGED <<path, gen, ns, op, q, msg, sig, file, history>>

\* The header is read again under the lock, and the counts are made from it
\* where they do not exist.
CreateCounts(p) ==
  /\ pc[p] = "opening"
  /\ sem' = CreateSem(q[p], {"items", "spaces"})
  /\ exact' = [exact EXCEPT ![q[p]] =
       @ \/ (sem[q[p]].items = Absent /\ sem[q[p]].spaces = Absent)]
  /\ hold' = [hold EXCEPT ![p] = @ \cup Kinds]
  /\ Goto(p, "counted")
  /\ UNCHANGED <<path, gen, ns, op, q, msg, sig, file, faults, torn, owed, quiet>>

Opened(p) == pc[p] = "opened" /\ LeaveNs(p, "idle") /\ UNCHANGED path

\* fail_fd, fail_created: a file that was created is unlinked, and the handles
\* that were opened are closed.
OpenFailed(p) ==
  /\ pc[p] = "open_failed"
  /\ path' = IF op[p] = "created" THEN 0 ELSE path
  /\ LeaveNs(p, "close")

-----------------------------------------------------------------------------
(* The lock of the queue file: what the holder does next, and where it goes *)
(* when it gives the lock back.                                             *)

AfterTake ==
  [open_lock |-> "opening", send_lock |-> "sending", wait_lock |-> "registering",
   got_lock |-> "got", late_lock |-> "late", recv_lock |-> "receiving",
   notify_lock |-> "notifying", close_lock |-> "closing"]

AfterGive ==
  [counted |-> "opened", undo_open |-> "open_failed",
   sent |-> "give_items", undo_send |-> "return_space",
   registered |-> "wait", got_done |-> "recv_lock", late_done |-> "idle",
   received |-> "give_space", undo_recv |-> "return_item",
   notified |-> "idle", closed |-> "close"]

TakeLock(p) ==
  /\ pc[p] \in DOMAIN AfterTake
  /\ Take(p, "lock")
  /\ Goto(p, AfterTake[pc[p]])
  /\ UNCHANGED <<names, msg, sig, file, history>>

GiveLock(p) ==
  /\ pc[p] \in DOMAIN AfterGive
  /\ Give(p, "lock")
  /\ Goto(p, AfterGive[pc[p]])
  /\ UNCHANGED <<names, msg, sig, file, history>>

\* Where a call goes on when its wait for the lock, a read or a write fails.
AfterFailure ==
  [open_lock |-> "open_failed", send_lock |-> "return_space", wait_lock |-> "idle",
   got_lock |-> "recv_lock", late_lock |-> "idle", recv_lock |-> "return_item",
   notify_lock |-> "idle", close_lock |-> "close",
   created |-> "open_failed", header |-> "open_failed", opening |-> "undo_open",
   sending |-> "undo_send", slotted |-> "undo_send",
   registering |-> "late_done", got |-> "got_done", late |-> "late_done",
   receiving |-> "undo_recv", cleared |-> "undo_recv",
   notifying |-> "notified", closing |-> "closed"]

\* Between the two writes of an update a failure leaves the first one.
Tear(p) ==
  torn' = IF pc[p] \in {"slotted", "cleared"} THEN torn \cup {q[p]} ELSE torn

Failure(p) ==
  /\ pc[p] \in DOMAIN AfterFailure
  /\ faults < MaxFault
  /\ faults' = faults + 1
  /\ Tear(p)
  /\ quiet' = quiet \ {q[p]}
  /\ msg' = [msg EXCEPT ![p] = Empty]
  /\ Goto(p, AfterFailure[pc[p]])
  /\ UNCHANGED <<names, sig, file, sem, exact, owed>>

FreeSlots(g) == {i \in 1 .. MaxMsg : file[g].slots[i] = Empty}
UsedSlots(g) == 1 .. MaxMsg \ FreeSlots(g)

\* EIO: a token, and no slot or message for it.
Mismatch(p) ==
  /\ \/ pc[p] = "sending" /\ FreeSlots(q[p]) = {}
     \/ pc[p] = "receiving" /\ (UsedSlots(q[p]) = {} \/ H(p).curmsgs = 0)
  /\ Goto(p, AfterFailure[pc[p]])
  /\ UNCHANGED <<names, msg, sig, file, sem, history>>

-----------------------------------------------------------------------------
(* The two counts: wait_count() and the posts that answer it. *)

AfterCount ==
  [send |-> "send_lock", send_wait |-> "send_lock", receive |-> "recv_lock", wait |-> "got_lock"]

Count(p) == IF pc[p] \in {"send", "send_wait", "return_space", "give_space"}
            THEN "spaces" ELSE "items"

TakeCount(p) ==
  /\ pc[p] \in DOMAIN AfterCount
  /\ Take(p, Count(p))
  /\ Goto(p, AfterCount[pc[p]])
  /\ UNCHANGED <<names, msg, sig, file, history>>

\* The first look finds nothing, or is interrupted.  A receiver makes itself
\* known before it waits.
LookFails(p) ==
  /\ pc[p] \in {"send", "receive"}
  /\ Goto(p, IF pc[p] = "send" THEN "send_wait" ELSE "wait_lock")
  /\ UNCHANGED <<names, msg, sig, file, sem, history>>

\* EAGAIN or EINTR after the first look, ETIMEDOUT or EINTR in the wait.
GiveUp(p) ==
  /\ pc[p] \in DOMAIN AfterCount
  /\ quiet' = IF pc[p] = "wait" THEN quiet \ {q[p]} ELSE quiet
  /\ Goto(p, IF pc[p] = "wait" THEN "late_lock" ELSE "idle")
  /\ UNCHANGED <<names, msg, sig, file, sem, faults, exact, torn, owed>>

\* Mutant: the rollback of mq_send() forgets the slot it had reserved.
GiveCount_NoRollback(p) ==
  /\ pc[p] \in {"give_items", "return_space", "give_space", "return_item"}
  /\ IF pc[p] = "return_space" THEN UNCHANGED sem ELSE Give(p, Count(p))
  /\ quiet' = IF pc[p] = "return_item" THEN quiet \ {q[p]} ELSE quiet
  /\ Goto(p, IF pc[p] = "give_items" /\ sig[p] # None THEN "signal" ELSE "idle")
  /\ UNCHANGED <<names, msg, sig, file, faults, exact, torn, owed>>

\* A message or a free slot is offered, or a token returned by a rollback.
GiveCount(p) ==
  /\ pc[p] \in {"give_items", "return_space", "give_space", "return_item"}
  /\ Give(p, Count(p))
  /\ quiet' = IF pc[p] = "return_item" THEN quiet \ {q[p]} ELSE quiet
  /\ Goto(p, IF pc[p] = "give_items" /\ sig[p] # None THEN "signal" ELSE "idle")
  /\ UNCHANGED <<names, msg, sig, file, faults, exact, torn, owed>>

-----------------------------------------------------------------------------
(* mq_timedsend(). *)

Send(p) ==
  /\ q[p] # 0
  /\ H(p).sequence + Cardinality({r \in Procs : q[r] = q[p] /\ pc[r] \in
       {"send", "send_wait", "send_lock", "sending", "slotted"}}) <= MaxSeq
  /\ Call(p, "send")

\* The first free slot gets the message.
WriteSlot(p, prio) ==
  /\ pc[p] = "sending"
  /\ FreeSlots(q[p]) # {}
  /\ LET i == CHOOSE j \in FreeSlots(q[p]) : \A k \in FreeSlots(q[p]) : j <= k
         m == [prio |-> prio, sequence |-> H(p).sequence]
     IN  /\ file' = [file EXCEPT ![q[p]].slots[i] = m]
         /\ msg' = [msg EXCEPT ![p] = m]
  /\ Goto(p, "slotted")
  /\ UNCHANGED <<names, sig, sem, history>>

\* Mutant: the registration stays in the header.
Announce_Keeps(p) ==
  IF H(p).curmsgs = 0 /\ H(p).notify # None /\ H(p).receive_waiters = 0
  THEN [to |-> H(p).notify, left |-> H(p).notify]
  ELSE [to |-> None, left |-> H(p).notify]

\* The process to signal, and the registration that remains.
Announce(p) ==
  IF H(p).curmsgs = 0 /\ H(p).notify # None /\ H(p).receive_waiters = 0
  THEN [to |-> H(p).notify, left |-> None]
  ELSE [to |-> None, left |-> H(p).notify]

WriteSendHeader(p) ==
  /\ pc[p] = "slotted"
  /\ file' = [file EXCEPT ![q[p]].curmsgs = @ + 1, ![q[p]].sequence = @ + 1,
                          ![q[p]].notify = Announce(p).left]
  /\ sig' = [sig EXCEPT ![p] = Announce(p).to]
  /\ quiet' = IF H(p).curmsgs > 0 \/ Announce(p).to # None THEN quiet \ {q[p]} ELSE quiet
  /\ msg' = [msg EXCEPT ![p] = Empty]
  /\ Goto(p, "sent")
  /\ UNCHANGED <<names, sem, faults, exact, torn, owed>>

\* sigqueue(): a dead process is not reached.
Signal(p) ==
  /\ pc[p] = "signal"
  /\ owed' = [r \in Procs |-> IF r = sig[p] THEN owed[r] - 1 ELSE owed[r]]
  /\ sig' = [sig EXCEPT ![p] = None]
  /\ Goto(p, "idle")
  /\ UNCHANGED <<names, msg, file, sem, faults, exact, torn, quiet>>

-----------------------------------------------------------------------------
(* mq_timedreceive(). *)

Receive(p) == Call(p, "receive")

Register(p) ==
  /\ pc[p] = "registering"
  /\ file' = [file EXCEPT ![q[p]].receive_waiters = @ + 1]
  /\ Goto(p, "registered")
  /\ UNCHANGED <<names, msg, sig, sem, history>>

\* Mutant: only a receiver that gives up removes itself from the count.
Deregister_OnlyLate(p) ==
  /\ pc[p] \in {"got", "late"}
  /\ file' = IF pc[p] = "got" THEN file
             ELSE [file EXCEPT ![q[p]].receive_waiters = IF @ > 0 THEN @ - 1 ELSE @]
  /\ Goto(p, IF pc[p] = "got" THEN "got_done" ELSE "late_done")
  /\ UNCHANGED <<names, msg, sig, sem, history>>

Deregister(p) ==
  /\ pc[p] \in {"got", "late"}
  /\ file' = [file EXCEPT ![q[p]].receive_waiters = IF @ > 0 THEN @ - 1 ELSE @]
  /\ Goto(p, IF pc[p] = "got" THEN "got_done" ELSE "late_done")
  /\ UNCHANGED <<names, msg, sig, sem, history>>

Before(m, n) == m.prio > n.prio \/ (m.prio = n.prio /\ m.sequence < n.sequence)

\* Mutant: among messages of one priority the lowest slot wins.
Best_BySlot(g) ==
  CHOOSE i \in UsedSlots(g) : \A j \in UsedSlots(g) :
    LET m == file[g].slots[i]  n == file[g].slots[j] IN
    m.prio > n.prio \/ (m.prio = n.prio /\ i <= j)

\* The slot the scan selects: the first of those no other comes before.
Best(g) ==
  CHOOSE i \in UsedSlots(g) : \A j \in UsedSlots(g) :
    LET m == file[g].slots[i]  n == file[g].slots[j] IN
    Before(m, n) \/ (~Before(n, m) /\ i <= j)

\* The best message is copied out and its slot cleared.
ClearSlot(p) ==
  /\ pc[p] = "receiving"
  /\ UsedSlots(q[p]) # {} /\ H(p).curmsgs > 0
  /\ msg' = [msg EXCEPT ![p] = H(p).slots[Best(q[p])]]
  /\ file' = [file EXCEPT ![q[p]].slots[Best(q[p])] = Empty]
  /\ Goto(p, "cleared")
  /\ UNCHANGED <<names, sig, sem, history>>

WriteRecvHeader(p) ==
  /\ pc[p] = "cleared"
  /\ file' = [file EXCEPT ![q[p]].curmsgs = @ - 1]
  /\ msg' = [msg EXCEPT ![p] = Empty]
  /\ Goto(p, "received")
  /\ UNCHANGED <<names, sig, sem, history>>

-----------------------------------------------------------------------------
(* mq_notify(), close() and the death of a process. *)

Notify(p) == Call(p, "notify_lock")

\* A registration, refused if there is one ...
WriteNotify(p) ==
  /\ pc[p] = "notifying"
  /\ IF H(p).notify # None THEN UNCHANGED <<file, owed, quiet>>
     ELSE /\ file' = [file EXCEPT ![q[p]].notify = p]
          /\ owed' = [owed EXCEPT ![p] = @ + 1]
          /\ quiet' = IF /\ H(p).curmsgs = 0
                         /\ H(p).receive_waiters = Cardinality({r \in Procs :
                              q[r] = q[p] /\ pc[r] \in {"registered", "wait"}})
                      THEN quiet \cup {q[p]} ELSE quiet
  /\ Goto(p, "notified")
  /\ UNCHANGED <<names, msg, sig, sem, faults, exact, torn>>

\* ... and its removal: by mq_notify(NULL), and when the descriptor is closed.
RemoveNotify(p) ==
  /\ pc[p] \in {"notifying", "closing"}
  /\ IF H(p).notify # p THEN UNCHANGED <<file, owed, quiet>>
     ELSE /\ file' = [file EXCEPT ![q[p]].notify = None]
          /\ owed' = [owed EXCEPT ![p] = @ - 1]
          /\ quiet' = quiet \ {q[p]}
  /\ Goto(p, AfterFailure[pc[p]])
  /\ UNCHANGED <<names, msg, sig, sem, faults, exact, torn>>

Close(p) == Call(p, "close_lock")

\* The handles are closed one after the other: spaces, items, lock.
CloseHandle(p) ==
  /\ pc[p] = "close"
  /\ IF hold[p] = {}
     THEN /\ q' = [q EXCEPT ![p] = 0]
          /\ Goto(p, "idle")
          /\ UNCHANGED <<hold, sem>>
     ELSE LET k == IF "spaces" \in hold[p] THEN "spaces"
                   ELSE IF "items" \in hold[p] THEN "items" ELSE "lock"
          IN  /\ sem' = CloseSem(p, {k})
              /\ hold' = [hold EXCEPT ![p] = @ \ {k}]
              /\ UNCHANGED <<q, pc>>
  /\ UNCHANGED <<path, gen, ns, op, msg, sig, file, history>>

\* The process dies; another one, with a pid of its own, takes its place.
Crash(p) ==
  /\ faults < MaxFault
  /\ faults' = faults + 1
  /\ sem' = CloseSem(p, Kinds)
  /\ ns' = IF "ns" \in hold[p] THEN CloseNs(p, ns) ELSE ns
  /\ file' = [g \in Gens |-> [file[g] EXCEPT !.notify = IF @ = p THEN Dead ELSE @]]
  /\ exact' = [g \in Gens |-> exact[g] /\ (g = q[p] => pc[p] = "idle")]
  /\ Tear(p)
  /\ owed' = [r \in Procs |-> IF r = p THEN 0 ELSE IF r = sig[p] THEN owed[r] - 1 ELSE owed[r]]
  /\ quiet' = quiet \ {q[p]}
  /\ sig' = [r \in Procs |-> IF r = p THEN None ELSE IF sig[r] = p THEN Dead ELSE sig[r]]
  /\ op' = [op EXCEPT ![p] = "none"]
  /\ q' = [q EXCEPT ![p] = 0]
  /\ hold' = [hold EXCEPT ![p] = {}]
  /\ msg' = [msg EXCEPT ![p] = Empty]
  /\ Goto(p, "idle")
  /\ UNCHANGED <<path, gen>>

-----------------------------------------------------------------------------

\* What the code does once it is called.
Open(p) ==
  TakeNs(p) \/ Unlink(p) \/ CreateFile(p) \/ OpenFile(p) \/ OpenFileFails(p)
    \/ WriteFirstHeader(p) \/ CreateLock(p) \/ CreateCounts(p) \/ Opened(p) \/ OpenFailed(p)

Transfer(p) ==
  TakeCount(p) \/ LookFails(p) \/ GiveCount(p) \/ GiveLock(p) \/ Mismatch(p)
    \/ (\E prio \in Prios : WriteSlot(p, prio)) \/ WriteSendHeader(p) \/ Signal(p)
    \/ Register(p) \/ Deregister(p) \/ ClearSlot(p) \/ WriteRecvHeader(p)

Step(p) == Open(p) \/ Transfer(p) \/ WriteNotify(p) \/ RemoveNotify(p) \/ CloseHandle(p)

Next ==
  \E p \in Procs :
    \/ Step(p) \/ TakeLock(p) \/ GiveUp(p) \/ Failure(p) \/ Crash(p)
    \/ \E o \in {"open", "creat", "excl", "unlink"} : Enter(p, o)
    \/ Send(p) \/ Receive(p) \/ Notify(p) \/ Close(p)

Spec == Init /\ [][Next]_vars

-----------------------------------------------------------------------------
(* Properties. *)

At(g, L) == Cardinality({p \in Procs : q[p] = g /\ pc[p] \in L})

HasSpace == {"send_lock", "sending", "slotted", "undo_send", "return_space"}
HasOffer == {"sent", "give_items"}
HasItem == {"got_lock", "got", "got_done", "recv_lock", "receiving", "cleared",
            "undo_recv", "return_item"}
HasFreed == {"received", "give_space"}

\* Calls that have taken a free slot and not yet counted a message, ...
Sending(g) == At(g, HasSpace)
\* ... that have counted a message and not yet offered it, ...
Offering(g) == At(g, HasOffer)
\* ... that have taken a message and not yet counted it off, ...
Receiving(g) == At(g, HasItem)
\* ... and that have counted it off and not yet given the slot back.
Freeing(g) == At(g, HasFreed)

\* A token of the semaphore "items" always stands for a message that the
\* header counts, and one of "spaces" for a slot it counts as free, whoever
\* dies and whichever write fails: tokens get lost, they are never invented.
TokensSound ==
  \A g \in Gens :
    /\ sem[g].items + Offering(g) + Receiving(g) <= file[g].curmsgs
    /\ sem[g].spaces + Freeing(g) + Sending(g) <= MaxMsg - file[g].curmsgs

\* No token is lost while nobody dies inside a call, and a queue that all its
\* processes have left, in whatever way, starts again with exact counts.
TokensExact ==
  \A g \in Gens : exact[g] =>
    /\ sem[g].items # Absent =>
         sem[g].items + Offering(g) + Receiving(g) = file[g].curmsgs
    /\ sem[g].spaces # Absent =>
         sem[g].spaces + Freeing(g) + Sending(g) = MaxMsg - file[g].curmsgs

\* Each registration is in one header or in the hands of one sender, until its
\* signal is sent: it is neither forgotten nor answered twice.
RegistrationKept ==
  \A p \in Procs :
    Cardinality({g \in Gens : file[g].notify = p}) + Cardinality({r \in Procs : sig[r] = p})
      = owed[p]

\* If the message that ended the emptiness of a queue with a registered
\* process was not announced, then a receiver waits for it or has taken it.
MessageAnnounced ==
  \A g \in quiet : file[g].curmsgs > 0 => At(g, {"registered", "wait"}) + Receiving(g) > 0

\* The messages of queue file g, without the one that is being written and
\* with the one that is being removed.
Contents(g) ==
  LET Now(l) == {msg[p] : p \in {r \in Procs : pc[r] = l /\ q[r] = g}}
      Slots == {file[g].slots[i] : i \in 1 .. MaxMsg}
  IN  (Slots \ ({Empty} \cup Now("slotted"))) \cup Now("cleared")

Q == INSTANCE AbstractQueue WITH
  Queues <- Gens,
  Capacity <- MaxMsg,
  intact <- Gens \ torn,
  queue <- [g \in Gens |-> IF g \in torn THEN {} ELSE Contents(g)]

\* Every queue file is a queue ordered by priority and then by age, until an
\* update of it is cut short.
ImplementsQueue == Q!Spec

-----------------------------------------------------------------------------
(* The inductive invariant behind the properties. *)

Outside == {"ns", "name", "unlink"}
Opening == {"created", "header", "open_lock", "opening", "undo_open", "open_failed", "close"}
Settled == {"counted", "opened"}
Locked == {"opening", "sending", "registering", "got", "late", "receiving", "notifying",
           "closing", "counted", "undo_open", "sent", "undo_send", "registered", "got_done",
           "late_done", "received", "undo_recv", "notified", "closed", "slotted", "cleared"}
Calling == {"send", "send_wait", "send_lock", "sending", "slotted", "undo_send", "return_space",
            "sent", "give_items", "signal", "receive", "wait_lock", "registering", "registered",
            "wait", "got_lock", "got", "got_done", "late_lock", "late", "late_done", "recv_lock",
            "receiving", "cleared", "undo_recv", "return_item", "received", "give_space",
            "notify_lock", "notifying", "notified", "close_lock", "closing", "closed"}

Labels == {"idle"} \cup Outside \cup Opening \cup Settled \cup Calling

SlotRecord == [prio : {n \in Nat : n < MQ_PRIO_MAX}, sequence : Nat]
FileRecord ==
  [ready : BOOLEAN, curmsgs : 0 .. MaxMsg, receive_waiters : Nat, sequence : Nat,
   notify : Procs \cup {None, Dead}, slots : [1 .. MaxMsg -> SlotRecord]]
FileType == [Gens -> FileRecord]
SemType == [Gens -> [Kinds -> Nat \cup {Absent}]]

TypeOK ==
  /\ path \in 0 .. MaxGen /\ gen \in 0 .. MaxGen /\ ns \in {Absent, 0, 1}
  /\ op \in [Procs -> {"none", "open", "creat", "excl", "unlink", "created"}]
  /\ q \in [Procs -> 0 .. MaxGen]
  /\ hold \in [Procs -> SUBSET (Kinds \cup {"ns"})]
  /\ pc \in [Procs -> Labels]
  /\ msg \in [Procs -> SlotRecord]
  /\ sig \in [Procs -> Procs \cup {None, Dead}]
  /\ file \in FileType
  /\ sem \in SemType
  /\ faults \in Nat /\ exact \in [Gens -> BOOLEAN] /\ torn \in SUBSET Gens
  /\ owed \in [Procs -> Int] /\ quiet \in SUBSET Gens

\* A process is inside a call on a queue only with the queue file and the three
\* handles open.
Handles ==
  \A p \in Procs :
    /\ pc[p] \in Outside => q[p] = 0 /\ hold[p] \cap Kinds = {}
    /\ pc[p] \in Opening \cup Settled \cup Calling => q[p] # 0
    /\ pc[p] \in {"open_lock", "opening", "undo_open"} => "lock" \in hold[p]
    /\ pc[p] \in {"idle"} \cup Settled \cup Calling /\ q[p] # 0 => Kinds \subseteq hold[p]

\* An object somebody has a handle of exists.
ObjectsExist ==
  \A p \in Procs : q[p] # 0 => \A k \in hold[p] \cap Kinds : sem[q[p]][k] # Absent

\* The lock of a queue file excludes.
LockExcludes ==
  /\ \A g \in Gens : sem[g].lock <= 1
  /\ \A p \in Procs : pc[p] \in Locked =>
       /\ sem[q[p]].lock = 0
       /\ \A r \in Procs \ {p} : q[r] = q[p] => pc[r] \notin Locked

\* Only a sender that has taken a registration out of the header owes a signal.
SignalInHand ==
  \A p \in Procs : sig[p] # None => pc[p] \in {"sent", "give_items", "signal"}

\* While a registration waits for a first message it stays in the header, and
\* every receiver the header counts is there.
QuietCounted ==
  \A g \in quiet :
    /\ file[g].notify # None
    /\ file[g].curmsgs <= 1
    /\ file[g].receive_waiters <= At(g, {"registered", "wait", "got_lock", "got"})

\* The sends under way fit in the bound on sequence numbers.
SequenceBounded ==
  \A g \in Gens : file[g].sequence >= 1 /\
    file[g].sequence + At(g, {"send", "send_wait", "send_lock", "sending", "slotted"}) <= MaxSeq + 1

\* The messages of queue file g have different sequence numbers, all older than
\* the header's except that of a message being written; the one being removed
\* comes before all the others.
Ordered(g) ==
  /\ \A i, j \in UsedSlots(g) :
       i # j => file[g].slots[i].sequence # file[g].slots[j].sequence
  /\ \A i \in UsedSlots(g) :
       /\ file[g].slots[i] \in Message
       /\ \/ file[g].slots[i].sequence < file[g].sequence
          \/ \E p \in Procs : q[p] = g /\ pc[p] = "slotted" /\ msg[p] = file[g].slots[i]
  /\ \A p \in Procs : q[p] = g /\ pc[p] = "slotted" =>
       /\ msg[p] \in Message /\ msg[p].sequence = file[g].sequence
       /\ \E i \in UsedSlots(g) : file[g].slots[i] = msg[p]
  /\ \A p \in Procs : q[p] = g /\ pc[p] = "cleared" =>
       \A i \in UsedSlots(g) : Before(msg[p], file[g].slots[i])

\* Until an update is cut short.
SlotsOrdered == \A g \in Gens \ torn : Ordered(g)

IInv ==
  /\ TypeOK /\ Handles /\ ObjectsExist /\ LockExcludes
  /\ TokensSound /\ TokensExact
  /\ SignalInHand /\ RegistrationKept
  /\ QuietCounted /\ MessageAnnounced
  /\ SequenceBounded /\ SlotsOrdered
=============================================================================

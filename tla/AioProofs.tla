------------------------------- MODULE AioProofs -------------------------------
(***************************************************************************)
(* Asynchronous I/O for any finite sets of threads and control blocks, any *)
(* set of groups and any size of the table: every running request has one  *)
(* performer, the flags follow the worker, no wakeup is missed, exit       *)
(* drains the table, LIO_WAIT returns late enough, and the groups of       *)
(* LIO_NOWAIT are counted exactly.                                         *)
(***************************************************************************)
EXTENDS Aio, FiniteSetTheorems, TLAPS

\* The prover of the leaves that name no other.
USE ZenonT(30)

\* Init establishes the invariant: nothing has been submitted.
LEMMA InitInv == Init => IInv
<1> SUFFICES ASSUME Init PROVE IInv
  OBVIOUS
<1>1. TypeOK
  <2>1. TableTyped
    BY DEF Init, TableTyped, Fresh, NoOrder
  <2>2. LifeTyped
    BY DEF Init, LifeTyped
  <2>3. CallsTyped
    BY DEF Init, CallsTyped, Actors
  <2> QED
    BY <2>1, <2>2, <2>3 DEF TypeOK
<1>2. RunningPerformed /\ WorkerSound /\ CallsSound
  BY DEF Init, RunningPerformed, WorkerSound, CallsSound, CallSound,
         Fresh, InProgress, Actors
<1> QED
  BY <1>1, <1>2 DEF IInv

-----------------------------------------------------------------------------
(* Kinds of steps. *)

\* The steps of the worker that leave the table and the calls alone.
Quiet == WorkerWake \/ WorkerNotify \/ WorkerExit \/ WorkerDone

\* The sections of a call in which no request is started, performed or ended,
\* and nothing of the worker changes: those that leave the table alone, those
\* that end a wait or begin it, and those that count for a group.
Plain(t) ==
  \/ Notify(t) \/ (\E c \in Cbs : Reject(t, c)) \/ Submitted(t) \/ Collect(t)
  \/ SuspendLook(t) \/ \E L \in SUBSET Cbs : Suspend(t, L)
Linked(t) == SuspendLink(t) \/ SuspendWake(t) \/ SuspendLate(t)
Counting(t) ==
  Drop(t) \/ \E L \in SUBSET Cbs : \E how \in {"one", "nowait", "wait"} : Submit(t, how, L)
Local(t) == Plain(t) \/ Linked(t) \/ Counting(t)

\* The steps of exit().
Leaving(t) == Exit(t) \/ ExitWaited(t)

\* A step of a kind, or one that has a proof step of its own.
LEMMA Kinds ==
  ASSUME [Next]_vars
  PROVE  \/ WorkerLook \/ WorkerFinish \/ Quiet
         \/ \E t \in Threads :
              \/ Local(t) \/ FinishSync(t) \/ Leaving(t) \/ Fork(t)
              \/ \E c \in Cbs : Enqueue(t, c) \/ Return(t, c)
              \/ \E C \in SUBSET Cbs : Cancel(t, C)
         \/ UNCHANGED vars
  BY DEF Next, Step, Worker, Local, Plain, Linked, Counting, Quiet, Leaving

\* What a step of thread t leaves to the other threads.
Apart(t) ==
  \A u \in Threads \ {t} :
    /\ pc'[u] = pc[u] /\ call'[u] = call[u] /\ mygroup'[u] = mygroup[u]
    /\ list'[u] = list[u] /\ pending'[u] = pending[u] /\ job'[u] = job[u]
    /\ unfinished'[u] \subseteq unfinished[u]
    /\ u \in waiters' <=> u \in waiters
    /\ u \in triggered => u \in triggered'

\* What a quiet step of the worker leaves alone.
LEMMA QuietStep ==
  ASSUME Quiet
  PROVE  /\ UNCHANGED <<table, sync, pc, call, list, job, pending, mygroup, late, unfinished>>
         /\ worker # "perform" /\ worker' \notin {"perform", "wait"}
BY DEF Quiet, WorkerWake, WorkerNotify, WorkerExit, WorkerDone, table, life, local

\* What the sections of kind Local leave alone.  A thread goes to wait only
\* from the section in which aio_suspend() finds nothing complete and links it
\* into waiters.
LEMMA LocalStep ==
  ASSUME CallsTyped, NEW t \in Threads, Local(t)
  PROVE  /\ Apart(t) /\ UNCHANGED <<state, life, worker, late, job>>
         /\ notes'[None] = notes[None]
         /\ pc[t] # "perform" /\ pc'[t] # "perform"
         /\ pc'[t] = "wait" => ~Ready(t) /\ t \in waiters' /\ list'[t] = list[t]
<1> DEFINE Kept == /\ Apart(t) /\ UNCHANGED <<state, life, worker, late, job>>
                   /\ notes'[None] = notes[None]
                   /\ pc[t] # "perform" /\ pc'[t] # "perform"
                   /\ pc'[t] = "wait" => ~Ready(t) /\ t \in waiters' /\ list'[t] = list[t]
<1>1. ASSUME Notify(t) \/ Submitted(t) \/ Collect(t) PROVE Kept
  BY <1>1, AioAssumption, SMTT(30)
     DEF Notify, Submitted, Collect, Idle, CallsTyped, Actors, Goto, At, table, life, local, Apart
<1>2. ASSUME NEW c \in Cbs, Reject(t, c) PROVE Kept
  BY <1>2 DEF Reject, CallsTyped, Goto, At, table, life, local, Apart
<1>3. ASSUME NEW L \in SUBSET Cbs, Suspend(t, L) PROVE Kept
  BY <1>3 DEF Suspend, CallsTyped, Goto, At, table, life, local, Apart
<1>4. ASSUME SuspendLook(t) \/ SuspendLink(t) PROVE Kept
  BY <1>4, SMTT(30) DEF SuspendLook, SuspendLink, Leave, Idle, CallsTyped, Goto, At, table, life, local, Apart
<1>5. ASSUME SuspendWake(t) \/ SuspendLate(t) PROVE Kept
  BY <1>5, SMTT(30) DEF SuspendWake, SuspendLate, Leave, Idle, CallsTyped, Goto, At, table, life, local, Apart
<1>6. ASSUME Drop(t) PROVE Kept
  BY <1>6, AioAssumption DEF Drop, CallsTyped, Actors, Goto, At, table, life, local, Apart
<1>7. ASSUME NEW L \in SUBSET Cbs, NEW how \in {"one", "nowait", "wait"}, Submit(t, how, L)
      PROVE  Kept
  BY <1>7 DEF Submit, CallsTyped, Goto, At, table, life, local, Apart
<1> HIDE DEF Kept
<1>8. Kept
  BY <1>1, <1>2, <1>3, <1>4, <1>5, <1>6, <1>7 DEF Local, Plain, Linked, Counting
<1> QED
  BY <1>8 DEF Kept

\* What the steps of exit() leave alone.
LEMMA LeavingStep ==
  ASSUME CallsTyped, NEW t \in Threads, Leaving(t)
  PROVE  /\ Apart(t) /\ UNCHANGED <<table, started, sync, worker, local, late, unfinished>>
         /\ ~over /\ pc[t] \in {"idle", "exit"} /\ pc'[t] \in {"idle", "exit"}
         /\ pc' = [pc EXCEPT ![t] = pc'[t]]
         /\ pc'[t] = "idle" => pc[t] = "idle"
BY DEF Leaving, Exit, ExitWaited, CallsTyped, Goto, At, table, life, local, Apart

\* No other section of a thread touches what is local to another, but for the
\* completions it announces; a fork does away with the other threads.
LEMMA ApartStep ==
  ASSUME CallsTyped, NEW t \in Threads,
         \/ \E c \in Cbs : Enqueue(t, c) \/ Return(t, c)
         \/ FinishSync(t) \/ \E C \in SUBSET Cbs : Cancel(t, C)
  PROVE  Apart(t)
<1>1. ASSUME NEW c \in Cbs, Enqueue(t, c) PROVE Apart(t)
  BY <1>1 DEF Enqueue, Apart, CallsTyped, Actors, Goto
<1>2. CASE FinishSync(t)
  BY <1>2 DEF FinishSync, Finish, Apart, CallsTyped, Actors, Goto
<1>3. ASSUME NEW c \in Cbs, Return(t, c) PROVE Apart(t)
  BY <1>3 DEF Return, Apart, local
<1>4. ASSUME NEW C \in SUBSET Cbs, Cancel(t, C) PROVE Apart(t)
  BY <1>4, SMTT(30) DEF Cancel, Finish, Apart, CallsTyped, Actors, Goto
<1> QED
  BY <1>1, <1>2, <1>3, <1>4

-----------------------------------------------------------------------------
(* Types. *)

\* finish_locked() keeps the table's types.
LEMMA FinishTable ==
  ASSUME TableTyped, NEW a, NEW C, Finish(a, C), UNCHANGED late
  PROVE  TableTyped'
<1>1. /\ state' \in [Cbs -> {"free", "queued", "running", "done"}]
      /\ earlier' \in [Cbs -> SUBSET Cbs]
  BY DEF Finish, Dequeue, TableTyped
<1>2. triggered' \subseteq Threads /\ UNCHANGED <<group, waiters>>
      /\ remaining' = [g \in Groups |-> remaining'[g]]
  BY DEF Finish, TableTyped
<1> QED
  BY <1>1, <1>2 DEF TableTyped

\* Every step keeps the table's types.
LEMMA TableStep == IInv /\ [Next]_vars => TableTyped'
<1> SUFFICES ASSUME IInv, [Next]_vars PROVE TableTyped'
  OBVIOUS
<1>0. TableTyped /\ CallsTyped /\ LifeTyped
  BY DEF IInv, TypeOK
<1>1. ASSUME WorkerLook PROVE TableTyped'
  BY <1>1, <1>0, SMTT(30) DEF WorkerLook, Take, Dequeue, Queued, TableTyped
<1>2. ASSUME WorkerFinish PROVE TableTyped'
  BY <1>2, <1>0, FinishTable DEF WorkerFinish
<1>3. ASSUME Quiet \/ UNCHANGED vars PROVE TableTyped'
  <2>1. UNCHANGED <<table, late>>
    BY <1>3, QuietStep DEF vars
  <2> QED
    BY <1>0, <2>1 DEF TableTyped, table
<1>4. ASSUME NEW t \in Threads, Local(t) PROVE TableTyped'
  <2>1. ASSUME Plain(t) PROVE UNCHANGED table
    BY <2>1
       DEF Plain, Notify, Reject, Submitted, Collect, SuspendLook, Suspend
  <2>2. ASSUME Linked(t)
        PROVE  /\ waiters' \subseteq Threads /\ triggered' \subseteq Threads
               /\ UNCHANGED <<state, earlier, group, remaining>>
    BY <2>2, <1>0 DEF Linked, SuspendLink, SuspendWake, SuspendLate, TableTyped
  <2>3. ASSUME Counting(t)
        PROVE  /\ remaining' = [g \in Groups |-> remaining'[g]]
               /\ UNCHANGED <<state, earlier, group, waiters, triggered>>
    BY <2>3, <1>0 DEF Counting, Drop, Submit, TableTyped
  <2>4. UNCHANGED late
    BY <1>4, <1>0, LocalStep
  <2> QED
    BY <1>4, <1>0, <2>1, <2>2, <2>3, <2>4 DEF Local, TableTyped, table
<1>5. ASSUME NEW t \in Threads, FinishSync(t) PROVE TableTyped'
  BY <1>5, <1>0, FinishTable DEF FinishSync
<1>6. ASSUME NEW t \in Threads, Leaving(t) PROVE TableTyped'
  <2>1. UNCHANGED <<table, late>>
    BY <1>6, <1>0, LeavingStep
  <2> QED
    BY <1>0, <2>1 DEF TableTyped, table
<1>7. ASSUME NEW t \in Threads, Fork(t) PROVE TableTyped'
  BY <1>7 DEF Fork, Fresh, NoOrder, TableTyped
<1>8. ASSUME NEW t \in Threads, NEW c \in Cbs, Enqueue(t, c) PROVE TableTyped'
  <2>1. sync' \in BOOLEAN /\ UNCHANGED <<remaining, waiters, triggered>>
    BY <1>8, <1>0 DEF Enqueue, StartWorker, LifeTyped
  <2>2. /\ state' \in [Cbs -> {"free", "queued", "running", "done"}]
        /\ group' \in [Cbs -> Groups \cup {None}] /\ late' \subseteq Cbs
    BY <1>8, <1>0 DEF Enqueue, TableTyped, CallsTyped
  <2>3. earlier' \in [Cbs -> SUBSET Cbs]
    BY <1>8, <1>0 DEF Enqueue, TableTyped, Queued
  <2> QED
    BY <1>0, <2>1, <2>2, <2>3 DEF TableTyped
<1>9. ASSUME NEW t \in Threads, NEW c \in Cbs, Return(t, c) PROVE TableTyped'
  BY <1>9, <1>0 DEF Return, TableTyped
<1>10. ASSUME NEW t \in Threads, NEW C \in SUBSET Cbs, Cancel(t, C) PROVE TableTyped'
  BY <1>10, <1>0, FinishTable DEF Cancel
<1> QED
  BY Kinds, <1>1, <1>2, <1>3, <1>4, <1>5, <1>6, <1>7, <1>8, <1>9, <1>10

\* Every step keeps the types of what is known of the worker.
LEMMA LifeStep == IInv /\ [Next]_vars => LifeTyped'
<1> SUFFICES ASSUME IInv, [Next]_vars PROVE LifeTyped'
  OBVIOUS
<1>0. LifeTyped /\ CallsTyped
  BY DEF IInv, TypeOK
<1>1. ASSUME WorkerLook \/ WorkerFinish PROVE LifeTyped'
  BY <1>1, <1>0 DEF WorkerLook, WorkerFinish, Take, LifeTyped, life
<1>2. ASSUME Quiet PROVE LifeTyped'
  BY <1>2, <1>0
     DEF Quiet, WorkerWake, WorkerNotify, WorkerExit, WorkerDone, LifeTyped, life
<1>3. ASSUME NEW t \in Threads,
             \/ Local(t) \/ FinishSync(t)
             \/ (\E c \in Cbs : Return(t, c)) \/ \E C \in SUBSET Cbs : Cancel(t, C)
      PROVE  LifeTyped'
  <2>1. UNCHANGED <<life, worker>>
    BY <1>3, <1>0, LocalStep DEF FinishSync, Return, Cancel
  <2> QED
    BY <1>0, <2>1 DEF LifeTyped, life
<1>4. ASSUME NEW t \in Threads, Leaving(t) PROVE LifeTyped'
  BY <1>4, <1>0 DEF Leaving, Exit, ExitWaited, LifeTyped
<1>5. ASSUME NEW t \in Threads, Fork(t) PROVE LifeTyped'
  BY <1>5, <1>0 DEF Fork, LifeTyped
<1>6. ASSUME NEW t \in Threads, NEW c \in Cbs, Enqueue(t, c) PROVE LifeTyped'
  BY <1>6, <1>0 DEF Enqueue, StartWorker, LifeTyped
<1>7. CASE UNCHANGED vars
  BY <1>7, <1>0 DEF vars, LifeTyped, life
<1> QED
  BY Kinds, <1>1, <1>2, <1>3, <1>4, <1>5, <1>6, <1>7

\* finish_locked() keeps the types of the calls it touches.
LEMMA FinishCalls ==
  ASSUME CallsTyped, NEW a \in Actors, NEW C \in SUBSET Cbs, Finish(a, C)
  PROVE  /\ notes' \in [Actors -> SUBSET (Cbs \cup Groups)]
         /\ unfinished' \in [Threads -> SUBSET Cbs]
<1>1. unfinished' \in [Threads -> SUBSET Cbs]
  BY DEF Finish, CallsTyped
<1>2. notes' \in [Actors -> SUBSET (Cbs \cup Groups)]
  BY DEF Finish, CallsTyped
<1> QED
  BY <1>1, <1>2

\* Every step keeps the types of the calls.
LEMMA CallsStep == IInv /\ [Next]_vars => CallsTyped'
<1> SUFFICES ASSUME IInv, [Next]_vars PROVE CallsTyped'
  OBVIOUS
<1>0. CallsTyped /\ RunningPerformed /\ CallsSound
  BY DEF IInv, TypeOK
<1>1. ASSUME WorkerLook PROVE CallsTyped'
  <2>1. job' \in [Actors -> Cbs \cup {None}]
    BY <1>1, <1>0 DEF WorkerLook, Take, Queued, CallsTyped, Actors
  <2> QED
    BY <1>1, <1>0, <2>1 DEF WorkerLook, CallsTyped
<1>2. ASSUME WorkerFinish PROVE CallsTyped'
  <2>1. None \in Actors /\ {job[None]} \in SUBSET Cbs
    BY <1>2, <1>0 DEF WorkerFinish, RunningPerformed, Actors
  <2>2. /\ notes' \in [Actors -> SUBSET (Cbs \cup Groups)]
        /\ unfinished' \in [Threads -> SUBSET Cbs]
    BY <1>2, <1>0, <2>1, FinishCalls DEF WorkerFinish
  <2>3. job' \in [Actors -> Cbs \cup {None}]
    BY <1>2, <1>0 DEF WorkerFinish, CallsTyped, Actors
  <2> QED
    BY <1>2, <1>0, <2>2, <2>3 DEF WorkerFinish, CallsTyped
<1>3. ASSUME Quiet \/ UNCHANGED vars PROVE CallsTyped'
  <2>1. UNCHANGED <<pc, call, list, job, pending, mygroup, unfinished>>
    BY <1>3, QuietStep DEF vars, local
  <2>2. notes' \in [Actors -> SUBSET (Cbs \cup Groups)]
    BY <1>3, <1>0 DEF Quiet, WorkerWake, WorkerNotify, WorkerExit, WorkerDone, vars, local,
                      CallsTyped
  <2> QED
    BY <1>0, <2>1, <2>2 DEF CallsTyped
<1>4. ASSUME NEW t \in Threads, Notify(t) \/ Submitted(t) \/ Collect(t) PROVE CallsTyped'
  BY <1>4, <1>0, SMTT(30) DEF Notify, Submitted, Collect, Idle, CallsTyped, Goto
<1>5. ASSUME NEW t \in Threads, NEW c \in Cbs, Reject(t, c) PROVE CallsTyped'
  BY <1>5, <1>0 DEF Reject, CallsTyped, Goto
<1>16. ASSUME NEW t \in Threads, NEW L \in SUBSET Cbs, Suspend(t, L) PROVE CallsTyped'
  BY <1>16, <1>0 DEF Suspend, CallsTyped, Goto
<1>6. ASSUME NEW t \in Threads, SuspendLook(t) \/ SuspendLink(t) PROVE CallsTyped'
  BY <1>6, <1>0, SMTT(30) DEF SuspendLook, SuspendLink, Leave, Idle, CallsTyped, Goto
<1>7. ASSUME NEW t \in Threads, SuspendWake(t) \/ SuspendLate(t) PROVE CallsTyped'
  BY <1>7, <1>0, SMTT(30) DEF SuspendWake, SuspendLate, Leave, Idle, CallsTyped, Goto
<1>8. ASSUME NEW t \in Threads, Drop(t) PROVE CallsTyped'
  <2>1. mygroup[t] \in Groups
    BY <1>8, <1>0 DEF Drop, At, CallsSound, CallSound, CallsTyped
  <2>2. notes' \in [Actors -> SUBSET (Cbs \cup Groups)]
    BY <1>8, <1>0, <2>1 DEF Drop, CallsTyped, Actors
  <2> QED
    BY <1>8, <1>0, <2>2 DEF Drop, CallsTyped, Goto
<1>9. ASSUME NEW t \in Threads, NEW L \in SUBSET Cbs,
             NEW how \in {"one", "nowait", "wait"}, Submit(t, how, L)
      PROVE  CallsTyped'
  BY <1>9, <1>0 DEF Submit, CallsTyped, Goto
<1>10. ASSUME NEW t \in Threads, FinishSync(t) PROVE CallsTyped'
  <2>1. t \in Actors /\ {job[t]} \in SUBSET Cbs
    BY <1>10, <1>0 DEF FinishSync, RunningPerformed, At, Actors
  <2>2. /\ notes' \in [Actors -> SUBSET (Cbs \cup Groups)]
        /\ unfinished' \in [Threads -> SUBSET Cbs]
    BY <1>10, <1>0, <2>1, FinishCalls DEF FinishSync
  <2>3. job' \in [Actors -> Cbs \cup {None}]
    BY <1>10, <1>0 DEF FinishSync, CallsTyped, Actors
  <2> QED
    BY <1>10, <1>0, <2>2, <2>3 DEF FinishSync, CallsTyped, Goto
<1>11. ASSUME NEW t \in Threads, Leaving(t) PROVE CallsTyped'
  <2>1. /\ UNCHANGED <<local, unfinished>> /\ pc'[t] \in {"idle", "exit"}
        /\ pc' = [pc EXCEPT ![t] = pc'[t]]
    BY <1>11, <1>0, LeavingStep
  <2> QED
    BY <1>0, <2>1 DEF CallsTyped, local
<1>12. ASSUME NEW t \in Threads, Fork(t) PROVE CallsTyped'
  BY <1>12 DEF Fork, CallsTyped
<1>13. ASSUME NEW t \in Threads, NEW c \in Cbs, Enqueue(t, c) PROVE CallsTyped'
  BY <1>13, <1>0, SMTT(30) DEF Enqueue, CallsTyped, Actors, Goto
<1>14. ASSUME NEW t \in Threads, NEW c \in Cbs, Return(t, c) PROVE CallsTyped'
  BY <1>14, <1>0 DEF Return, CallsTyped, local
<1>15. ASSUME NEW t \in Threads, NEW C \in SUBSET Cbs, Cancel(t, C) PROVE CallsTyped'
  <2>1. t \in Actors /\ {c \in C : state[c] = "queued"} \in SUBSET Cbs
    BY DEF Actors
  <2>2. /\ notes' \in [Actors -> SUBSET (Cbs \cup Groups)]
        /\ unfinished' \in [Threads -> SUBSET Cbs]
    BY <1>15, <1>0, <2>1, FinishCalls DEF Cancel
  <2> QED
    BY <1>15, <1>0, <2>2 DEF Cancel, CallsTyped, Goto
<1> QED
  BY Kinds, <1>1, <1>2, <1>3, <1>4, <1>5, <1>6, <1>7, <1>8, <1>9, <1>10, <1>11,
     <1>12, <1>13, <1>14, <1>15, <1>16
     DEF Local, Plain, Linked, Counting

-----------------------------------------------------------------------------
(* Who performs what, and what the calls and the worker still have to do. *)

\* Who performs what is as before when nobody starts or ends a performance.
LEMMA QuietPerformed ==
  ASSUME RunningPerformed, NEW t \in Threads, Apart(t), UNCHANGED <<worker, sync>>,
         job'[t] = job[t], job'[None] = job[None],
         pc[t] # "perform", pc'[t] # "perform",
         \A c \in Cbs : state'[c] = "running" <=> state[c] = "running"
  PROVE  RunningPerformed'
<1>1. \A u \in Threads : /\ pc'[u] = "perform" <=> pc[u] = "perform"
                         /\ job'[u] = job[u]
  BY DEF Apart
<1> QED
  BY <1>1, SMTT(30) DEF RunningPerformed

\* A request starts to run by the actor that performs it, and ends with it.
LEMMA PerformedStep == IInv /\ [Next]_vars => RunningPerformed'
<1> SUFFICES ASSUME IInv, [Next]_vars PROVE RunningPerformed'
  OBVIOUS
<1>0. RunningPerformed /\ WorkerSound /\ TableTyped /\ LifeTyped /\ CallsTyped
  BY DEF IInv, TypeOK
<1>1. ASSUME WorkerLook PROVE RunningPerformed'
  <2>1. CASE Take
    <3>1. PICK c \in Queued : /\ job' = [job EXCEPT ![None] = c]
                              /\ state' = [state EXCEPT ![c] = "running"]
                              /\ worker' = "perform"
      BY <2>1 DEF Take
    <3>2. worker = "look" /\ ~sync /\ UNCHANGED <<pc, sync>>
      BY <1>1, <1>0 DEF WorkerLook, WorkerSound, life
    <3>3. c \in Cbs /\ state[c] = "queued"
      BY DEF Queued
    <3>4. \A u \in Threads : pc[u] # "perform"
      BY <1>0, <3>2 DEF RunningPerformed
    <3>5. \A d \in Cbs : state[d] # "running"
      BY <1>0, <3>2, <3>4 DEF RunningPerformed
    <3>6. job'[None] = c /\ state'[c] = "running"
      BY <1>0, <3>1, <3>3 DEF CallsTyped, TableTyped, Actors
    <3>7. \A d \in Cbs : state'[d] = "running" => d = c
      BY <1>0, <3>1, <3>3, <3>5 DEF TableTyped
    <3> QED
      BY <3>1, <3>2, <3>3, <3>4, <3>6, <3>7 DEF RunningPerformed
  <2>2. CASE ~Take
    BY <1>1, <1>0, <2>2, SMTT(30) DEF WorkerLook, RunningPerformed, life
  <2> QED
    BY <2>1, <2>2
<1>2. ASSUME Quiet PROVE RunningPerformed'
  <2>1. UNCHANGED <<state, sync, pc, job>> /\ worker # "perform" /\ worker' # "perform"
    BY <1>2, QuietStep DEF table
  <2> QED
    BY <1>0, <2>1 DEF RunningPerformed
<1>3. ASSUME WorkerFinish PROVE RunningPerformed'
  <2>1. ~sync /\ worker' = "notify" /\ UNCHANGED <<pc, sync>>
    BY <1>3, <1>0 DEF WorkerFinish, WorkerSound, life
  <2>2. \A u \in Threads : pc[u] # "perform"
    BY <1>0, <2>1 DEF RunningPerformed
  <2>3. \A d \in Cbs : state[d] = "running" => d = job[None]
    BY <1>0, <2>2 DEF RunningPerformed
  <2>4. \A d \in Cbs : state'[d] # "running"
    BY <1>3, <1>0, <2>3 DEF WorkerFinish, Finish, TableTyped
  <2> QED
    BY <2>1, <2>2, <2>4 DEF RunningPerformed
<1>4. ASSUME NEW t \in Threads, Local(t) PROVE RunningPerformed'
  <2>1. /\ Apart(t) /\ UNCHANGED <<state, life, worker, late, job>>
        /\ notes'[None] = notes[None]
        /\ pc[t] # "perform" /\ pc'[t] # "perform"
    BY <1>4, <1>0, LocalStep
  <2> QED
    BY <1>0, <2>1, QuietPerformed DEF life
<1>5. ASSUME NEW t \in Threads, NEW c \in Cbs, Enqueue(t, c) PROVE RunningPerformed'
  <2>1. Apart(t)
    BY <1>5, <1>0, ApartStep
  <2>2. /\ pc[t] = "list" /\ state[c] = "free"
        /\ state' = [state EXCEPT ![c] = IF sync' THEN "running" ELSE "queued"]
        /\ job' = IF sync' THEN [job EXCEPT ![t] = c] ELSE job
    BY <1>5 DEF Enqueue, At
  <2>3. pc'[t] = IF sync' THEN "perform" ELSE "list"
    BY <1>5, <1>0 DEF Enqueue, Goto, CallsTyped
  <2>4. /\ worker = "perform" => worker' = "perform" /\ ~sync'
        /\ worker' = "perform" => worker = "perform"
        /\ sync => sync'
    <3>1. CASE started
      <4>1. UNCHANGED <<worker, sync>>
        BY <1>5, <3>1 DEF Enqueue, StartWorker
      <4> QED
        BY <1>0, <4>1 DEF WorkerSound
    <3>2. CASE ~started
      <4>1. worker = "none" /\ ~sync
        BY <1>0, <3>2 DEF WorkerSound
      <4>2. worker' \in {"none", "look"}
        BY <1>5, <3>2, <4>1 DEF Enqueue, StartWorker
      <4> QED
        BY <4>1, <4>2
    <3> QED
      BY <3>1, <3>2
  <2>5. job'[None] = job[None] /\ (sync' => job'[t] = c)
    BY <1>0, <2>2, AioAssumption DEF CallsTyped, Actors
  <2>6. \A d \in Cbs \ {c} : state'[d] = state[d]
    BY <1>0, <2>2 DEF TableTyped
  <2>7. state'[c] = IF sync' THEN "running" ELSE "queued"
    BY <1>0, <2>2 DEF TableTyped
  <2>8. \A u \in Threads \ {t} : pc'[u] = pc[u] /\ job'[u] = job[u]
    BY <2>1 DEF Apart
  <2>9. worker' = "perform" => job'[None] \in Cbs /\ state'[job'[None]] = "running"
    BY <1>0, <2>2, <2>4, <2>5, <2>6 DEF RunningPerformed
  <2>10. \A u \in Threads : pc'[u] = "perform" =>
            sync' /\ job'[u] \in Cbs /\ state'[job'[u]] = "running"
    BY <1>0, <2>2, <2>3, <2>4, <2>5, <2>6, <2>7, <2>8, SMTT(30) DEF RunningPerformed
  <2>11. \A u, v \in Threads :
            (pc'[u] = "perform" /\ pc'[v] = "perform" /\ job'[u] = job'[v]) => u = v
    BY <1>0, <2>2, <2>3, <2>5, <2>8, SMTT(30) DEF RunningPerformed
  <2>12. \A d \in Cbs : state'[d] = "running" =>
            \/ worker' = "perform" /\ job'[None] = d
            \/ \E u \in Threads : pc'[u] = "perform" /\ job'[u] = d
    BY <1>0, <2>2, <2>3, <2>4, <2>5, <2>6, <2>7, <2>8, SMTT(30) DEF RunningPerformed
  <2> QED
    BY <2>9, <2>10, <2>11, <2>12 DEF RunningPerformed
<1>6. ASSUME NEW t \in Threads, FinishSync(t) PROVE RunningPerformed'
  <2>1. Apart(t)
    BY <1>6, <1>0, ApartStep
  <2>2. /\ pc[t] = "perform" /\ pc'[t] = "notify" /\ job'[None] = job[None]
        /\ UNCHANGED <<worker, sync>>
    BY <1>6, <1>0, AioAssumption DEF FinishSync, At, Goto, CallsTyped, Actors, life
  <2>3. \A d \in Cbs : state'[d] = IF d = job[t] THEN "done" ELSE state[d]
    BY <1>6 DEF FinishSync, Finish
  <2>4. sync /\ worker # "perform"
    BY <1>0, <2>2 DEF RunningPerformed, WorkerSound
  <2>5. \A u \in Threads \ {t} : pc'[u] = pc[u] /\ job'[u] = job[u]
    BY <2>1 DEF Apart
  <2>6. \A u \in Threads : pc'[u] = "perform" => job[u] # job[t]
    BY <1>0, <2>2, <2>5, SMTT(30) DEF RunningPerformed
  <2>7. \A u \in Threads : pc'[u] = "perform" =>
           sync' /\ job'[u] \in Cbs /\ state'[job'[u]] = "running"
    BY <1>0, <2>2, <2>3, <2>5, <2>6, SMTT(30) DEF RunningPerformed
  <2>8. \A u, v \in Threads :
           (pc'[u] = "perform" /\ pc'[v] = "perform" /\ job'[u] = job'[v]) => u = v
    BY <1>0, <2>2, <2>5, SMTT(30) DEF RunningPerformed
  <2>9. \A d \in Cbs : state'[d] = "running" =>
           \E u \in Threads : pc'[u] = "perform" /\ job'[u] = d
    BY <1>0, <2>2, <2>3, <2>4, <2>5, SMTT(30) DEF RunningPerformed
  <2> QED
    BY <2>2, <2>4, <2>7, <2>8, <2>9 DEF RunningPerformed
<1>7. ASSUME NEW t \in Threads, Leaving(t) PROVE RunningPerformed'
  <2>1. /\ Apart(t) /\ UNCHANGED <<state, sync, worker, job>>
        /\ pc[t] \in {"idle", "exit"} /\ pc'[t] \in {"idle", "exit"}
    BY <1>7, <1>0, LeavingStep DEF table, local
  <2> QED
    BY <1>0, <2>1, QuietPerformed
<1>8. ASSUME NEW t \in Threads, Fork(t) PROVE RunningPerformed'
  BY <1>8, <1>0 DEF Fork, Fresh, NoOrder, Actors, RunningPerformed, Goto, At, table, life, local
<1>9. ASSUME NEW t \in Threads, NEW c \in Cbs, Return(t, c) PROVE RunningPerformed'
  <2>1. Apart(t)
    BY <1>9, <1>0, ApartStep
  <2>2. UNCHANGED <<worker, sync, job>> /\ pc[t] # "perform" /\ pc'[t] # "perform"
    BY <1>9, <1>0 DEF Return, CallsTyped, Goto, At, table, life, local
  <2>3. \A d \in Cbs : state'[d] = "running" <=> state[d] = "running"
    BY <1>9, <1>0 DEF Return, TableTyped
  <2> QED
    BY <1>0, <2>1, <2>2, <2>3, QuietPerformed
<1>10. ASSUME NEW t \in Threads, NEW C \in SUBSET Cbs, Cancel(t, C) PROVE RunningPerformed'
  <2>1. Apart(t)
    BY <1>10, <1>0, ApartStep
  <2>2. UNCHANGED <<worker, sync, job>> /\ pc[t] # "perform" /\ pc'[t] # "perform"
    BY <1>10, <1>0 DEF Cancel, CallsTyped, Goto, At, table, life, local
  <2>3. \A d \in Cbs : state'[d] = "running" <=> state[d] = "running"
    BY <1>10, <1>0 DEF Cancel, Finish, TableTyped
  <2> QED
    BY <1>0, <2>1, <2>2, <2>3, QuietPerformed
<1>11. CASE UNCHANGED vars
  BY <1>11, <1>0 DEF vars, RunningPerformed, Goto, At, table, life, local
<1> QED
  BY Kinds, <1>1, <1>2, <1>3, <1>4, <1>5, <1>6, <1>7, <1>8, <1>9, <1>10, <1>11

\* The other calls are as sound as before when nothing they wait for ends
\* unannounced.
LEMMA QuietCalls ==
  ASSUME CallsSound, NEW t \in Threads, Apart(t), CallSound(t)',
         \A u \in Threads : \A c \in unfinished'[u] : InProgress(c) => InProgress(c)'
  PROVE  CallsSound'
<1> SUFFICES ASSUME NEW u \in Threads PROVE CallSound(u)'
  BY DEF CallsSound
<1>1. CASE u = t
  BY <1>1
<1>2. CASE u # t
  <2>1. /\ pc'[u] = pc[u] /\ call'[u] = call[u] /\ mygroup'[u] = mygroup[u]
        /\ pending'[u] = pending[u] /\ unfinished'[u] \subseteq unfinished[u]
    BY <1>2 DEF Apart
  <2>2. CallSound(u)
    BY DEF CallsSound
  <2> QED
    BY <2>1, <2>2 DEF CallSound
<1> QED
  BY <1>1, <1>2

\* A call takes a group when it begins and gives it up before it returns; what
\* it must not leave behind it keeps in pending until it is done.
LEMMA CallsSoundStep == IInv /\ [Next]_vars => CallsSound'
<1> SUFFICES ASSUME IInv, [Next]_vars PROVE CallsSound'
  OBVIOUS
<1>0. CallsSound /\ TableTyped /\ CallsTyped
  BY DEF IInv, TypeOK
<1>1. ASSUME WorkerLook PROVE CallsSound'
  <2>1. \A d \in Cbs : InProgress(d) => InProgress(d)'
    BY <1>1, <1>0 DEF WorkerLook, Take, Queued, InProgress, TableTyped
  <2>2. UNCHANGED <<pc, call, mygroup, pending, unfinished>>
    BY <1>1 DEF WorkerLook
  <2> QED
    BY <1>0, <2>1, <2>2 DEF CallsSound, CallSound, CallsTyped
<1>2. ASSUME Quiet \/ UNCHANGED vars PROVE CallsSound'
  <2>1. UNCHANGED <<state, pc, call, mygroup, pending, unfinished>>
    BY <1>2, QuietStep DEF vars, table, local
  <2> QED
    BY <1>0, <2>1 DEF CallsSound, CallSound, InProgress
<1>3. ASSUME WorkerFinish PROVE CallsSound'
  <2>1. \A u \in Threads : unfinished'[u] = unfinished[u] \ {job[None]}
    BY <1>3, <1>0 DEF WorkerFinish, Finish, CallsTyped
  <2>2. \A d \in Cbs \ {job[None]} : state'[d] = state[d]
    BY <1>3, <1>0 DEF WorkerFinish, Finish, TableTyped
  <2>3. \A u \in Threads : \A c \in unfinished'[u] : InProgress(c) => InProgress(c)'
    BY <1>0, <2>1, <2>2 DEF InProgress, CallsTyped
  <2>4. UNCHANGED <<pc, call, mygroup, pending>>
    BY <1>3 DEF WorkerFinish
  <2> QED
    BY <1>0, <2>1, <2>3, <2>4 DEF CallsSound, CallSound
<1>4. ASSUME NEW t \in Threads, Local(t) PROVE CallsSound'
  <2>0. Apart(t) /\ UNCHANGED state /\ CallSound(t) /\ CallsTyped
    BY <1>4, <1>0, LocalStep DEF CallsSound
  <2>1. ASSUME Notify(t) \/ Submitted(t) \/ Collect(t) PROVE CallSound(t)'
    BY <2>1, <2>0, SMTT(30) DEF Notify, Submitted, Collect, Idle, CallSound, InProgress, CallsTyped, Goto, At
  <2>2. ASSUME NEW c \in Cbs, Reject(t, c) PROVE CallSound(t)'
    BY <2>2, <2>0 DEF Reject, CallSound, InProgress, CallsTyped, Goto, At
  <2>7. ASSUME Drop(t) PROVE CallSound(t)'
    BY <2>7, <2>0 DEF Drop, CallSound, InProgress, CallsTyped, Goto, At
  <2>3. ASSUME SuspendLook(t) \/ Linked(t) PROVE CallSound(t)'
    BY <2>3, <2>0 DEF SuspendLook, Linked, SuspendLink, SuspendWake, SuspendLate, Leave, Idle,
                      CallSound, InProgress, CallsTyped, Goto, At
  <2>4. ASSUME NEW L \in SUBSET Cbs, Suspend(t, L) PROVE CallSound(t)'
    BY <2>4, <2>0 DEF Suspend, CallSound, InProgress, CallsTyped, Goto, At
  <2>5. ASSUME NEW L \in SUBSET Cbs, NEW how \in {"one", "nowait", "wait"}, Submit(t, how, L)
        PROVE  CallSound(t)'
    BY <2>5, <2>0 DEF Submit, CallSound, InProgress, CallsTyped, Goto, At
  <2>6. CallSound(t)'
    BY <1>4, <2>1, <2>2, <2>3, <2>4, <2>5, <2>7 DEF Local, Plain, Counting
  <2> QED
    BY <1>0, <2>0, <2>6, QuietCalls DEF InProgress
<1>5. ASSUME NEW t \in Threads, NEW c \in Cbs, Enqueue(t, c) PROVE CallsSound'
  <2>1. Apart(t)
    BY <1>5, <1>0, ApartStep
  <2>2. CallSound(t) /\ unfinished[t] \subseteq Cbs
    BY <1>0 DEF CallsSound, CallsTyped
  <2>3. \A d \in Cbs : InProgress(d) \/ d = c => InProgress(d)'
    BY <1>5, <1>0 DEF Enqueue, InProgress, TableTyped
  <2>4. /\ pc[t] = "list" /\ pc'[t] \in {"perform", "list"}
        /\ UNCHANGED <<call, mygroup>>
        /\ pending'[t] = IF call[t] = "wait" THEN pending[t] \cup {c} ELSE pending[t]
        /\ unfinished'[t] = IF call[t] = "wait" THEN unfinished[t] \cup {c} ELSE unfinished[t]
    BY <1>5, <1>0 DEF Enqueue, CallsTyped, Goto, At
  <2>5. CallSound(t)'
    BY <2>2, <2>3, <2>4 DEF CallSound
  <2>6. \A u \in Threads : unfinished'[u] \subseteq Cbs
    BY <1>5, <1>0 DEF Enqueue, CallsTyped
  <2> QED
    BY <1>0, <2>1, <2>3, <2>5, <2>6, QuietCalls
<1>6. ASSUME NEW t \in Threads, FinishSync(t) PROVE CallsSound'
  <2>1. Apart(t)
    BY <1>6, <1>0, ApartStep
  <2>2. CallSound(t)
    BY <1>0 DEF CallsSound
  <2>3. \A u \in Threads : unfinished'[u] = unfinished[u] \ {job[t]}
    BY <1>6, <1>0 DEF FinishSync, Finish, CallsTyped
  <2>4. \A d \in Cbs \ {job[t]} : state'[d] = state[d]
    BY <1>6, <1>0 DEF FinishSync, Finish, TableTyped
  <2>5. \A u \in Threads : unfinished[u] \subseteq Cbs
    BY <1>0 DEF CallsTyped
  <2>6. \A u \in Threads : \A c \in unfinished'[u] : InProgress(c) => InProgress(c)'
    BY <2>3, <2>4, <2>5 DEF InProgress
  <2>7. CallSound(t)'
    BY <1>6, <1>0, <2>2, <2>3, <2>6 DEF FinishSync, CallSound, CallsTyped, Goto, At
  <2> QED
    BY <1>0, <2>1, <2>6, <2>7, QuietCalls
<1>7. ASSUME NEW t \in Threads, Leaving(t) PROVE CallsSound'
  <2>1. /\ Apart(t) /\ UNCHANGED <<state, call, mygroup, pending, unfinished>>
        /\ pc[t] \in {"idle", "exit"} /\ pc'[t] \in {"idle", "exit"}
        /\ pc'[t] = "idle" => pc[t] = "idle"
    BY <1>7, <1>0, LeavingStep DEF table, local
  <2>2. CallSound(t)'
    BY <1>0, <2>1 DEF CallsSound, CallSound, InProgress
  <2> QED
    BY <1>0, <2>1, <2>2, QuietCalls DEF InProgress
<1>8. ASSUME NEW t \in Threads, Fork(t) PROVE CallsSound'
  BY <1>8 DEF Fork, CallsSound, CallSound
<1>9. ASSUME NEW t \in Threads, NEW c \in Cbs, Return(t, c) PROVE CallsSound'
  <2>1. Apart(t)
    BY <1>9, <1>0, ApartStep
  <2>2. CallSound(t)
    BY <1>0 DEF CallsSound
  <2>3. \A d \in Cbs : InProgress(d) => InProgress(d)'
    BY <1>9, <1>0 DEF Return, InProgress, TableTyped
  <2>4. CallSound(t)'
    BY <1>9, <1>0, <2>2, <2>3 DEF Return, CallSound, CallsTyped, Goto, At, table, life, local
  <2>5. \A u \in Threads : unfinished'[u] \subseteq Cbs
    BY <1>9, <1>0 DEF Return, CallsTyped
  <2> QED
    BY <1>0, <2>1, <2>3, <2>4, <2>5, QuietCalls
<1>10. ASSUME NEW t \in Threads, NEW C \in SUBSET Cbs, Cancel(t, C) PROVE CallsSound'
  <2>1. Apart(t)
    BY <1>10, <1>0, ApartStep
  <2>2. CallSound(t)
    BY <1>0 DEF CallsSound
  <2>3. \A u \in Threads : unfinished'[u] = unfinished[u] \ {c \in C : state[c] = "queued"}
    BY <1>10, <1>0 DEF Cancel, Finish, CallsTyped
  <2>4. \A d \in Cbs \ {c \in C : state[c] = "queued"} : state'[d] = state[d]
    BY <1>10, <1>0 DEF Cancel, Finish, TableTyped
  <2>5. \A u \in Threads : unfinished[u] \subseteq Cbs
    BY <1>0 DEF CallsTyped
  <2>6. \A u \in Threads : \A c \in unfinished'[u] : InProgress(c) => InProgress(c)'
    BY <2>3, <2>4, <2>5 DEF InProgress
  <2>7. CallSound(t)'
    BY <1>10, <1>0, <2>2, <2>3, <2>6 DEF Cancel, CallSound, CallsTyped, Goto, At
  <2> QED
    BY <1>0, <2>1, <2>6, <2>7, QuietCalls
<1> QED
  BY Kinds, <1>1, <1>2, <1>3, <1>4, <1>5, <1>6, <1>7, <1>8, <1>9, <1>10

\* The worker's flags follow it, and what is submitted after it has left its
\* loop is late.
LEMMA WorkerStep == IInv /\ [Next]_vars => WorkerSound'
<1> SUFFICES ASSUME IInv, [Next]_vars PROVE WorkerSound'
  OBVIOUS
<1>0. WorkerSound /\ RunningPerformed /\ TableTyped /\ LifeTyped /\ CallsTyped
  BY DEF IInv, TypeOK
<1>1. ASSUME WorkerLook PROVE WorkerSound'
  <2>1. /\ worker = "look" /\ notes' = notes
        /\ UNCHANGED <<started, sync, shutdown, ended, doneSet, over, late>>
    BY <1>1 DEF WorkerLook, life
  <2>2. CASE Take
    BY <1>0, <2>1, <2>2 DEF Take, WorkerSound
  <2>3. CASE Queued = {} /\ worker' = (IF shutdown THEN "exit" ELSE "wait") /\ state' = state
    <3>1. \A c \in Cbs : ~InProgress(c)
      BY <1>0, <2>1, <2>3 DEF WorkerSound, RunningPerformed, Queued, InProgress
    <3> QED
      BY <1>0, <2>1, <2>3, <3>1 DEF WorkerSound, InProgress
  <2> QED
    BY <1>1, <2>2, <2>3 DEF WorkerLook
<1>2. ASSUME WorkerWake \/ WorkerExit \/ WorkerDone PROVE WorkerSound'
  <2>1. UNCHANGED <<state, started, sync, shutdown, over, notes, late>>
    BY <1>2 DEF WorkerWake, WorkerExit, WorkerDone, table, local
  <2>2. CASE WorkerWake
    BY <1>0, <2>1, <2>2, SMTT(30) DEF WorkerWake, WorkerSound, InProgress
  <2>3. CASE WorkerExit
    BY <1>0, <2>1, <2>3, SMTT(30) DEF WorkerExit, WorkerSound, InProgress
  <2>4. CASE WorkerDone
    BY <1>0, <2>1, <2>4, SMTT(30) DEF WorkerDone, WorkerSound, InProgress
  <2> QED
    BY <1>2, <2>2, <2>3, <2>4
<1>3. ASSUME WorkerFinish PROVE WorkerSound'
  BY <1>3, <1>0 DEF WorkerFinish, WorkerSound, life
<1>4. ASSUME WorkerNotify PROVE WorkerSound'
  <2>1. notes'[None] = {}
    BY <1>4, <1>0 DEF WorkerNotify, CallsTyped, Actors
  <2> QED
    BY <1>4, <1>0, <2>1 DEF WorkerNotify, WorkerSound, life
<1>5. ASSUME NEW t \in Threads, Local(t) PROVE WorkerSound'
  <2>1. UNCHANGED <<state, life, worker, late>> /\ notes'[None] = notes[None]
    BY <1>5, <1>0, LocalStep
  <2> QED
    BY <1>0, <2>1 DEF WorkerSound, InProgress, life
<1>6. ASSUME NEW t \in Threads, NEW c \in Cbs, Enqueue(t, c) PROVE WorkerSound'
  <2>1. /\ ~over /\ ~over' /\ notes' = notes
        /\ UNCHANGED <<shutdown, ended, doneSet>>
    BY <1>6 DEF Enqueue, At
  <2>2. \A d \in Cbs : InProgress(d)' => InProgress(d) \/ d = c
    BY <1>6, <1>0 DEF Enqueue, InProgress, TableTyped
  <2>3. late \subseteq late' /\ (shutdown => c \in late')
    BY <1>6 DEF Enqueue
  <2>4. CASE started
    <3>1. UNCHANGED <<started, sync, worker>>
      BY <1>6, <2>4 DEF Enqueue, StartWorker
    <3> QED
      BY <1>0, <2>1, <2>2, <2>3, <3>1 DEF WorkerSound
  <2>5. CASE ~started
    <3>1. worker = "none" /\ started' /\ notes[None] = {} /\ ~ended /\ ~doneSet
      BY <1>6, <1>0, <2>5 DEF Enqueue, StartWorker, WorkerSound
    <3>2. IF sync' THEN worker' = worker ELSE worker' = "look"
      BY <1>6, <2>5 DEF Enqueue, StartWorker
    <3> QED
      BY <2>1, <3>1, <3>2 DEF WorkerSound
  <2> QED
    BY <2>4, <2>5
<1>7. ASSUME NEW t \in Threads, FinishSync(t) PROVE WorkerSound'
  <2>1. UNCHANGED <<life, worker, late>> /\ notes'[None] = notes[None]
    BY <1>7, <1>0, AioAssumption DEF FinishSync, Finish, CallsTyped, Actors
  <2>2. \A d \in Cbs : InProgress(d)' => InProgress(d)
    BY <1>7, <1>0 DEF FinishSync, Finish, InProgress, TableTyped
  <2> QED
    BY <1>0, <2>1, <2>2 DEF WorkerSound, life
<1>8. ASSUME NEW t \in Threads, ExitWaited(t) PROVE WorkerSound'
  BY <1>8, <1>0 DEF ExitWaited, WorkerSound, InProgress, At, table, local
<1>9. ASSUME NEW t \in Threads, Exit(t) PROVE WorkerSound'
  <2>1. /\ ~over /\ ~shutdown
        /\ UNCHANGED <<state, started, sync, ended, doneSet, worker, notes, late>>
    BY <1>9 DEF Exit, At, table, local
  <2>2. worker \notin {"exit", "exited", "done"}
    BY <1>0, <2>1 DEF WorkerSound
  <2>3. over' /\ shutdown' => ~started \/ sync \/ ended
    BY <1>9, <2>1 DEF Exit
  <2> QED
    BY <1>0, <2>1, <2>2, <2>3 DEF WorkerSound, InProgress
<1>10. ASSUME NEW t \in Threads, Fork(t) PROVE WorkerSound'
  BY <1>10, <1>0 DEF Fork, WorkerSound, Actors
<1>11. ASSUME NEW t \in Threads, NEW c \in Cbs, Return(t, c) PROVE WorkerSound'
  <2>1. UNCHANGED <<life, worker, notes>>
    BY <1>11 DEF Return, local
  <2>2. \A d \in Cbs : InProgress(d)' => InProgress(d) /\ d # c
    BY <1>11, <1>0 DEF Return, InProgress, TableTyped
  <2>3. late' = late \ {c}
    BY <1>11 DEF Return
  <2> QED
    BY <1>0, <2>1, <2>2, <2>3 DEF WorkerSound, life
<1>12. ASSUME NEW t \in Threads, NEW C \in SUBSET Cbs, Cancel(t, C) PROVE WorkerSound'
  <2>1. UNCHANGED <<life, worker, late>> /\ notes'[None] = notes[None]
    BY <1>12, <1>0, AioAssumption DEF Cancel, Finish, CallsTyped, Actors
  <2>2. \A d \in Cbs : InProgress(d)' => InProgress(d)
    BY <1>12, <1>0 DEF Cancel, Finish, InProgress, TableTyped
  <2> QED
    BY <1>0, <2>1, <2>2 DEF WorkerSound, life
<1>13. CASE UNCHANGED vars
  BY <1>13, <1>0 DEF vars, WorkerSound, InProgress, Goto, At, table, life, local
<1> QED
  BY Kinds, <1>1, <1>2, <1>3, <1>4, <1>5, <1>6, <1>7, <1>8, <1>9, <1>10, <1>11, <1>12, <1>13 DEF Quiet, Leaving

\* The invariant holds of every behaviour of the code's sections: the table is
\* well typed, every running request has its performer, the flags follow the
\* worker, and a call waits for what it must not leave behind.
THEOREM AioInvariant == Spec => []IInv
<1>1. IInv /\ [Next]_vars => IInv'
  BY TableStep, LifeStep, CallsStep, PerformedStep, WorkerStep, CallsSoundStep DEF IInv, TypeOK
<1> QED
  BY InitInv, <1>1, PTL DEF Spec

-----------------------------------------------------------------------------
(* Wakeups, on top of the invariant. *)

\* The other threads' waits are kept when a completion triggers those who wait
\* for it.
LEMMA QuietWakeup ==
  ASSUME NoWakeupMissed, NEW t \in Threads, Apart(t), pc'[t] # "wait",
         \A u \in waiters \cap Threads :
           u \in triggered' \/ \A c \in list[u] : InProgress(c) => InProgress(c)',
         worker' = "wait" /\ ~wake' => Queued' = {} /\ ~shutdown'
  PROVE  NoWakeupMissed'
<1> SUFFICES ASSUME NEW u \in Threads, pc'[u] = "wait", u \notin triggered'
             PROVE  u \in waiters' /\ ~Ready(u)'
  BY DEF NoWakeupMissed
<1>1. u # t
  OBVIOUS
<1>2. /\ pc[u] = "wait" /\ list'[u] = list[u] /\ u \notin triggered
      /\ u \in waiters <=> u \in waiters'
  BY <1>1 DEF Apart
<1>3. u \in waiters /\ ~Ready(u)
  BY <1>2 DEF NoWakeupMissed
<1> QED
  BY <1>1, <1>2, <1>3 DEF Ready

\* A look that finds nothing and the registration are one section, so a
\* completion finds the waiter; a submission and a shutdown set the worker's
\* event.
LEMMA WakeupStep == IInv /\ NoWakeupMissed /\ [Next]_vars => NoWakeupMissed'
<1> SUFFICES ASSUME IInv /\ NoWakeupMissed, [Next]_vars PROVE NoWakeupMissed'
  OBVIOUS
<1>0. NoWakeupMissed /\ WorkerSound /\ TableTyped /\ LifeTyped /\ CallsTyped
  BY DEF IInv, TypeOK
<1>1. ASSUME WorkerLook PROVE NoWakeupMissed'
  <2>1. UNCHANGED <<pc, list, waiters, triggered, wake, shutdown>>
    BY <1>1 DEF WorkerLook, life
  <2>2. \A d \in Cbs : InProgress(d) => InProgress(d)'
    BY <1>1, <1>0 DEF WorkerLook, Take, Queued, InProgress, TableTyped
  <2>3. worker' = "wait" => Queued' = {} /\ ~shutdown
    BY <1>1 DEF WorkerLook, Take, Queued
  <2> QED
    BY <1>0, <2>1, <2>2, <2>3 DEF NoWakeupMissed, Ready, CallsTyped
<1>2. ASSUME Quiet PROVE NoWakeupMissed'
  <2>1. UNCHANGED <<state, pc, list, waiters, triggered>> /\ worker' # "wait"
    BY <1>2, QuietStep DEF table
  <2> QED
    BY <1>0, <2>1 DEF NoWakeupMissed, Ready, InProgress
<1>3. ASSUME WorkerFinish PROVE NoWakeupMissed'
  <2>1. worker' = "notify" /\ UNCHANGED <<pc, list, waiters>>
    BY <1>3 DEF WorkerFinish, Finish
  <2>2. triggered' = triggered \cup {u \in waiters : list[u] \cap {job[None]} # {}}
    BY <1>3 DEF WorkerFinish, Finish
  <2>3. \A d \in Cbs : state'[d] = IF d = job[None] THEN "done" ELSE state[d]
    BY <1>3 DEF WorkerFinish, Finish
  <2> QED
    BY <1>0, <2>1, <2>2, <2>3, SMTT(30) DEF NoWakeupMissed, Ready, InProgress, CallsTyped
<1>4. ASSUME NEW t \in Threads, Local(t) PROVE NoWakeupMissed'
  <2>1. /\ Apart(t) /\ UNCHANGED <<state, life, worker>>
        /\ pc'[t] = "wait" => ~Ready(t) /\ t \in waiters' /\ list'[t] = list[t]
    BY <1>4, <1>0, LocalStep
  <2>2. worker' = "wait" /\ ~wake' => Queued' = {} /\ ~shutdown'
    BY <1>0, <2>1 DEF NoWakeupMissed, Queued, life
  <2>3. CASE pc'[t] # "wait"
    BY <1>0, <2>1, <2>2, <2>3, QuietWakeup DEF InProgress
  <2>4. CASE pc'[t] = "wait"
    BY <1>0, <2>1, <2>2, <2>4 DEF NoWakeupMissed, Ready, InProgress, Apart
  <2> QED
    BY <2>3, <2>4
<1>5. ASSUME NEW t \in Threads, NEW c \in Cbs, Enqueue(t, c) PROVE NoWakeupMissed'
  <2>1. Apart(t)
    BY <1>5, <1>0, ApartStep
  <2>2. pc'[t] # "wait" /\ shutdown' = shutdown
    BY <1>5, <1>0 DEF Enqueue, Goto, CallsTyped
  <2>3. \A d \in Cbs : InProgress(d) => InProgress(d)'
    BY <1>5, <1>0 DEF Enqueue, InProgress, TableTyped
  <2>8. \A d \in Cbs : sync' /\ state'[d] = "queued" => state[d] = "queued"
    BY <1>5, <1>0 DEF Enqueue, TableTyped
  <2>4. \A u \in Threads : list[u] \subseteq Cbs
    BY <1>0 DEF CallsTyped
  <2>5. worker' = "wait" => worker = "wait"
    BY <1>5 DEF Enqueue, StartWorker
  <2>6. ~wake' => ~wake /\ sync'
    BY <1>5 DEF Enqueue
  <2>7. worker' = "wait" /\ ~wake' => Queued' = {} /\ ~shutdown'
    BY <1>0, <2>2, <2>5, <2>6, <2>8 DEF NoWakeupMissed, Queued
  <2> QED
    BY <1>0, <2>1, <2>2, <2>3, <2>4, <2>7, QuietWakeup DEF InProgress
<1>6. ASSUME NEW t \in Threads, FinishSync(t) PROVE NoWakeupMissed'
  <2>1. Apart(t)
    BY <1>6, <1>0, ApartStep
  <2>2. pc'[t] # "wait" /\ UNCHANGED <<worker, wake, shutdown>>
    BY <1>6, <1>0 DEF FinishSync, Goto, CallsTyped, life
  <2>3. \A d \in Cbs : state'[d] = IF d \in {job[t]} THEN "done" ELSE state[d]
    BY <1>6 DEF FinishSync, Finish
  <2>4. \A u \in waiters : list[u] \cap {job[t]} # {} => u \in triggered'
    BY <1>6 DEF FinishSync, Finish
  <2>5. \A u \in Threads : list[u] \subseteq Cbs
    BY <1>0 DEF CallsTyped
  <2>6. worker' = "wait" /\ ~wake' => Queued' = {} /\ ~shutdown'
    BY <1>0, <2>2, <2>3 DEF NoWakeupMissed, Queued
  <2>7. \A u \in waiters \cap Threads :
          u \in triggered' \/ \A d \in list[u] : InProgress(d) => InProgress(d)'
    BY <2>3, <2>4, <2>5 DEF InProgress
  <2> QED
    BY <1>0, <2>1, <2>2, <2>6, <2>7, QuietWakeup
<1>7. ASSUME NEW t \in Threads, Leaving(t) PROVE NoWakeupMissed'
  <2>1. Apart(t) /\ UNCHANGED <<state, worker>> /\ pc'[t] # "wait"
    BY <1>7, <1>0, LeavingStep DEF table
  <2>2. worker = "wait" => started /\ ~sync
    BY <1>0 DEF WorkerSound
  <2>3. worker' = "wait" /\ ~wake' => ~wake /\ ~shutdown'
    BY <1>7, <1>0, <2>1, <2>2 DEF Leaving, Exit, ExitWaited, NoWakeupMissed
  <2> QED
    BY <1>0, <2>1, <2>3, QuietWakeup DEF InProgress, Queued, NoWakeupMissed
<1>8. ASSUME NEW t \in Threads, Fork(t) PROVE NoWakeupMissed'
  BY <1>8 DEF Fork, NoWakeupMissed
<1>9. ASSUME NEW t \in Threads, NEW c \in Cbs, Return(t, c) PROVE NoWakeupMissed'
  <2>1. Apart(t)
    BY <1>9, <1>0, ApartStep
  <2>2. UNCHANGED <<worker, wake, shutdown>> /\ pc'[t] # "wait"
    BY <1>9, <1>0 DEF Return, CallsTyped, At, life
  <2>3. \A d \in Cbs : InProgress(d) => InProgress(d)'
    BY <1>9, <1>0 DEF Return, InProgress, TableTyped
  <2>6. \A d \in Cbs : state'[d] = "queued" => state[d] = "queued"
    BY <1>9, <1>0 DEF Return, TableTyped
  <2>4. \A u \in Threads : list[u] \subseteq Cbs
    BY <1>0 DEF CallsTyped
  <2>5. worker' = "wait" /\ ~wake' => Queued' = {} /\ ~shutdown'
    BY <1>0, <2>2, <2>6 DEF NoWakeupMissed, Queued
  <2> QED
    BY <1>0, <2>1, <2>2, <2>3, <2>4, <2>5, QuietWakeup DEF InProgress
<1>10. ASSUME NEW t \in Threads, NEW C \in SUBSET Cbs, Cancel(t, C) PROVE NoWakeupMissed'
  <2>1. Apart(t)
    BY <1>10, <1>0, ApartStep
  <2>2. pc'[t] # "wait" /\ UNCHANGED <<worker, wake, shutdown>>
    BY <1>10, <1>0 DEF Cancel, Goto, CallsTyped, life
  <2>3. \A d \in Cbs : state'[d] = IF d \in {c \in C : state[c] = "queued"} THEN "done" ELSE state[d]
    BY <1>10 DEF Cancel, Finish
  <2>4. \A u \in waiters : list[u] \cap {c \in C : state[c] = "queued"} # {} => u \in triggered'
    BY <1>10 DEF Cancel, Finish
  <2>5. \A u \in Threads : list[u] \subseteq Cbs
    BY <1>0 DEF CallsTyped
  <2>6. worker' = "wait" /\ ~wake' => Queued' = {} /\ ~shutdown'
    BY <1>0, <2>2, <2>3 DEF NoWakeupMissed, Queued
  <2>7. \A u \in waiters \cap Threads :
          u \in triggered' \/ \A d \in list[u] : InProgress(d) => InProgress(d)'
    BY <2>3, <2>4, <2>5 DEF InProgress
  <2> QED
    BY <1>0, <2>1, <2>2, <2>6, <2>7, QuietWakeup
<1>11. CASE UNCHANGED vars
  BY <1>11, <1>0 DEF vars, table, life, local, NoWakeupMissed, Ready, InProgress, Queued
<1> QED
  BY Kinds, <1>1, <1>2, <1>3, <1>4, <1>5, <1>6, <1>7, <1>8, <1>9, <1>10, <1>11

\* aio_suspend() and aio_worker() never sleep through what they wait for.
THEOREM AioNoWakeupMissed == Spec => []NoWakeupMissed
<1>1. Init => NoWakeupMissed
  BY DEF Init, NoWakeupMissed
<1> QED
  BY <1>1, AioInvariant, WakeupStep, PTL DEF Spec

-----------------------------------------------------------------------------
(* Consequences of the invariant. *)

\* aio_worker_atexit() lets the process end only when the worker has performed
\* and announced every request submitted before the shutdown.
THEOREM AioDrained == Spec => []Drained
<1>1. IInv => Drained
  BY DEF IInv, WorkerSound, Drained
<1> QED
  BY AioInvariant, <1>1, PTL

\* lio_listio() with LIO_WAIT does not return success before each request it
\* submitted has been completed.
THEOREM AioListComplete == Spec => []ListComplete
<1>1. IInv => ListComplete
  BY DEF IInv, TypeOK, CallsTyped, CallsSound, CallSound, ListComplete
<1> QED
  BY AioInvariant, <1>1, PTL

-----------------------------------------------------------------------------
(* Groups, on top of the invariant. *)

\* At the start no group is active and nothing is counted.
LEMMA GroupInit == Init => GroupCounted
<1> SUFFICES ASSUME Init, NEW g \in Groups
             PROVE  remaining[g] = Cardinality(Members(g))
                      + Cardinality(Unsubmitted(g)) + Cardinality(Dropping(g))
  BY DEF GroupCounted
<1>1. Members(g) = {} /\ Unsubmitted(g) = {} /\ Dropping(g) = {}
  BY AioAssumption DEF Init, Members, Unsubmitted, Dropping, Fresh, InProgress
<1> QED
  BY <1>1, FS_EmptySet, SMTT(30) DEF Init

\* The three sets a group counts are finite.
LEMMA CountedFinite ==
  ASSUME NEW g \in Groups
  PROVE  /\ IsFiniteSet(Members(g)) /\ Cardinality(Members(g)) \in Nat
         /\ IsFiniteSet(Unsubmitted(g)) /\ Cardinality(Unsubmitted(g)) \in Nat
         /\ IsFiniteSet(Dropping(g)) /\ Cardinality(Dropping(g)) \in Nat
<1>1. Members(g) \in SUBSET Cbs /\ Dropping(g) \in SUBSET Threads
      /\ Unsubmitted(g) \in SUBSET (Threads \X Cbs)
  BY DEF Members, Unsubmitted, Dropping
<1>2. IsFiniteSet(Threads \X Cbs)
  BY AioAssumption, FS_Product
<1>3. IsFiniteSet(Members(g)) /\ IsFiniteSet(Unsubmitted(g)) /\ IsFiniteSet(Dropping(g))
  BY <1>1, <1>2, AioAssumption, FS_Subset
<1> QED
  BY <1>3, FS_CardinalityType

\* finish_locked() takes members in progress from a group, no more than it
\* counts.
LEMMA FinishCounts ==
  ASSUME GroupCounted, NEW g \in Groups,
         NEW C \in SUBSET Cbs, \A c \in C : InProgress(c)
  PROVE  LET D == {c \in C : group[c] = g} IN
         /\ Cardinality(D) \in Nat /\ Cardinality(D) <= remaining[g]
         /\ Cardinality(Members(g) \ C) = Cardinality(Members(g)) - Cardinality(D)
<1> DEFINE D == {c \in C : group[c] = g}
<1>1. D \in SUBSET Members(g) /\ Members(g) \ C = Members(g) \ D
  BY DEF Members
<1> HIDE DEF D
<1>2. IsFiniteSet(D)
  BY <1>1, CountedFinite, FS_Subset
<1>3. Cardinality(D) \in Nat /\ Cardinality(D) <= Cardinality(Members(g))
  BY <1>1, <1>2, CountedFinite, FS_Subset, FS_CardinalityType
<1>4. Members(g) \cap D = D
  BY <1>1
<1>5. Cardinality(Members(g) \ D) = Cardinality(Members(g)) - Cardinality(D)
  <2>1. Cardinality(Members(g) \ D)
          = Cardinality(Members(g)) - Cardinality(Members(g) \cap D)
    BY CountedFinite, FS_Difference
  <2> QED
    BY <2>1, <1>4
<1>6. Cardinality(D) <= remaining[g]
  BY <1>3, CountedFinite, SMTT(30) DEF GroupCounted
<1>7. Cardinality(Members(g) \ C) = Cardinality(Members(g)) - Cardinality(D)
  BY <1>1, <1>5
<1> QED
  BY <1>3, <1>6, <1>7 DEF D

\* A step that leaves a group's count and its three sets alone.
LEMMA SameGroups ==
  ASSUME GroupCounted, UNCHANGED remaining,
         \A g \in Groups : /\ Members(g)' = Members(g)
                           /\ Unsubmitted(g)' = Unsubmitted(g)
                           /\ Dropping(g)' = Dropping(g)
  PROVE  GroupCounted'
BY DEF GroupCounted

\* A thread's step does not touch a group for which it neither has, nor gets,
\* anything to submit or to count off.
LEMMA OtherGroup ==
  ASSUME NEW t \in Threads, Apart(t), NEW g \in Groups,
         \/ /\ mygroup[t] = g => list[t] = {} /\ pc[t] # "drop"
            /\ mygroup'[t] = g => list'[t] = {} /\ pc'[t] # "drop"
         \/ /\ mygroup'[t] = mygroup[t] /\ list'[t] = list[t]
            /\ pc'[t] # "drop" /\ pc[t] # "drop"
  PROVE  Unsubmitted(g)' = Unsubmitted(g) /\ Dropping(g)' = Dropping(g)
<1>1. \A u \in Threads, c \in Cbs :
        mygroup'[u] = g /\ c \in list'[u] <=> mygroup[u] = g /\ c \in list[u]
  BY DEF Apart
<1>2. Unsubmitted(g)' = Unsubmitted(g)
  BY <1>1 DEF Unsubmitted
<1>3. \A u \in Threads : mygroup'[u] = g /\ pc'[u] = "drop" <=> mygroup[u] = g /\ pc[u] = "drop"
  BY DEF Apart
<1>4. Dropping(g)' = Dropping(g)
  BY <1>3 DEF Dropping
<1> QED
  BY <1>2, <1>4

\* finish_locked() lowers each group's count by its members among those that
\* are done.
LEMMA FinishGroups ==
  ASSUME GroupCounted, TableTyped, NEW a, NEW C \in SUBSET Cbs,
         \A c \in C : InProgress(c), Finish(a, C),
         \A g \in Groups : Unsubmitted(g)' = Unsubmitted(g) /\ Dropping(g)' = Dropping(g)
  PROVE  GroupCounted'
<1> SUFFICES ASSUME NEW g \in Groups
             PROVE  remaining'[g] = Cardinality(Members(g)') + Cardinality(Unsubmitted(g))
                                      + Cardinality(Dropping(g))
  BY DEF GroupCounted
<1> DEFINE n == Cardinality({c \in C : group[c] = g})
<1>1. Members(g)' = Members(g) \ C
  BY DEF Finish, Members, InProgress
<1>2. /\ n \in Nat /\ n <= remaining[g]
      /\ Cardinality(Members(g) \ C) = Cardinality(Members(g)) - n
  BY FinishCounts
<1>3. remaining'[g] = IF remaining[g] > 0 THEN remaining[g] - n ELSE 0
  BY DEF Finish
<1> HIDE DEF n
<1>4. remaining[g] = Cardinality(Members(g)) + Cardinality(Unsubmitted(g))
                       + Cardinality(Dropping(g))
  BY DEF GroupCounted
<1>5. /\ Cardinality(Members(g)) \in Nat /\ Cardinality(Unsubmitted(g)) \in Nat
      /\ Cardinality(Dropping(g)) \in Nat
  BY CountedFinite
<1>6. remaining'[g] = remaining[g] - n
  BY <1>2, <1>3, <1>4, <1>5, SMTT(30)
<1>7. remaining'[g] = (Cardinality(Members(g)) - n) + Cardinality(Unsubmitted(g))
                        + Cardinality(Dropping(g))
  BY <1>2, <1>4, <1>5, <1>6, SMTT(30)
<1> QED
  BY <1>1, <1>2, <1>7

\* The sections of a call that waits, which has no group.
Waiting(t) ==
  \/ Collect(t) \/ SuspendLook(t) \/ Linked(t) \/ \E L \in SUBSET Cbs : Suspend(t, L)

\* Every step keeps the groups' counts: a submission moves a member from one
\* set to another, a failed one is counted off later, a completion now.
LEMMA GroupStep == IInv /\ GroupCounted /\ [Next]_vars => GroupCounted'
<1> SUFFICES ASSUME IInv /\ GroupCounted, [Next]_vars PROVE GroupCounted'
  OBVIOUS
<1>0. /\ GroupCounted /\ TableTyped /\ CallsTyped /\ RunningPerformed
      /\ CallsSound
  BY DEF IInv, TypeOK
<1>1. ASSUME WorkerLook PROVE GroupCounted'
  <2>1. UNCHANGED <<remaining, group, list, mygroup, pc>>
    BY <1>1 DEF WorkerLook, Take, table, local
  <2>2. \A c \in Cbs : InProgress(c)' <=> InProgress(c)
    BY <1>1, <1>0 DEF WorkerLook, Take, table, InProgress, TableTyped, Queued
  <2>3. \A g \in Groups : Members(g)' = Members(g)
    BY <2>1, <2>2 DEF Members
  <2> QED
    BY <1>0, <2>1, <2>3, SameGroups DEF Unsubmitted, Dropping
<1>2. ASSUME Quiet \/ UNCHANGED vars PROVE GroupCounted'
  <2>1. UNCHANGED <<remaining, state, group, list, mygroup, pc>>
    BY <1>2, QuietStep DEF vars, table, local
  <2> QED
    BY <1>0, <2>1, SameGroups DEF Members, InProgress, Unsubmitted, Dropping
<1>3. ASSUME WorkerFinish PROVE GroupCounted'
  <2>1. {job[None]} \in SUBSET Cbs /\ \A c \in {job[None]} : InProgress(c)
    BY <1>3, <1>0 DEF WorkerFinish, RunningPerformed, InProgress
  <2>2. Finish(None, {job[None]}) /\ UNCHANGED <<list, mygroup, pc>>
    BY <1>3 DEF WorkerFinish
  <2>3. \A g \in Groups : Unsubmitted(g)' = Unsubmitted(g) /\ Dropping(g)' = Dropping(g)
    BY <2>2 DEF Unsubmitted, Dropping
  <2> QED
    BY <1>0, <2>1, <2>2, <2>3, FinishGroups
<1>4. ASSUME NEW t \in Threads, Notify(t) \/ Leaving(t) PROVE GroupCounted'
  <2>1. Apart(t) /\ UNCHANGED <<table, list, mygroup>>
    BY <1>4, <1>0, LocalStep, LeavingStep DEF Notify, Local, Plain, local
  <2>2. pc[t] # "drop" /\ pc'[t] # "drop"
    BY <1>4, <1>0, LeavingStep DEF Notify, Idle, Goto, At, CallsTyped
  <2>3. \A g \in Groups : Members(g)' = Members(g)
    BY <2>1 DEF Members, InProgress, table
  <2>4. \A g \in Groups : Unsubmitted(g)' = Unsubmitted(g) /\ Dropping(g)' = Dropping(g)
    BY <2>1, <2>2, OtherGroup
  <2> QED
    BY <1>0, <2>1, <2>3, <2>4, SameGroups DEF table
<1>5. ASSUME NEW t \in Threads, NEW c \in Cbs, Enqueue(t, c) PROVE GroupCounted'
  <2>1. Apart(t)
    BY <1>5, <1>0, ApartStep
  <2> SUFFICES ASSUME NEW g \in Groups
               PROVE  remaining'[g] = Cardinality(Members(g)') + Cardinality(Unsubmitted(g)')
                                        + Cardinality(Dropping(g)')
    BY DEF GroupCounted
  <2>2. /\ UNCHANGED <<remaining, mygroup>> /\ c \in list[t] /\ list'[t] = list[t] \ {c}
        /\ pc[t] # "drop" /\ pc'[t] # "drop"
    BY <1>5, <1>0 DEF Enqueue, At, Goto, CallsTyped
  <2>3. \A d \in Cbs \ {c} : group'[d] = group[d] /\ state'[d] = state[d]
    BY <1>5, <1>0 DEF Enqueue, TableTyped
  <2>4. state[c] = "free" /\ state'[c] \in {"running", "queued"} /\ group'[c] = mygroup[t]
    BY <1>5, <1>0 DEF Enqueue, TableTyped
  <2>5. Dropping(g)' = Dropping(g)
    BY <2>1, <2>2 DEF Apart, Dropping
  <2>6. CASE mygroup[t] = g
    <3>1. Members(g)' = Members(g) \cup {c} /\ c \notin Members(g)
      BY <2>3, <2>4, <2>6 DEF Members, InProgress
    <3>2. <<t, c>> \in Unsubmitted(g)
      BY <2>2, <2>6 DEF Unsubmitted
    <3>3. Unsubmitted(g)' = Unsubmitted(g) \ {<<t, c>>}
      BY <2>1, <2>2, <2>6, SMTT(30) DEF Apart, Unsubmitted
    <3>4. Cardinality(Members(g)') = Cardinality(Members(g)) + 1
      BY <3>1, CountedFinite, FS_AddElement
    <3>5. Cardinality(Unsubmitted(g)') = Cardinality(Unsubmitted(g)) - 1
      BY <3>2, <3>3, CountedFinite, FS_RemoveElement
    <3>8. /\ Cardinality(Members(g)) \in Nat /\ Cardinality(Unsubmitted(g)) \in Nat
          /\ Cardinality(Dropping(g)) \in Nat
      BY CountedFinite
    <3>9. remaining[g] = Cardinality(Members(g)) + Cardinality(Unsubmitted(g))
                           + Cardinality(Dropping(g))
      BY <1>0 DEF GroupCounted
    <3> QED
      BY <2>2, <2>5, <3>4, <3>5, <3>8, <3>9, SMTT(30)
  <2>7. CASE mygroup[t] # g
    <3>1. Members(g)' = Members(g)
      BY <2>3, <2>4, <2>7 DEF Members, InProgress
    <3>2. Unsubmitted(g)' = Unsubmitted(g)
      BY <2>1, <2>2, <2>7, OtherGroup
    <3> QED
      BY <1>0, <2>2, <2>5, <3>1, <3>2 DEF GroupCounted
  <2> QED
    BY <2>6, <2>7
<1>6. ASSUME NEW t \in Threads, NEW c \in Cbs, Reject(t, c) PROVE GroupCounted'
  <2>1. Apart(t)
    BY <1>6, <1>0, LocalStep DEF Local, Plain
  <2> SUFFICES ASSUME NEW g \in Groups
               PROVE  remaining'[g] = Cardinality(Members(g)') + Cardinality(Unsubmitted(g)')
                                        + Cardinality(Dropping(g)')
    BY DEF GroupCounted
  <2>2. /\ UNCHANGED <<state, group, remaining, mygroup>>
        /\ c \in list[t] /\ list'[t] = list[t] \ {c}
        /\ pc[t] # "drop" /\ pc'[t] = IF mygroup[t] = None THEN "list" ELSE "drop"
    BY <1>6, <1>0 DEF Reject, At, Goto, CallsTyped, table
  <2>3. Members(g)' = Members(g)
    BY <2>2 DEF Members, InProgress
  <2>4. CASE mygroup[t] = g
    <3>1. g # None
      BY AioAssumption
    <3>2. Dropping(g)' = Dropping(g) \cup {t} /\ t \notin Dropping(g)
      BY <2>1, <2>2, <2>4, <3>1 DEF Apart, Dropping
    <3>3. <<t, c>> \in Unsubmitted(g)
      BY <2>2, <2>4 DEF Unsubmitted
    <3>4. Unsubmitted(g)' = Unsubmitted(g) \ {<<t, c>>}
      BY <2>1, <2>2, <2>4, SMTT(30) DEF Apart, Unsubmitted
    <3>5. Cardinality(Dropping(g)') = Cardinality(Dropping(g)) + 1
      BY <3>2, CountedFinite, FS_AddElement
    <3>6. Cardinality(Unsubmitted(g)') = Cardinality(Unsubmitted(g)) - 1
      BY <3>3, <3>4, CountedFinite, FS_RemoveElement
    <3>8. /\ Cardinality(Members(g)) \in Nat /\ Cardinality(Unsubmitted(g)) \in Nat
          /\ Cardinality(Dropping(g)) \in Nat
      BY CountedFinite
    <3>9. remaining[g] = Cardinality(Members(g)) + Cardinality(Unsubmitted(g))
                           + Cardinality(Dropping(g))
      BY <1>0 DEF GroupCounted
    <3> QED
      BY <2>2, <2>3, <3>5, <3>6, <3>8, <3>9, SMTT(30)
  <2>5. CASE mygroup[t] # g
    <3>1. Unsubmitted(g)' = Unsubmitted(g) /\ Dropping(g)' = Dropping(g)
      BY <2>1, <2>2, <2>5, OtherGroup
    <3> QED
      BY <1>0, <2>2, <2>3, <3>1 DEF GroupCounted
  <2> QED
    BY <2>4, <2>5
<1>7. ASSUME NEW t \in Threads, FinishSync(t) PROVE GroupCounted'
  <2>1. Apart(t)
    BY <1>7, <1>0, ApartStep
  <2>2. {job[t]} \in SUBSET Cbs /\ \A d \in {job[t]} : InProgress(d)
    BY <1>7, <1>0, SMTT(30) DEF FinishSync, At, RunningPerformed, InProgress
  <2>3. Finish(t, {job[t]}) /\ UNCHANGED <<list, mygroup>>
    BY <1>7 DEF FinishSync
  <2>4. pc[t] # "drop" /\ pc'[t] # "drop"
    BY <1>7, <1>0 DEF FinishSync, At, Goto, CallsTyped
  <2>5. \A g \in Groups : Unsubmitted(g)' = Unsubmitted(g) /\ Dropping(g)' = Dropping(g)
    BY <2>1, <2>3, <2>4, OtherGroup
  <2> QED
    BY <1>0, <2>2, <2>3, <2>5, FinishGroups
<1>8. ASSUME NEW t \in Threads, Drop(t) PROVE GroupCounted'
  <2>1. Apart(t)
    BY <1>8, <1>0, LocalStep DEF Local, Counting
  <2> SUFFICES ASSUME NEW g \in Groups
               PROVE  remaining'[g] = Cardinality(Members(g)') + Cardinality(Unsubmitted(g)')
                                        + Cardinality(Dropping(g)')
    BY DEF GroupCounted
  <2>2. /\ UNCHANGED <<state, group, mygroup, list>>
        /\ pc[t] = "drop" /\ pc'[t] = "notify"
    BY <1>8, <1>0 DEF Drop, At, Goto, CallsTyped
  <2>3. Members(g)' = Members(g) /\ Unsubmitted(g)' = Unsubmitted(g)
    BY <2>2 DEF Members, InProgress, Unsubmitted
  <2>4. remaining'[g] = IF mygroup[t] = g THEN remaining[g] - 1 ELSE remaining[g]
    BY <1>8, <1>0 DEF Drop, TableTyped
  <2>5. CASE mygroup[t] = g
    <3>1. Dropping(g)' = Dropping(g) \ {t} /\ t \in Dropping(g)
      BY <2>1, <2>2, <2>5 DEF Apart, Dropping
    <3>2. Cardinality(Dropping(g)') = Cardinality(Dropping(g)) - 1
      BY <3>1, CountedFinite, FS_RemoveElement
    <3>8. /\ Cardinality(Members(g)) \in Nat /\ Cardinality(Unsubmitted(g)) \in Nat
          /\ Cardinality(Dropping(g)) \in Nat
      BY CountedFinite
    <3>9. remaining[g] = Cardinality(Members(g)) + Cardinality(Unsubmitted(g))
                           + Cardinality(Dropping(g))
      BY <1>0 DEF GroupCounted
    <3> QED
      BY <2>3, <2>4, <2>5, <3>2, <3>8, <3>9, SMTT(30)
  <2>6. CASE mygroup[t] # g
    <3>1. Dropping(g)' = Dropping(g)
      BY <2>1, <2>2, <2>6 DEF Apart, Dropping
    <3> QED
      BY <1>0, <2>3, <2>4, <2>6, <3>1 DEF GroupCounted
  <2> QED
    BY <2>5, <2>6
<1>9. ASSUME NEW t \in Threads, Submitted(t) PROVE GroupCounted'
  <2>1. Apart(t)
    BY <1>9, <1>0, LocalStep DEF Local, Plain
  <2>2. /\ list[t] = {} /\ list'[t] = {}
        /\ pc[t] # "drop" /\ pc'[t] # "drop"
    BY <1>9, <1>0 DEF Submitted, Idle, CallsTyped, Goto, At
  <2>3. UNCHANGED remaining
    BY <1>9 DEF Submitted, table
  <2>8. \A g \in Groups : Members(g)' = Members(g)
    BY <1>9 DEF Submitted, Members, InProgress, table
  <2>9. \A g \in Groups : Unsubmitted(g)' = Unsubmitted(g) /\ Dropping(g)' = Dropping(g)
    BY <2>1, <2>2, OtherGroup
  <2> QED
    BY <1>0, <2>3, <2>8, <2>9, SameGroups
<1>10. ASSUME NEW t \in Threads, Waiting(t) PROVE GroupCounted'
  <2>1. Apart(t) /\ UNCHANGED state
    BY <1>10, <1>0, LocalStep DEF Waiting, Local, Plain
  <2>2. UNCHANGED <<group, remaining, mygroup>> /\ mygroup[t] \notin Groups
    BY <1>10, <1>0, AioAssumption
       DEF Waiting, Linked, Collect, SuspendLook, SuspendLink, SuspendWake, SuspendLate,
           Suspend, At, table, CallsSound, CallSound
  <2>3. \A g \in Groups : Members(g)' = Members(g)
    BY <2>1, <2>2 DEF Members, InProgress
  <2>4. \A g \in Groups : Unsubmitted(g)' = Unsubmitted(g) /\ Dropping(g)' = Dropping(g)
    BY <2>1, <2>2, OtherGroup
  <2> QED
    BY <1>0, <2>2, <2>3, <2>4, SameGroups
<1>11. ASSUME NEW t \in Threads, Fork(t) PROVE GroupCounted'
  <2> SUFFICES ASSUME NEW g \in Groups
               PROVE  remaining'[g] = Cardinality(Members(g)') + Cardinality(Unsubmitted(g)')
                                        + Cardinality(Dropping(g)')
    BY DEF GroupCounted
  <2>1. mygroup' = [u \in Threads |-> None] /\ group' = [d \in Cbs |-> None]
    BY <1>11 DEF Fork
  <2>2. Members(g)' = {} /\ Unsubmitted(g)' = {} /\ Dropping(g)' = {}
    BY <2>1, AioAssumption DEF Members, Unsubmitted, Dropping
  <2>3. remaining'[g] = 0
    BY <1>11 DEF Fork
  <2> QED
    BY <2>2, <2>3, FS_EmptySet, SMTT(30)
<1>12. ASSUME NEW t \in Threads, NEW c \in Cbs, Return(t, c) PROVE GroupCounted'
  <2>1. Apart(t)
    BY <1>12, <1>0, ApartStep
  <2>2. UNCHANGED <<list, mygroup>> /\ pc[t] # "drop" /\ pc'[t] # "drop"
    BY <1>12 DEF Return, At, local
  <2>3. UNCHANGED remaining
    BY <1>12 DEF Return
  <2>4. \A d \in Cbs \ {c} : group'[d] = group[d] /\ state'[d] = state[d]
    BY <1>12, <1>0 DEF Return, TableTyped
  <2>5. state[c] = "done" /\ state'[c] = "free"
    BY <1>12, <1>0 DEF Return, TableTyped
  <2>8. \A g \in Groups : Members(g)' = Members(g)
    BY <2>4, <2>5 DEF Members, InProgress
  <2>9. \A g \in Groups : Unsubmitted(g)' = Unsubmitted(g) /\ Dropping(g)' = Dropping(g)
    BY <2>1, <2>2, OtherGroup
  <2> QED
    BY <1>0, <2>3, <2>8, <2>9, SameGroups
<1>13. ASSUME NEW t \in Threads, NEW C \in SUBSET Cbs, Cancel(t, C) PROVE GroupCounted'
  <2>1. Apart(t)
    BY <1>13, <1>0, ApartStep
  <2>2. {c \in C : state[c] = "queued"} \in SUBSET Cbs /\ \A d \in {c \in C : state[c] = "queued"} : InProgress(d)
    BY <1>13, <1>0 DEF Cancel, At, RunningPerformed, InProgress
  <2>3. Finish(t, {c \in C : state[c] = "queued"}) /\ UNCHANGED <<list, mygroup>>
    BY <1>13 DEF Cancel
  <2>4. pc[t] # "drop" /\ pc'[t] # "drop"
    BY <1>13, <1>0 DEF Cancel, At, Goto, CallsTyped
  <2>5. \A g \in Groups : Unsubmitted(g)' = Unsubmitted(g) /\ Dropping(g)' = Dropping(g)
    BY <2>1, <2>3, <2>4, OtherGroup
  <2> QED
    BY <1>0, <2>2, <2>3, <2>5, FinishGroups
<1>14. ASSUME NEW t \in Threads, NEW L \in SUBSET Cbs,
            NEW how \in {"one", "nowait", "wait"}, Submit(t, how, L) PROVE GroupCounted'
  <2>1. Apart(t)
    BY <1>14, <1>0, LocalStep DEF Local, Counting
  <2>2. /\ UNCHANGED <<state, group>> /\ list'[t] = L
        /\ pc[t] # "drop" /\ pc'[t] = "list"
    BY <1>14, <1>0 DEF Submit, At, Goto, CallsTyped
  <2>3. mygroup[t] \notin Groups
    BY <1>14, <1>0, AioAssumption DEF Submit, At, CallsSound, CallSound
  <2>4. \A g \in Groups : Members(g)' = Members(g)
    BY <2>2 DEF Members, InProgress
  <2>5. CASE how # "nowait"
    <3>1. UNCHANGED <<remaining, mygroup>>
      BY <1>14, <2>5 DEF Submit
    <3>2. \A g \in Groups : Unsubmitted(g)' = Unsubmitted(g) /\ Dropping(g)' = Dropping(g)
      BY <2>1, <2>3, <3>1, OtherGroup
    <3> QED
      BY <1>0, <2>4, <3>1, <3>2, SameGroups
  <2>6. CASE how = "nowait"
    <3>1. PICK h \in Groups : /\ remaining[h] = 0
                             /\ remaining' = [remaining EXCEPT ![h] = Cardinality(L)]
                             /\ mygroup' = [mygroup EXCEPT ![t] = h]
      BY <1>14, <2>6 DEF Submit
    <3>2. mygroup'[t] = h
      BY <1>0, <3>1 DEF CallsTyped
    <3> SUFFICES ASSUME NEW g \in Groups
                 PROVE  remaining'[g] = Cardinality(Members(g)') + Cardinality(Unsubmitted(g)')
                                          + Cardinality(Dropping(g)')
      BY DEF GroupCounted
    <3>8. /\ Cardinality(Members(g)) \in Nat /\ Cardinality(Unsubmitted(g)) \in Nat
          /\ Cardinality(Dropping(g)) \in Nat
      BY CountedFinite
    <3>9. remaining[g] = Cardinality(Members(g)) + Cardinality(Unsubmitted(g))
                           + Cardinality(Dropping(g))
      BY <1>0 DEF GroupCounted
    <3>3. CASE g = h
      <4>1. /\ Cardinality(Members(g)) = 0 /\ Cardinality(Unsubmitted(g)) = 0
            /\ Cardinality(Dropping(g)) = 0
        BY <3>1, <3>3, <3>8, <3>9, SMTT(30)
      <4>2. Unsubmitted(g) = {} /\ Dropping(g) = {}
        BY <4>1, CountedFinite, FS_EmptySet
      <4>3. Dropping(g)' = {}
        BY <2>1, <2>2, <4>2, SMTT(30) DEF Apart, Dropping
      <4>4. Unsubmitted(g)' = {t} \X L
        BY <2>1, <2>2, <3>2, <3>3, <4>2, SMTT(30) DEF Apart, Unsubmitted
      <4>5. IsFiniteSet(L) /\ Cardinality(L) \in Nat
        BY AioAssumption, FS_Subset, FS_CardinalityType
      <4>6. IsFiniteSet({t}) /\ Cardinality({t}) = 1
        BY FS_Singleton
      <4>7. Cardinality({t} \X L) = Cardinality({t}) * Cardinality(L)
        BY <4>5, <4>6, FS_Product
      <4>8. Cardinality({t} \X L) = Cardinality(L)
        BY <4>5, <4>6, <4>7, SMTT(30)
      <4>9. remaining'[g] = Cardinality(L)
        BY <1>0, <3>1, <3>3 DEF TableTyped
      <4>10. Cardinality(Dropping(g)') = 0 /\ Cardinality(Members(g)') = 0
        BY <2>4, <4>1, <4>3, FS_EmptySet
      <4>11. Cardinality(Unsubmitted(g)') = Cardinality(L)
        BY <4>4, <4>8
      <4> QED
        BY <4>5, <4>9, <4>10, <4>11, SMTT(30)
    <3>4. CASE g # h
      <4>1. Unsubmitted(g)' = Unsubmitted(g) /\ Dropping(g)' = Dropping(g)
        BY <2>1, <2>3, <3>2, <3>4, OtherGroup
      <4>2. remaining'[g] = remaining[g]
        BY <1>0, <3>1, <3>4 DEF TableTyped
      <4> QED
        BY <2>4, <3>9, <4>1, <4>2
    <3> QED
      BY <3>3, <3>4
  <2> QED
    BY <2>5, <2>6
<1> QED
  BY Kinds, <1>1, <1>2, <1>3, <1>4, <1>5, <1>6, <1>7, <1>8, <1>9, <1>10, <1>11, <1>12, <1>13, <1>14
     DEF Local, Plain, Counting, Waiting

\* lio_listio() with LIO_NOWAIT: the remaining of a group is always the number
\* of its members in progress, to submit and to drop, whatever finish_locked(),
\* group_drop(), aio_cancel() and a fork interleave.
THEOREM AioGroupCounted == Spec => []GroupCounted
BY GroupInit, AioInvariant, GroupStep, PTL DEF Spec
=============================================================================

------------------------------ MODULE OnceProofs ------------------------------
(***************************************************************************)
(* pthread_once() for any finite set of threads and any set of controls:   *)
(* one initializer per control, and no waiter that a completion or a       *)
(* cancellation leaves asleep.                                             *)
(***************************************************************************)
EXTENDS Once, FiniteSetTheorems, TLAPS

\* The prover of the leaves that name no other.
USE ZenonT(30)

\* Init establishes the invariant: no call has begun.
LEMMA InitInv == Init => IInv
  BY SMTT(30) DEF Init, IInv, TypeOK, ClaimHeld, SleepersLinked, NoSleeperLeft

\* The claim on a control passes from the thread that takes it to nobody, by
\* completion or by cancellation, under once_lock.
LEMMA ClaimStep == IInv /\ [Next]_vars => ClaimHeld'
<1> SUFFICES ASSUME IInv, [Next]_vars PROVE ClaimHeld'
  OBVIOUS
<1> USE DEF IInv, TypeOK, ClaimHeld, Goto
<1>1. ASSUME NEW t \in Threads, SeeDone(t) PROVE ClaimHeld'
  BY <1>1, SMTT(30) DEF SeeDone
<1>2. ASSUME NEW t \in Threads, Claim(t) PROVE ClaimHeld'
  BY <1>2, SMTT(30) DEF Claim
<1>3. ASSUME NEW t \in Threads, Enqueue(t) PROVE ClaimHeld'
  BY <1>3, SMTT(30) DEF Enqueue
<1>4. ASSUME NEW t \in Threads, Create(t) PROVE ClaimHeld'
  BY <1>4, SMTT(30) DEF Create
<1>5. ASSUME NEW t \in Threads, CreateFails(t) PROVE ClaimHeld'
  BY <1>5, SMTT(30) DEF CreateFails
<1>6. ASSUME NEW t \in Threads, Initialized(t) PROVE ClaimHeld'
  BY <1>6, SMTT(30) DEF Initialized
<1>7. ASSUME NEW t \in Threads, Canceled(t) PROVE ClaimHeld'
  BY <1>7, SMTT(30) DEF Canceled
<1>8. ASSUME NEW t \in Threads, WaitOk(t) PROVE ClaimHeld'
  BY <1>8, SMTT(30) DEF WaitOk
<1>9. ASSUME NEW t \in Threads, WaitError(t) PROVE ClaimHeld'
  BY <1>9, SMTT(30) DEF WaitError
<1>10. ASSUME NEW t \in Threads, Unlink(t) PROVE ClaimHeld'
  BY <1>10, SMTT(30) DEF Unlink
<1>11. ASSUME NEW t \in Threads, NEW c \in Controls, Call(t, c)
       PROVE  ClaimHeld'
  BY <1>11, SMTT(30) DEF Call
<1>12. CASE UNCHANGED vars
  BY <1>12 DEF vars
<1>. QED
  BY <1>1, <1>2, <1>3, <1>4, <1>5, <1>6, <1>7, <1>8, <1>9, <1>10, <1>11,
     <1>12 DEF Next, Step

\* The other conjuncts: a thread gives up its event only when it is on no
\* list, and completion and cancellation wake every waiter of their control.
LEMMA WaiterStep ==
  IInv /\ [Next]_vars => (TypeOK /\ SleepersLinked /\ NoSleeperLeft)'
<1> DEFINE Kept == TypeOK /\ SleepersLinked /\ NoSleeperLeft
<1> SUFFICES ASSUME IInv, [Next]_vars PROVE Kept'
  OBVIOUS
<1> USE DEF IInv, TypeOK, ClaimHeld, SleepersLinked, NoSleeperLeft, Goto,
            Waiters
<1>1. ASSUME NEW t \in Threads, SeeDone(t) PROVE Kept'
  BY <1>1, SMTT(30) DEF SeeDone
<1>2. ASSUME NEW t \in Threads, Claim(t) PROVE Kept'
  BY <1>2, SMTT(30) DEF Claim
<1>3. ASSUME NEW t \in Threads, Enqueue(t) PROVE Kept'
  BY <1>3, SMTT(30) DEF Enqueue
<1>4. ASSUME NEW t \in Threads, Create(t) PROVE Kept'
  BY <1>4, SMTT(30) DEF Create
<1>5. ASSUME NEW t \in Threads, CreateFails(t) PROVE Kept'
  BY <1>5, SMTT(30) DEF CreateFails
<1>6. ASSUME NEW t \in Threads, Initialized(t) PROVE Kept'
  BY <1>6, SMTT(30) DEF Initialized
<1>7. ASSUME NEW t \in Threads, Canceled(t) PROVE Kept'
  BY <1>7, SMTT(30) DEF Canceled
<1>8. ASSUME NEW t \in Threads, WaitOk(t) PROVE Kept'
  BY <1>8, SMTT(30) DEF WaitOk
<1>9. ASSUME NEW t \in Threads, WaitError(t) PROVE Kept'
  BY <1>9, SMTT(30) DEF WaitError
<1>10. ASSUME NEW t \in Threads, Unlink(t) PROVE Kept'
  BY <1>10, SMTT(30) DEF Unlink
<1>11. ASSUME NEW t \in Threads, NEW c \in Controls, Call(t, c) PROVE Kept'
  BY <1>11, SMTT(30) DEF Call
<1>12. CASE UNCHANGED vars
  BY <1>12 DEF vars
<1>. QED
  BY <1>1, <1>2, <1>3, <1>4, <1>5, <1>6, <1>7, <1>8, <1>9, <1>10, <1>11,
     <1>12 DEF Next, Step

\* The invariant holds in every reachable state of pthread_once().
THEOREM OnceInvariant == Spec => []IInv
<1>1. IInv /\ [Next]_vars => IInv'
  BY ClaimStep, WaiterStep DEF IInv
<1>. QED
  BY InitInv, <1>1, PTL DEF Spec

\* A control is in progress exactly while one thread is inside initialize()
\* for it, whatever is canceled in between.
THEOREM OnceOneInitializer == Spec => []OneInitializer
<1>1. IInv => OneInitializer
  <2> SUFFICES ASSUME IInv, NEW c \in Controls
               PROVE  Cardinality({t \in Threads : pc[t] = "init" /\ arg[t] = c})
                        = (IF control[c] = 1 THEN 1 ELSE 0)
    BY DEF OneInitializer
  <2> DEFINE S == {t \in Threads : pc[t] = "init" /\ arg[t] = c}
  <2>1. CASE control[c] = 1
    <3>1. PICK t \in Threads : pc[t] = "init" /\ arg[t] = c
      BY <2>1 DEF IInv, ClaimHeld
    <3>2. S = {t}
      BY <3>1 DEF IInv, ClaimHeld
    <3>. QED
      BY <2>1, <3>2, FS_Singleton
  <2>2. CASE control[c] # 1
    <3>1. S = {}
      BY <2>2, SMTT(30) DEF IInv, ClaimHeld
    <3>. QED
      BY <2>2, <3>1, FS_EmptySet
  <2>. QED
    BY <2>1, <2>2
<1>. QED
  BY OnceInvariant, <1>1, PTL

\* Nobody sleeps, with its event clear, for a control that is not in progress.
THEOREM OnceNoSleeperLeft == Spec => []NoSleeperLeft
<1>1. IInv => NoSleeperLeft
  BY DEF IInv
<1>. QED
  BY OnceInvariant, <1>1, PTL
=============================================================================

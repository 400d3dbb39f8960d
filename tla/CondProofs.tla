------------------------------ MODULE CondProofs ------------------------------
(***************************************************************************)
(* The condition variable for any set of threads: no signal is lost        *)
(* between the release of the mutex and the sleep, and none is reported    *)
(* twice; and the program it is for leaves no consumer behind.             *)
(***************************************************************************)
EXTENDS CondClient, TLAPS

\* The prover of the leaves that name no other.
USE ZenonT(30)

\* Init establishes the invariant: no thread waits.
LEMMA InitInv == Init => IInv
  BY CondAssumption
     DEF Init, Mutex!Init, IInv, TypeOK, OwnedOnce, ReachableOrPosted

\* Every step keeps the types, and the mutex is given back as it was taken.
LEMMA TypeStep == IInv /\ [Next]_vars => TypeOK' /\ OwnedOnce'
<1> DEFINE Typed == TypeOK /\ OwnedOnce
<1> SUFFICES ASSUME IInv, [Next]_vars PROVE Typed'
  OBVIOUS
<1>0. TypeOK /\ OwnedOnce
  BY DEF IInv
<1> USE <1>0, CondAssumption
    DEF TypeOK, OwnedOnce, condVars, callVars, mutexVars
<1>1. ASSUME NEW t \in Threads, Lock(t) PROVE Typed'
  BY <1>1 DEF Lock, Mutex!Lock
<1>2. ASSUME NEW t \in Threads, Unlock(t) PROVE Typed'
  BY <1>2 DEF Unlock, Mutex!Unlock
<1>3. ASSUME NEW t \in Threads, Release(t) PROVE Typed'
  BY <1>3 DEF Release, Mutex!Unlock
<1>4. ASSUME NEW t \in Threads, WaitOk(t) PROVE Typed'
  BY <1>4 DEF WaitOk, Leave
<1>5. ASSUME NEW t \in Threads, Timeout(t) PROVE Typed'
  BY <1>5 DEF Timeout, Unlink, Leave
<1>6. ASSUME NEW t \in Threads, WaitError(t) PROVE Typed'
  BY <1>6 DEF WaitError, Unlink, Leave
<1>7. ASSUME NEW t \in Threads, Cancel(t) PROVE Typed'
  BY <1>7 DEF Cancel, Unlink, Leave
<1>8. ASSUME NEW t \in Threads, Relock(t) PROVE Typed'
  BY <1>8 DEF Relock, Mutex!Lock
<1>9. ASSUME NEW t \in Threads, ExitUnlock(t) PROVE Typed'
  BY <1>9 DEF ExitUnlock, Mutex!Unlock
<1>10. ASSUME NEW t \in Threads, Signal(t) PROVE Typed'
  BY <1>10, SMTT(30) DEF Signal, IsHead, Unlink
<1>11. ASSUME NEW t \in Threads, Broadcast(t) PROVE Typed'
  BY <1>11 DEF Broadcast
<1>12. ASSUME NEW t \in Threads, Destroy(t) PROVE Typed'
  BY <1>12 DEF Destroy
<1>13. ASSUME NEW t \in Threads, NEW d \in BOOLEAN, Link(t, d)
       PROVE  Typed'
  <2>1. t \notin linked
    BY <1>13 DEF Link, IInv, ReachableOrPosted
  <2>. QED
    BY <1>13, <2>1 DEF Link
<1>14. CASE UNCHANGED vars
  BY <1>14 DEF vars
<1>. QED
  BY <1>1, <1>2, <1>3, <1>4, <1>5, <1>6, <1>7, <1>8, <1>9, <1>10, <1>11,
     <1>12, <1>13, <1>14, SMTT(30) DEF Next

\* A waiter leaves the list when it is posted, or when its call ends without
\* a signal; it enters the list before its mutex is given back.
LEMMA ReachableStep == IInv /\ [Next]_vars => ReachableOrPosted'
<1> SUFFICES ASSUME IInv, [Next]_vars PROVE ReachableOrPosted'
  OBVIOUS
<1>0. TypeOK /\ ReachableOrPosted
  BY DEF IInv
<1> USE <1>0 DEF TypeOK, ReachableOrPosted, condVars, callVars, mutexVars
<1>1. ASSUME NEW t \in Threads, Lock(t) PROVE ReachableOrPosted'
  BY <1>1 DEF Lock, Mutex!Lock
<1>2. ASSUME NEW t \in Threads, Unlock(t) PROVE ReachableOrPosted'
  BY <1>2 DEF Unlock, Mutex!Unlock
<1>3. ASSUME NEW t \in Threads, Release(t) PROVE ReachableOrPosted'
  BY <1>3 DEF Release, Mutex!Unlock
<1>4. ASSUME NEW t \in Threads, WaitOk(t) PROVE ReachableOrPosted'
  BY <1>4 DEF WaitOk, Leave
<1>5. ASSUME NEW t \in Threads, Timeout(t) PROVE ReachableOrPosted'
  BY <1>5 DEF Timeout, Unlink, Leave
<1>6. ASSUME NEW t \in Threads, WaitError(t) PROVE ReachableOrPosted'
  BY <1>6 DEF WaitError, Unlink, Leave
<1>7. ASSUME NEW t \in Threads, Cancel(t) PROVE ReachableOrPosted'
  BY <1>7 DEF Cancel, Unlink, Leave
<1>8. ASSUME NEW t \in Threads, Relock(t) PROVE ReachableOrPosted'
  BY <1>8 DEF Relock, Mutex!Lock
<1>9. ASSUME NEW t \in Threads, ExitUnlock(t) PROVE ReachableOrPosted'
  BY <1>9 DEF ExitUnlock, Mutex!Unlock
<1>10. ASSUME NEW t \in Threads, Signal(t) PROVE ReachableOrPosted'
  BY <1>10 DEF Signal, IsHead, Unlink
<1>11. ASSUME NEW t \in Threads, Broadcast(t) PROVE ReachableOrPosted'
  BY <1>11 DEF Broadcast
<1>12. ASSUME NEW t \in Threads, Destroy(t) PROVE ReachableOrPosted'
  BY <1>12 DEF Destroy
<1>13. ASSUME NEW t \in Threads, NEW d \in BOOLEAN, Link(t, d)
       PROVE  ReachableOrPosted'
  BY <1>13 DEF Link
<1>14. CASE UNCHANGED vars
  BY <1>14 DEF vars
<1>. QED
  BY <1>1, <1>2, <1>3, <1>4, <1>5, <1>6, <1>7, <1>8, <1>9, <1>10, <1>11,
     <1>12, <1>13, <1>14 DEF Next

\* The invariant holds in every reachable state of the condition variable.
THEOREM CondInvariant == Spec => []IInv
<1>1. IInv /\ [Next]_vars => IInv'
  BY TypeStep, ReachableStep DEF IInv
<1>. QED
  BY InitInv, <1>1, PTL DEF Spec

\* Release-and-wait is atomic for every signaller of the condition variable.
THEOREM CondReachableOrPosted == Spec => []ReachableOrPosted
<1>1. IInv => ReachableOrPosted
  BY DEF IInv
<1>. QED
  BY CondInvariant, <1>1, PTL

\* Whoever wins the race for a linked waiter, the call reports it: the signal
\* that unlinked the waiter, or the deadline, the failure or the cancellation
\* that came first.
THEOREM CondSignalReported == Spec => SignalReported
<1> DEFINE Reported ==
      /\ \A t \in linked \ linked' :
           t \in posted' \/ result'[t] \in {"timedout", "error", "canceled"}
      /\ \A t \in Threads :
           (result[t] = "none" /\ result'[t] = "ok") => t \in posted
      /\ \A t \in Threads :
           (result[t] = "none" /\ result'[t] = "timedout") => t \notin posted
<1>1. IInv /\ [Next]_vars => [Reported]_vars
  <2> SUFFICES ASSUME IInv, Next PROVE Reported
    OBVIOUS
  <2>0. TypeOK /\ ReachableOrPosted
    BY DEF IInv
  <2> USE <2>0 DEF TypeOK, ReachableOrPosted, condVars, callVars, mutexVars
  <2>1. ASSUME NEW t \in Threads, Lock(t) PROVE Reported
    BY <2>1 DEF Lock, Mutex!Lock
  <2>2. ASSUME NEW t \in Threads, Unlock(t) PROVE Reported
    BY <2>2 DEF Unlock, Mutex!Unlock
  <2>3. ASSUME NEW t \in Threads, Release(t) PROVE Reported
    BY <2>3 DEF Release, Mutex!Unlock
  <2>4. ASSUME NEW t \in Threads, WaitOk(t) PROVE Reported
    BY <2>4 DEF WaitOk, Leave
  <2>5. ASSUME NEW t \in Threads, Timeout(t) PROVE Reported
    BY <2>5, SMTT(30) DEF Timeout, Unlink, Leave
  <2>6. ASSUME NEW t \in Threads, WaitError(t) PROVE Reported
    BY <2>6 DEF WaitError, Unlink, Leave
  <2>7. ASSUME NEW t \in Threads, Cancel(t) PROVE Reported
    BY <2>7 DEF Cancel, Unlink, Leave
  <2>8. ASSUME NEW t \in Threads, Relock(t) PROVE Reported
    BY <2>8 DEF Relock, Mutex!Lock
  <2>9. ASSUME NEW t \in Threads, ExitUnlock(t) PROVE Reported
    BY <2>9 DEF ExitUnlock, Mutex!Unlock
  <2>10. ASSUME NEW t \in Threads, Signal(t) PROVE Reported
    BY <2>10 DEF Signal, IsHead, Unlink
  <2>11. ASSUME NEW t \in Threads, Broadcast(t) PROVE Reported
    BY <2>11 DEF Broadcast
  <2>12. ASSUME NEW t \in Threads, Destroy(t) PROVE Reported
    BY <2>12 DEF Destroy
  <2>13. ASSUME NEW t \in Threads, NEW d \in BOOLEAN, Link(t, d)
         PROVE  Reported
    BY <2>13 DEF Link
  <2>. QED
    BY <2>1, <2>2, <2>3, <2>4, <2>5, <2>6, <2>7, <2>8, <2>9, <2>10, <2>11,
       <2>12, <2>13 DEF Next
<1>. QED
  BY CondInvariant, <1>1, PTL DEF Spec, SignalReported

-----------------------------------------------------------------------------
(* The producer and its consumers.                                         *)

\* Every step of the program is a step of the condition variable or none.
LEMMA ClientStep == [ClientNext]_clientVars => [Next]_vars
<1> SUFFICES ASSUME [ClientNext]_clientVars PROVE [Next]_vars
  OBVIOUS
<1> USE ProducerAssumption DEF Consumers
<1>1. ASSUME NEW t \in Threads, ClientLock(t) PROVE [Next]_vars
  BY <1>1 DEF ClientLock, Next
<1>2. ASSUME NEW t \in Consumers, NEW d \in BOOLEAN, ConsumerWaits(t, d)
      PROVE  [Next]_vars
  BY <1>2 DEF ConsumerWaits, Next
<1>3. ASSUME NEW t \in Consumers, InWait(t) PROVE [Next]_vars
  BY <1>3 DEF InWait, Next
<1>4. ASSUME NEW t \in Consumers, ConsumerDone(t) PROVE [Next]_vars
  BY <1>4 DEF ConsumerDone, Next
<1>5. CASE ProducerSignals
  BY <1>5 DEF ProducerSignals, Next
<1>6. CASE ProducerSets
  BY <1>6 DEF ProducerSets, Next
<1>7. CASE ProducerBroadcasts
  BY <1>7 DEF ProducerBroadcasts, Next
<1>8. CASE ProducerDestroys
  BY <1>8 DEF ProducerDestroys, Next
<1>9. CASE UNCHANGED clientVars
  BY <1>9 DEF clientVars, vars
<1>. QED
  BY <1>1, <1>2, <1>3, <1>4, <1>5, <1>6, <1>7, <1>8, <1>9 DEF ClientNext

\* The program uses the condition variable as any program may, so what holds
\* of CondVar holds of it.
THEOREM ClientUsesCond == ClientSpec => Spec
<1>1. ClientInit => Init
  BY DEF ClientInit
<1>. QED
  BY <1>1, ClientStep, PTL DEF ClientSpec, Spec

\* The predicate is set before the broadcast, and nobody links itself after
\* it: the list stays empty from the broadcast on.
LEMMA ClientInvStep ==
  IInv /\ ClientInv /\ [ClientNext]_clientVars => ClientInv'
<1> SUFFICES ASSUME IInv, ClientInv, [ClientNext]_clientVars
             PROVE  ClientInv'
  OBVIOUS
<1> USE ProducerAssumption
    DEF Consumers, ClientInv, NoConsumerStranded, Step, condVars, vars
<1>1. ASSUME NEW t \in Threads, ClientLock(t) PROVE ClientInv'
  BY <1>1 DEF ClientLock, Lock
<1>2. ASSUME NEW t \in Consumers, NEW d \in BOOLEAN, ConsumerWaits(t, d)
      PROVE  ClientInv'
  BY <1>2 DEF ConsumerWaits
<1>3. ASSUME NEW t \in Consumers, InWait(t) PROVE ClientInv'
  <2>1. linked' \subseteq linked
    BY <1>3 DEF InWait, Release, WaitOk, Timeout, WaitError, Cancel, Relock,
                ExitUnlock, Unlink
  <2>. QED
    BY <1>3, <2>1 DEF InWait
<1>4. ASSUME NEW t \in Consumers, ConsumerDone(t) PROVE ClientInv'
  BY <1>4 DEF ConsumerDone, Unlock
<1>5. CASE ProducerSignals
  BY <1>5 DEF ProducerSignals, Signal, Unlink
<1>6. CASE ProducerSets
  BY <1>6 DEF ProducerSets
<1>7. CASE ProducerBroadcasts
  BY <1>7 DEF ProducerBroadcasts, Broadcast
<1>8. CASE ProducerDestroys
  BY <1>8 DEF ProducerDestroys, Destroy
<1>9. CASE UNCHANGED clientVars
  BY <1>9 DEF clientVars
<1>. QED
  BY <1>1, <1>2, <1>3, <1>4, <1>5, <1>6, <1>7, <1>8, <1>9 DEF ClientNext

\* Once the producer has broadcast after setting the predicate, no consumer is
\* left in the list, whatever it was doing when the predicate was set.
THEOREM ClientNoConsumerStranded == ClientSpec => []NoConsumerStranded
<1>1. ClientInit => ClientInv
  BY ProducerAssumption DEF ClientInit, ClientInv, NoConsumerStranded
<1>2. ClientInv => NoConsumerStranded
  BY DEF ClientInv
<1>. QED
  BY <1>1, <1>2, ClientInvStep, ClientUsesCond, CondInvariant, PTL
     DEF ClientSpec
=============================================================================

----------------------------- MODULE MutexProofs -----------------------------
(***************************************************************************)
(* The inductive invariant of the mutex, and the proof that the mutex      *)
(* implements AbstractMutex, for any finite set of threads.                *)
(***************************************************************************)
EXTENDS Mutex, FiniteSetTheorems, TLAPS

\* The prover of the leaves that name no other.
USE ZenonT(30)

\* The set of sleepers is finite, and changes by the thread that moves.
LEMMA SleepersFinite == IsFiniteSet(Sleepers)
  BY FS_Subset, ThreadsAssumption DEF Sleepers

\* A step that moves no thread into or out of its sleep keeps the count.
LEMMA SameSleepers ==
  ASSUME WaitersCounted, waiters' = waiters, Sleepers' = Sleepers
  PROVE  WaitersCounted'
  BY DEF WaitersCounted

\* Init establishes the invariant: nobody sleeps.
LEMMA InitInv == Init => IInv
<1> SUFFICES ASSUME Init PROVE IInv
  OBVIOUS
<1>1. TypeOK
  <2>1. robust \in BOOLEAN
    BY DEF Init
  <2>. QED
    BY <2>1, SemMaxAssumption, MaxRecursionAssumption, SMTT(30) DEF Init, TypeOK, Modes
<1>2. Sleepers = {}
  BY DEF Init, Sleepers
<1>3. WaitersCounted
  BY <1>2, FS_EmptySet DEF Init, WaitersCounted
<1>4. NoLostWakeup /\ ReadyBeforeUse /\ OwnershipConsistent /\ CallsConsistent
  BY ThreadsAssumption, <1>2
     DEF Init, NoLostWakeup, ReadyBeforeUse, OwnershipConsistent,
         CallsConsistent, InLock, Sleepers, Live
<1>. QED
  BY <1>1, <1>3, <1>4 DEF IInv

\* Every step keeps the types: counts stay within their bounds.
LEMMA TypeStep == IInv /\ [Next]_vars => TypeOK'
<1> SUFFICES ASSUME IInv, [Next]_vars PROVE TypeOK'
  OBVIOUS
<1>0. TypeOK /\ OwnershipConsistent /\ CallsConsistent
  BY DEF IInv
<1> USE <1>0, SemMaxAssumption, MaxRecursionAssumption, ThreadsAssumption
    DEF TypeOK, Modes, attrVars, lockVars, Goto, Live
<1>1. ASSUME NEW t \in Live, NEW m \in Modes, Enter(t, m) PROVE TypeOK'
  BY <1>1 DEF Enter
<1>2. ASSUME NEW t \in Live, NEW m \in Modes, EnterZero(t, m) PROVE TypeOK'
  BY <1>2 DEF EnterZero
<1>3. ASSUME NEW t \in Threads, InCall(t) PROVE TypeOK'
  <2>1. CASE CreateFails(t)
    BY <2>1 DEF CreateFails
  <2>2. CASE Ready(t)
    BY <2>2, SMTT(30) DEF Ready
  <2>3. CASE InheritFromDead(t)
    BY <2>3, SMTT(30) DEF InheritFromDead
  <2>4. CASE Acquire(t)
    BY <2>4, SMTT(30) DEF Acquire
  <2>5. CASE Relock(t)
    <3>1. recursion < MaxRecursion
      BY <2>5 DEF Relock, CallsConsistent, InLock
    <3>. QED
      BY <2>5, <3>1, SMTT(30) DEF Relock
  <2>6. CASE Refuse(t)
    BY <2>6 DEF Refuse
  <2>7. CASE Block(t)
    BY <2>7, SMTT(30) DEF Block
  <2>8. CASE WaitOk(t)
    BY <2>8, SMTT(30) DEF WaitOk
  <2>9. CASE WaitInterrupted(t)
    BY <2>9 DEF WaitInterrupted
  <2>10. CASE WaitTimeout(t)
    BY <2>10 DEF WaitTimeout
  <2>11. CASE WaitError(t)
    BY <2>11 DEF WaitError
  <2>12. CASE AfterWait(t)
    BY <2>12, SMTT(30) DEF AfterWait
  <2>13. CASE Post(t)
    BY <2>13, SMTT(30) DEF Post
  <2>. QED
    BY <1>3, <2>1, <2>2, <2>3, <2>4, <2>5, <2>6, <2>7, <2>8, <2>9, <2>10,
       <2>11, <2>12, <2>13, SMTT(30) DEF InCall
<1>4. ASSUME NEW t \in Threads, Unlock(t) PROVE TypeOK'
  <2>1. recursion # 0
    BY <1>4 DEF Unlock, OwnershipConsistent
  <2>. QED
    BY <1>4, <2>1, SMTT(30) DEF Unlock
<1>5. ASSUME NEW t \in Threads, MarkConsistent(t) PROVE TypeOK'
  BY <1>5 DEF MarkConsistent
<1>6. ASSUME NEW t \in Threads, Exit(t) PROVE TypeOK'
  BY <1>6 DEF Exit
<1>7. CASE Destroy
  BY <1>7, SMTT(30) DEF Destroy
<1>8. ASSUME NEW ty \in {"normal", "errorcheck", "recursive"},
             NEW ro \in BOOLEAN, Reinit(ty, ro)
      PROVE TypeOK'
  BY <1>8, SMTT(30) DEF Reinit
<1>9. CASE UNCHANGED vars
  BY <1>9 DEF vars
<1>. QED
  BY <1>1, <1>2, <1>3, <1>4, <1>5, <1>6, <1>7, <1>8, <1>9 DEF Next

\* The sleepers are counted: a step adds or removes at most its own thread,
\* and data->waiters follows.
LEMMA CountStep == IInv /\ [Next]_vars => WaitersCounted'
<1> SUFFICES ASSUME IInv, [Next]_vars PROVE WaitersCounted'
  OBVIOUS
<1>0. TypeOK /\ WaitersCounted /\ ReadyBeforeUse /\ CallsConsistent
  BY DEF IInv
<1>a. ASSUME waiters' = waiters, NEW t \in Threads,
             \A u \in Threads \ {t} : pc'[u] = pc[u],
             t \in Sleepers <=> t \in Sleepers'
      PROVE  WaitersCounted'
  <2>1. Sleepers' = Sleepers
    BY <1>a DEF Sleepers
  <2>. QED
    BY <1>0, <1>a, <2>1, SameSleepers
<1>b. ASSUME waiters' = waiters, pc' = pc PROVE WaitersCounted'
  BY <1>0, <1>b, SameSleepers DEF Sleepers
<1>1. ASSUME NEW t \in Live, NEW m \in Modes, Enter(t, m) PROVE WaitersCounted'
  BY <1>0, <1>1, <1>a DEF Enter, Goto, Sleepers, TypeOK, Live
<1>2. ASSUME NEW t \in Live, NEW m \in Modes, EnterZero(t, m)
      PROVE WaitersCounted'
  BY <1>0, <1>2, <1>a DEF EnterZero, Goto, Sleepers, TypeOK, Live
<1>3. ASSUME NEW t \in Threads, InCall(t) PROVE WaitersCounted'
  <2>1. CASE CreateFails(t)
    BY <1>0, <2>1, <1>a DEF CreateFails, Goto, Sleepers, TypeOK
  <2>2. CASE Ready(t)
    <3>1. CASE magic = "zero"
      <4>1. Sleepers' = {}
        BY <1>0, <2>2, <3>1 DEF Ready, Goto, Sleepers, TypeOK, ReadyBeforeUse,
                                InLock
      <4>. QED
        BY <2>2, <3>1, <4>1, FS_EmptySet DEF Ready, WaitersCounted
    <3>2. CASE magic # "zero"
      BY <1>0, <2>2, <3>2, <1>a DEF Ready, Goto, Sleepers, TypeOK
    <3>. QED
      BY <3>1, <3>2
  <2>3. CASE InheritFromDead(t)
    BY <1>0, <2>3, <1>a DEF InheritFromDead, Goto, Sleepers, TypeOK
  <2>4. CASE Acquire(t)
    BY <1>0, <2>4, <1>a DEF Acquire, Goto, Sleepers, TypeOK
  <2>5. CASE Relock(t)
    BY <1>0, <2>5, <1>a DEF Relock, Goto, Sleepers, TypeOK
  <2>6. CASE Refuse(t)
    BY <1>0, <2>6, <1>a DEF Refuse, Goto, Sleepers, TypeOK
  <2>7. CASE Block(t)
    <3>1. Sleepers' = Sleepers \cup {t} /\ t \notin Sleepers
      BY <1>0, <2>7 DEF Block, Goto, Sleepers, TypeOK
    <3>2. Cardinality(Sleepers') = Cardinality(Sleepers) + 1
      BY <3>1, SleepersFinite, FS_AddElement, SMTT(30)
    <3>. QED
      BY <1>0, <2>7, <3>2 DEF Block, WaitersCounted
  <2>8. CASE WaitOk(t)
    BY <1>0, <2>8, <1>a DEF WaitOk, Goto, Sleepers, TypeOK, lockVars
  <2>9. CASE WaitInterrupted(t)
    BY <1>0, <2>9, <1>a DEF WaitInterrupted, Goto, Sleepers, TypeOK
  <2>10. CASE WaitTimeout(t)
    BY <1>0, <2>10, <1>a DEF WaitTimeout, Goto, Sleepers, TypeOK
  <2>11. CASE WaitError(t)
    BY <1>0, <2>11, <1>a DEF WaitError, Goto, Sleepers, TypeOK
  <2>12. CASE AfterWait(t)
    <3>1. Sleepers' = Sleepers \ {t} /\ t \in Sleepers
      BY <1>0, <2>12 DEF AfterWait, Goto, Sleepers, TypeOK
    <3>2. Cardinality(Sleepers') = Cardinality(Sleepers) - 1
      BY <3>1, SleepersFinite, FS_RemoveElement
    <3>3. Cardinality(Sleepers) # 0 /\ Cardinality(Sleepers) \in Nat
      BY <3>1, SleepersFinite, FS_EmptySet, FS_CardinalityType
    <3>. QED
      BY <1>0, <2>12, <3>2, <3>3, SMTT(30) DEF AfterWait, WaitersCounted
  <2>13. CASE Post(t)
    BY <1>0, <2>13, <1>a DEF Post, Goto, Sleepers, TypeOK
  <2>. QED
    BY <1>3, <2>1, <2>2, <2>3, <2>4, <2>5, <2>6, <2>7, <2>8, <2>9, <2>10,
       <2>11, <2>12, <2>13 DEF InCall
<1>4. ASSUME NEW t \in Threads, Unlock(t) PROVE WaitersCounted'
  <2>1. \A u \in Threads \ {t} : pc'[u] = pc[u]
    BY <1>0, <1>4 DEF Unlock, Goto, TypeOK
  <2>2. pc[t] = "idle" /\ pc'[t] \in {"idle", "post"}
    BY <1>0, <1>4 DEF Unlock, Goto, TypeOK
  <2>. QED
    BY <1>4, <2>1, <2>2, <1>a DEF Unlock, Sleepers
<1>5. ASSUME NEW t \in Threads, MarkConsistent(t) PROVE WaitersCounted'
  BY <1>5, <1>b DEF MarkConsistent
<1>6. ASSUME NEW t \in Threads, Exit(t) PROVE WaitersCounted'
  BY <1>6, <1>b DEF Exit
<1>7. CASE Destroy
  BY <1>7, <1>b DEF Destroy
<1>8. ASSUME NEW ty \in {"normal", "errorcheck", "recursive"},
             NEW ro \in BOOLEAN, Reinit(ty, ro)
      PROVE WaitersCounted'
  <2>1. Sleepers' = {}
    BY <1>0, <1>8 DEF Reinit, CallsConsistent, Sleepers
  <2>. QED
    BY <1>8, <2>1, FS_EmptySet DEF Reinit, WaitersCounted
<1>9. CASE UNCHANGED vars
  BY <1>9, <1>b DEF vars
<1>. QED
  BY <1>1, <1>2, <1>3, <1>4, <1>5, <1>6, <1>7, <1>8, <1>9 DEF Next

\* A mutex that is not ready yet stays unused until its first section says so.
LEMMA ReadyStep == IInv /\ [Next]_vars => ReadyBeforeUse'
<1> SUFFICES ASSUME IInv, [Next]_vars PROVE ReadyBeforeUse'
  OBVIOUS
<1>0. TypeOK /\ ReadyBeforeUse /\ OwnershipConsistent /\ CallsConsistent
  BY DEF IInv
<1> USE <1>0
    DEF TypeOK, Goto, attrVars, lockVars, Live, ReadyBeforeUse, InLock, Sleepers
<1>1. ASSUME NEW t \in Live, NEW m \in Modes, Enter(t, m)
      PROVE ReadyBeforeUse'
  BY <1>1 DEF Enter
<1>2. ASSUME NEW t \in Live, NEW m \in Modes, EnterZero(t, m)
      PROVE ReadyBeforeUse'
  BY <1>2 DEF EnterZero
<1>3. ASSUME NEW t \in Threads, InCall(t) PROVE ReadyBeforeUse'
  <2>1. CASE CreateFails(t)
    BY <2>1 DEF CreateFails
  <2>2. CASE Ready(t)
    BY <2>2 DEF Ready
  <2>3. CASE InheritFromDead(t)
    BY <2>3 DEF InheritFromDead
  <2>4. CASE Acquire(t)
    BY <2>4 DEF Acquire
  <2>5. CASE Relock(t)
    BY <2>5 DEF Relock
  <2>6. CASE Refuse(t)
    BY <2>6 DEF Refuse
  <2>7. CASE Block(t)
    BY <2>7 DEF Block
  <2>8. CASE WaitOk(t)
    BY <2>8 DEF WaitOk
  <2>9. CASE WaitInterrupted(t)
    BY <2>9 DEF WaitInterrupted
  <2>10. CASE WaitTimeout(t)
    BY <2>10 DEF WaitTimeout
  <2>11. CASE WaitError(t)
    BY <2>11 DEF WaitError
  <2>12. CASE AfterWait(t)
    BY <2>12 DEF AfterWait
  <2>13. CASE Post(t)
    BY <2>13 DEF Post
  <2>. QED
    BY <1>3, <2>1, <2>2, <2>3, <2>4, <2>5, <2>6, <2>7, <2>8, <2>9, <2>10,
       <2>11, <2>12, <2>13 DEF InCall
<1>4. ASSUME NEW t \in Threads, Unlock(t) PROVE ReadyBeforeUse'
  BY <1>4 DEF Unlock
<1>5. ASSUME NEW t \in Threads, MarkConsistent(t) PROVE ReadyBeforeUse'
  BY <1>5 DEF MarkConsistent
<1>6. ASSUME NEW t \in Threads, Exit(t) PROVE ReadyBeforeUse'
  BY <1>6 DEF Exit
<1>7. CASE Destroy
  BY <1>7 DEF Destroy
<1>8. ASSUME NEW ty \in {"normal", "errorcheck", "recursive"},
             NEW ro \in BOOLEAN, Reinit(ty, ro)
      PROVE ReadyBeforeUse'
  BY <1>8 DEF Reinit
<1>9. CASE UNCHANGED vars
  BY <1>9 DEF vars
<1>. QED
  BY <1>1, <1>2, <1>3, <1>4, <1>5, <1>6, <1>7, <1>8, <1>9 DEF Next

\* What the owner, the recursion count and the robust state say together.
LEMMA OwnershipStep == IInv /\ [Next]_vars => OwnershipConsistent'
<1> SUFFICES ASSUME IInv, [Next]_vars PROVE OwnershipConsistent'
  OBVIOUS
<1>0. TypeOK /\ ReadyBeforeUse /\ OwnershipConsistent /\ CallsConsistent
  BY DEF IInv
<1> USE <1>0, ThreadsAssumption
    DEF TypeOK, Goto, attrVars, lockVars, Live, OwnershipConsistent
<1>1. ASSUME NEW t \in Live, NEW m \in Modes, Enter(t, m)
      PROVE OwnershipConsistent'
  BY <1>1 DEF Enter
<1>2. ASSUME NEW t \in Live, NEW m \in Modes, EnterZero(t, m)
      PROVE OwnershipConsistent'
  BY <1>2 DEF EnterZero
<1>3. ASSUME NEW t \in Threads, InCall(t) PROVE OwnershipConsistent'
  <2>1. CASE CreateFails(t)
    BY <2>1 DEF CreateFails
  <2>2. CASE Ready(t)
    BY <2>2 DEF Ready
  <2>3. CASE InheritFromDead(t)
    <3>1. magic = "live"
      BY <2>3 DEF InheritFromDead, ReadyBeforeUse, CallsConsistent, InLock
    <3>. QED
      BY <2>3, <3>1, SMTT(30) DEF InheritFromDead, OwnerDead
  <2>4. CASE Acquire(t)
    <3>1. magic = "live"
      BY <2>4 DEF Acquire, ReadyBeforeUse, CallsConsistent, InLock
    <3>. QED
      BY <2>4, <3>1, SMTT(30) DEF Acquire, OwnerDead
  <2>5. CASE Relock(t)
    BY <2>5, SMTT(30) DEF Relock
  <2>6. CASE Refuse(t)
    BY <2>6 DEF Refuse
  <2>7. CASE Block(t)
    BY <2>7 DEF Block
  <2>8. CASE WaitOk(t)
    BY <2>8 DEF WaitOk
  <2>9. CASE WaitInterrupted(t)
    BY <2>9 DEF WaitInterrupted
  <2>10. CASE WaitTimeout(t)
    BY <2>10 DEF WaitTimeout
  <2>11. CASE WaitError(t)
    BY <2>11 DEF WaitError
  <2>12. CASE AfterWait(t)
    BY <2>12 DEF AfterWait
  <2>13. CASE Post(t)
    BY <2>13 DEF Post
  <2>. QED
    BY <1>3, <2>1, <2>2, <2>3, <2>4, <2>5, <2>6, <2>7, <2>8, <2>9, <2>10,
       <2>11, <2>12, <2>13 DEF InCall
<1>4. ASSUME NEW t \in Threads, Unlock(t) PROVE OwnershipConsistent'
  BY <1>4, SMTT(30) DEF Unlock
<1>5. ASSUME NEW t \in Threads, MarkConsistent(t) PROVE OwnershipConsistent'
  BY <1>5 DEF MarkConsistent
<1>6. ASSUME NEW t \in Threads, Exit(t) PROVE OwnershipConsistent'
  BY <1>6 DEF Exit
<1>7. CASE Destroy
  BY <1>7 DEF Destroy
<1>8. ASSUME NEW ty \in {"normal", "errorcheck", "recursive"},
             NEW ro \in BOOLEAN, Reinit(ty, ro)
      PROVE OwnershipConsistent'
  BY <1>8 DEF Reinit
<1>9. CASE UNCHANGED vars
  BY <1>9 DEF vars
<1>. QED
  BY <1>1, <1>2, <1>3, <1>4, <1>5, <1>6, <1>7, <1>8, <1>9 DEF Next

\* Which calls can be in progress.
LEMMA CallsStep == IInv /\ [Next]_vars => CallsConsistent'
<1> SUFFICES ASSUME IInv, [Next]_vars PROVE CallsConsistent'
  OBVIOUS
<1>0. TypeOK /\ ReadyBeforeUse /\ OwnershipConsistent /\ CallsConsistent
       /\ WaitersCounted
  BY DEF IInv
<1> USE <1>0,
       ThreadsAssumption, MaxRecursionAssumption
    DEF TypeOK, Goto, attrVars, lockVars, Live, CallsConsistent, InLock, Sleepers,
        OwnershipConsistent, OwnerDead
<1>1. ASSUME NEW t \in Live, NEW m \in Modes, Enter(t, m)
      PROVE CallsConsistent'
  BY <1>1, SMTT(30) DEF Enter
<1>2. ASSUME NEW t \in Live, NEW m \in Modes, EnterZero(t, m)
      PROVE CallsConsistent'
  BY <1>2 DEF EnterZero
<1>3. ASSUME NEW t \in Threads, InCall(t) PROVE CallsConsistent'
  <2>1. CASE CreateFails(t)
    BY <2>1 DEF CreateFails
  <2>2. CASE Ready(t)
    BY <2>2 DEF Ready
  <2>3. CASE InheritFromDead(t)
    BY <2>3 DEF InheritFromDead
  <2>4. CASE Acquire(t)
    BY <2>4 DEF Acquire
  <2>5. CASE Relock(t)
    BY <2>5 DEF Relock
  <2>6. CASE Refuse(t)
    BY <2>6 DEF Refuse
  <2>7. CASE Block(t)
    BY <2>7 DEF Block
  <2>8. CASE WaitOk(t)
    BY <2>8 DEF WaitOk
  <2>9. CASE WaitInterrupted(t)
    BY <2>9 DEF WaitInterrupted
  <2>10. CASE WaitTimeout(t)
    BY <2>10 DEF WaitTimeout
  <2>11. CASE WaitError(t)
    BY <2>11 DEF WaitError
  <2>12. CASE AfterWait(t)
    BY <2>12 DEF AfterWait
  <2>13. CASE Post(t)
    BY <2>13 DEF Post
  <2>. QED
    BY <1>3, <2>1, <2>2, <2>3, <2>4, <2>5, <2>6, <2>7, <2>8, <2>9, <2>10,
       <2>11, <2>12, <2>13 DEF InCall
<1>4. ASSUME NEW t \in Threads, Unlock(t) PROVE CallsConsistent'
  BY <1>4, SMTT(30) DEF Unlock
<1>5. ASSUME NEW t \in Threads, MarkConsistent(t) PROVE CallsConsistent'
  BY <1>5 DEF MarkConsistent
<1>6. ASSUME NEW t \in Threads, Exit(t) PROVE CallsConsistent'
  BY <1>6 DEF Exit
<1>7. CASE Destroy
  <2>1. Sleepers = {}
    <3>. HIDE DEF Sleepers
    <3>. QED
      BY <1>7, SleepersFinite, FS_EmptySet DEF Destroy, WaitersCounted
  <2>. QED
    BY <1>7, <2>1 DEF Destroy, Acquiring
<1>8. ASSUME NEW ty \in {"normal", "errorcheck", "recursive"},
             NEW ro \in BOOLEAN, Reinit(ty, ro)
      PROVE CallsConsistent'
  BY <1>8 DEF Reinit
<1>9. CASE UNCHANGED vars
  BY <1>9 DEF vars
<1>. QED
  BY <1>1, <1>2, <1>3, <1>4, <1>5, <1>6, <1>7, <1>8, <1>9 DEF Next

\* No step loses a wakeup.  The steps that could are the ones that free the
\* mutex (Unlock decides to post exactly when a thread sleeps) and the ones
\* that use up a post or an attempt (WaitOk leads to the loop, and a thread in
\* the loop of a free mutex takes it).
LEMMA WakeStep == IInv /\ [Next]_vars => NoLostWakeup'
<1> SUFFICES ASSUME IInv, [Next]_vars PROVE NoLostWakeup'
  OBVIOUS
<1>0. TypeOK /\ ReadyBeforeUse /\ OwnershipConsistent /\ CallsConsistent
       /\ NoLostWakeup /\ WaitersCounted
  BY DEF IInv
<1> USE <1>0, ThreadsAssumption, SemMaxAssumption
    DEF TypeOK, Goto, attrVars, lockVars, Live, NoLostWakeup, OwnershipConsistent, CallsConsistent,
        InLock, OwnerDead, Sleepers
<1>1. ASSUME NEW t \in Live, NEW m \in Modes, Enter(t, m)
      PROVE NoLostWakeup'
  BY <1>1 DEF Enter
<1>2. ASSUME NEW t \in Live, NEW m \in Modes, EnterZero(t, m)
      PROVE NoLostWakeup'
  BY <1>2 DEF EnterZero
<1>3. ASSUME NEW t \in Threads, InCall(t) PROVE NoLostWakeup'
  <2>1. CASE CreateFails(t)
    BY <2>1 DEF CreateFails
  <2>2. CASE Ready(t)
    BY <2>2 DEF Ready
  <2>3. CASE InheritFromDead(t)
    BY <2>3 DEF InheritFromDead
  <2>4. CASE Acquire(t)
    BY <2>4 DEF Acquire
  <2>5. CASE Relock(t)
    BY <2>5 DEF Relock
  <2>6. CASE Refuse(t)
    BY <2>6 DEF Refuse
  <2>7. CASE Block(t)
    BY <2>7 DEF Block
  <2>8. CASE WaitOk(t)
    BY <2>8 DEF WaitOk
  <2>9. CASE WaitInterrupted(t)
    BY <2>9 DEF WaitInterrupted
  <2>10. CASE WaitTimeout(t)
    BY <2>10 DEF WaitTimeout
  <2>11. CASE WaitError(t)
    BY <2>11 DEF WaitError
  <2>12. CASE AfterWait(t)
    BY <2>12 DEF AfterWait
  <2>13. CASE Post(t)
    BY <2>13, SMTT(30) DEF Post
  <2>. QED
    BY <1>3, <2>1, <2>2, <2>3, <2>4, <2>5, <2>6, <2>7, <2>8, <2>9, <2>10,
       <2>11, <2>12, <2>13, SMTT(30) DEF InCall
<1>4. ASSUME NEW t \in Threads, Unlock(t) PROVE NoLostWakeup'
  <2>1. (\E u \in Threads : pc[u] = "wait") => waiters # 0
    <3>1. (\E u \in Threads : pc[u] = "wait") => Sleepers # {}
      OBVIOUS
    <3>. HIDE DEF Sleepers
    <3>. QED
      BY <3>1, SleepersFinite, FS_EmptySet DEF WaitersCounted
  <2>. QED
    BY <1>4, <2>1 DEF Unlock
<1>5. ASSUME NEW t \in Threads, MarkConsistent(t) PROVE NoLostWakeup'
  BY <1>5 DEF MarkConsistent
<1>6. ASSUME NEW t \in Threads, Exit(t) PROVE NoLostWakeup'
  BY <1>6 DEF Exit
<1>7. CASE Destroy
  BY <1>7 DEF Destroy
<1>8. ASSUME NEW ty \in {"normal", "errorcheck", "recursive"},
             NEW ro \in BOOLEAN, Reinit(ty, ro)
      PROVE NoLostWakeup'
  BY <1>8 DEF Reinit
<1>9. CASE UNCHANGED vars
  BY <1>9 DEF vars
<1>. QED
  BY <1>1, <1>2, <1>3, <1>4, <1>5, <1>6, <1>7, <1>8, <1>9 DEF Next

\* The inductive invariant holds in every state of every behaviour.
THEOREM InductiveInvariant == Spec => []IInv
<1>1. Init => IInv
  BY InitInv
<1>2. IInv /\ [Next]_vars => IInv'
  BY TypeStep, CountStep, ReadyStep, OwnershipStep, CallsStep, WakeStep
     DEF IInv
<1>. QED
  BY <1>1, <1>2, PTL DEF Spec

\* The mutex keeps its types for any finite set of threads.
THEOREM TypeCorrect == Spec => []TypeOK
<1>1. IInv => TypeOK
  BY DEF IInv
<1>. QED
  BY <1>1, InductiveInvariant, PTL

\* pthread_mutex_destroy() never closes the semaphore of a sleeping thread.
THEOREM SleepersAreCounted == Spec => []WaitersCounted
<1>1. IInv => WaitersCounted
  BY DEF IInv
<1>. QED
  BY <1>1, InductiveInvariant, PTL

\* pthread_mutex_unlock() and mutex_acquire() lose no wakeup.
THEOREM WakeupsKept == Spec => []NoLostWakeup
<1>1. IInv => NoLostWakeup
  BY DEF IInv
<1>. QED
  BY <1>1, InductiveInvariant, PTL

\* Every step of the mutex is a step of the abstract mutex or changes nothing
\* the abstract mutex shows: a death makes a robust mutex dirty at once.
LEMMA RefinementStep ==
  IInv /\ [Next]_vars => [Abstract!Next]_(Abstract!vars)
<1> SUFFICES ASSUME IInv, [Next]_vars
             PROVE  Abstract!Next \/ UNCHANGED Abstract!vars
  OBVIOUS
<1>0. TypeOK /\ ReadyBeforeUse /\ OwnershipConsistent /\ CallsConsistent
  BY DEF IInv
<1>a. ASSUME UNCHANGED <<owner, recursion, robust, robust_state, exited>>
      PROVE  UNCHANGED Abstract!vars
  BY <1>a DEF Abstract!vars
<1>1. ASSUME NEW t \in Live, NEW m \in Modes, Enter(t, m) \/ EnterZero(t, m)
      PROVE  UNCHANGED Abstract!vars
  BY <1>1, <1>a DEF Enter, EnterZero, attrVars, lockVars
<1>3. ASSUME NEW t \in Threads, InCall(t)
      PROVE  Abstract!Next \/ UNCHANGED Abstract!vars
  <2>1. CASE CreateFails(t)
    BY <2>1, <1>a DEF CreateFails, attrVars, lockVars
  <2>2. CASE Ready(t)
    BY <1>0, <2>2, <1>a DEF Ready, ReadyBeforeUse, OwnershipConsistent
  <2>3. CASE InheritFromDead(t)
    <3>1. Abstract!Inherit(t)
      BY <1>0, <2>3, ThreadsAssumption
         DEF InheritFromDead, Abstract!Inherit, attrVars, OwnerDead, TypeOK, Live,
             OwnershipConsistent, CallsConsistent
    <3>. QED
      BY <3>1 DEF Abstract!Next
  <2>4. CASE Acquire(t)
    <3>1. Abstract!Lock(t)
      BY <1>0, <2>4, ThreadsAssumption
         DEF Acquire, Abstract!Lock, attrVars, OwnerDead, TypeOK, Live,
             OwnershipConsistent, CallsConsistent
    <3>. QED
      BY <3>1 DEF Abstract!Next
  <2>5. CASE Relock(t)
    <3>1. Abstract!Relock(t)
      BY <1>0, <2>5, ThreadsAssumption
         DEF Relock, Abstract!Relock, attrVars, OwnerDead, TypeOK, Live,
             OwnershipConsistent, CallsConsistent
    <3>. QED
      BY <3>1 DEF Abstract!Next
  <2>6. CASE Refuse(t)
    BY <2>6, <1>a DEF Refuse, attrVars, lockVars
  <2>7. CASE Block(t)
    BY <2>7, <1>a DEF Block, attrVars, lockVars
  <2>8. CASE WaitOk(t)
    BY <2>8, <1>a DEF WaitOk, attrVars, lockVars
  <2>9. CASE WaitInterrupted(t)
    BY <2>9, <1>a DEF WaitInterrupted, attrVars, lockVars
  <2>10. CASE WaitTimeout(t)
    BY <2>10, <1>a DEF WaitTimeout, attrVars, lockVars
  <2>11. CASE WaitError(t)
    BY <2>11, <1>a DEF WaitError, attrVars, lockVars
  <2>12. CASE AfterWait(t)
    BY <2>12, <1>a DEF AfterWait, attrVars, lockVars
  <2>13. CASE Post(t)
    BY <2>13, <1>a DEF Post, attrVars, lockVars
  <2>. QED
    BY <1>3, <2>1, <2>2, <2>3, <2>4, <2>5, <2>6, <2>7, <2>8, <2>9, <2>10,
       <2>11, <2>12, <2>13 DEF InCall
<1>4. ASSUME NEW t \in Threads, Unlock(t) PROVE Abstract!Next
  <2>1. Abstract!Unlock(t)
    BY <1>0, <1>4, ThreadsAssumption, SMTT(30)
       DEF Unlock, Abstract!Unlock, attrVars, TypeOK, Live, OwnershipConsistent
  <2>. QED
    BY <2>1 DEF Abstract!Next
<1>5. ASSUME NEW t \in Threads, MarkConsistent(t) PROVE Abstract!Next
  <2>1. Abstract!MarkConsistent(t)
    BY <1>0, <1>5 DEF MarkConsistent, Abstract!MarkConsistent, attrVars, TypeOK,
                      Live, OwnershipConsistent
  <2>. QED
    BY <2>1 DEF Abstract!Next
<1>6. ASSUME NEW t \in Threads, Exit(t) PROVE Abstract!Next
  <2>1. Abstract!Die(t)
    BY <1>0, <1>6 DEF Exit, Abstract!Die, attrVars, lockVars, TypeOK, Live
  <2>. QED
    BY <2>1 DEF Abstract!Next
<1>7. CASE Destroy
  BY <1>7, <1>a DEF Destroy, lockVars
<1>8. ASSUME NEW ty \in {"normal", "errorcheck", "recursive"},
             NEW ro \in BOOLEAN, Reinit(ty, ro)
      PROVE  Abstract!Next
  <2>1. Abstract!Reset
    BY <1>0, <1>8, ThreadsAssumption
       DEF Reinit, Abstract!Reset, TypeOK, OwnershipConsistent
  <2>. QED
    BY <2>1 DEF Abstract!Next
<1>9. CASE UNCHANGED vars
  BY <1>9, <1>a DEF vars
<1>. QED
  BY <1>1, <1>3, <1>4, <1>5, <1>6, <1>7, <1>8, <1>9 DEF Next

\* The detailed mutex implements the abstract one: semaphore, waiters and lazy
\* initialisation are invisible, and a robust mutex never hides a death.
THEOREM MutexRefinesAbstract == Spec => ImplementsMutex
<1>1. Init => Abstract!Init
  BY ThreadsAssumption DEF Init, Abstract!Init
<1>. QED
  BY <1>1, InductiveInvariant, RefinementStep, PTL
     DEF Spec, ImplementsMutex, Abstract!Spec
=============================================================================

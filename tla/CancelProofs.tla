----------------------------- MODULE CancelProofs -----------------------------
(***************************************************************************)
(* Cancellation for any finite set of threads, whoever cancels whom: one   *)
(* cleanup per thread, no owner of the fast lock redirected, no thread     *)
(* interrupted against its settings and, on NT, no suspension left behind  *)
(* unless the backend fails to end it.                                     *)
(***************************************************************************)
EXTENDS Cancel, TLAPS

\* The prover of the leaves that name no other.
USE ZenonT(30)

\* An operation holds at most one level of its own and, on NT, the lock's.
LEMMA Levels ==
  /\ LockLevel \in {0, 1}
  /\ NT => LockLevel = 1
  /\ \A o : OwnLevel(o) \in {0, 1}
  /\ \A o \in {"state", "type", "cancel"} : OwnLevel(o) = 1
  /\ \A o \in {"test", "apc", "finish"} : OwnLevel(o) = 0
  BY CancelAssumption DEF LockLevel, OwnLevel

\* Init establishes the invariant: every thread runs its program.
LEMMA InitInv == Init => IInv
<1> SUFFICES ASSUME Init PROVE IInv
  OBVIOUS
<1>1. TypeOK
  BY DEF Init, TypeOK, Places, Operations
<1>2. LevelsHeld
  BY DEF Init, LevelsHeld
<1>3. SectionOwned /\ EntriesClaimed /\ DecisionHolds /\ SuspensionBracketed
  BY CancelAssumption
     DEF Init, SectionOwned, EntriesClaimed, DecisionHolds, SuspensionBracketed
<1>. QED
  BY <1>1, <1>2, <1>3 DEF IInv

\* Every step keeps the types; no thread holds a third deferral level.
LEMMA TypeStep == IInv /\ [Next]_vars => TypeOK'
<1> SUFFICES ASSUME IInv, [Next]_vars PROVE TypeOK'
  OBVIOUS
<1>0. TypeOK
  BY DEF IInv
<1> USE <1>0, Levels, CancelAssumption
      DEF TypeOK, Goto, flags, calls, procVars, Places, Operations
<1>1. ASSUME NEW t \in Threads, NEW u \in Threads,
            NEW o \in {"state", "type", "test", "cancel"}, Enter(t, o, u)
     PROVE  TypeOK'
  BY <1>1, SMTT(30) DEF Enter
<1>2. ASSUME NEW t \in Threads, RunApc(t) PROVE TypeOK'
  BY <1>2, SMTT(30) DEF RunApc
<1>3. ASSUME NEW t \in Threads, Unsafe(t) PROVE TypeOK'
  BY <1>3 DEF Unsafe
<1>4. ASSUME NEW t \in Threads, Return(t) PROVE TypeOK'
  BY <1>4 DEF Return
<1>5. ASSUME NEW t \in Threads, Acquire(t) PROVE TypeOK'
  BY <1>5 DEF Acquire
<1>6. ASSUME NEW t \in Threads, SetState(t) PROVE TypeOK'
  BY <1>6, SMTT(30) DEF SetState, Release
<1>7. ASSUME NEW t \in Threads, SetType(t) PROVE TypeOK'
  BY <1>7, SMTT(30) DEF SetType, Release
<1>8. ASSUME NEW t \in Threads, TestCancel(t) PROVE TypeOK'
  BY <1>8, SMTT(30) DEF TestCancel, Release
<1>9. ASSUME NEW t \in Threads, CancelApc(t) PROVE TypeOK'
  BY <1>9, SMTT(30) DEF CancelApc, Release
<1>10. ASSUME NEW t \in Threads, PthreadCancel(t) PROVE TypeOK'
  <2>1. pending' \in [Threads -> BOOLEAN] /\ queued' \in [Threads -> BOOLEAN]
    BY <1>10 DEF PthreadCancel
  <2>2. pc' \in [Threads -> Places]
    BY <1>10 DEF PthreadCancel, Release
  <2>. QED
    BY <1>10, <2>1, <2>2, SMTT(30) DEF PthreadCancel, Release
<1>11. ASSUME NEW t \in Threads, Tail(t) PROVE TypeOK'
  BY <1>11, SMTT(30) DEF Tail
<1>12. ASSUME NEW t \in Threads, Check(t) PROVE TypeOK'
  BY <1>12 DEF Check, AsyncDue, Onward
<1>13. ASSUME NEW t \in Threads, ClaimUnsafe(t) PROVE TypeOK'
  BY <1>13 DEF ClaimUnsafe
<1>14. ASSUME NEW t \in Threads, Claim(t) PROVE TypeOK'
  BY <1>14, SMTT(30) DEF Claim, Onward
<1>15. ASSUME NEW t \in Threads, Claimed(t) PROVE TypeOK'
  BY <1>15 DEF Claimed
<1>16. ASSUME NEW t \in Threads, Finish(t) PROVE TypeOK'
  BY <1>16, SMTT(30) DEF Finish, Release
<1>17. ASSUME NEW t \in Threads, Terminate(t) PROVE TypeOK'
  BY <1>17 DEF Terminate
<1>18. ASSUME NEW t \in Threads, Suspend(t) PROVE TypeOK'
  BY <1>18, SMTT(30) DEF Suspend
<1>19. ASSUME NEW t \in Threads, SuspendFails(t) PROVE TypeOK'
  BY <1>19 DEF SuspendFails
<1>20. ASSUME NEW t \in Threads, Inspect(t) PROVE TypeOK'
  BY <1>20, SMTT(30) DEF Inspect, Consumed, Interruptible
<1>21. ASSUME NEW t \in Threads, Redirect(t) PROVE TypeOK'
  <2>1. pc' \in [Threads -> Places]
    BY <1>21, SMTT(30) DEF Redirect
  <2>2. /\ running' \in [Threads -> BOOLEAN]
        /\ entries' \in [Threads -> Nat]
    BY <1>21, SMTT(30) DEF Redirect
  <2>. QED
    BY <1>21, <2>1, <2>2, SMTT(30) DEF Redirect
<1>22. ASSUME NEW t \in Threads, RedirectFails(t) PROVE TypeOK'
  BY <1>22 DEF RedirectFails
<1>23. ASSUME NEW t \in Threads, Resume(t) PROVE TypeOK'
  BY <1>23 DEF Resume
<1>24. ASSUME NEW t \in Threads, QueueApc(t) PROVE TypeOK'
  BY <1>24 DEF QueueApc
<1>25. ASSUME NEW t \in Threads, Unqueue(t) PROVE TypeOK'
  BY <1>25 DEF Unqueue
<1>26. ASSUME NEW t \in Threads, FinishEnter(t) PROVE TypeOK'
  BY <1>26, SMTT(30) DEF FinishEnter
<1>27. ASSUME NEW t \in Threads, ResumeFails(t) PROVE TypeOK'
  BY <1>27 DEF ResumeFails
<1>28. CASE UNCHANGED vars
  BY <1>28 DEF vars, flags, calls, procVars
<1> HIDE DEF TypeOK, Goto, flags, calls, procVars, Places, Operations
<1>. QED
  BY <1>1, <1>2, <1>3, <1>4, <1>5, <1>6, <1>7, <1>8, <1>9, <1>10, <1>11,
     <1>12, <1>13, <1>14, <1>15, <1>16, <1>17, <1>18, <1>19, <1>20, <1>21,
     <1>22, <1>23, <1>24, <1>25, <1>26, <1>27, <1>28
     DEF Next, Program, Library

\* The levels are entered before the lock is requested and left after it is
\* released; a redirected thread holds none.
LEMMA LevelsStep == IInv /\ [Next]_vars => LevelsHeld'
<1> SUFFICES ASSUME IInv, [Next]_vars PROVE LevelsHeld'
  OBVIOUS
<1>0. TypeOK /\ LevelsHeld
  BY DEF IInv
<1> USE <1>0, Levels, CancelAssumption
      DEF TypeOK, Goto, flags, calls, procVars, LevelsHeld
<1>1. ASSUME NEW t \in Threads, NEW u \in Threads,
            NEW o \in {"state", "type", "test", "cancel"}, Enter(t, o, u)
     PROVE  LevelsHeld'
  BY <1>1, SMTT(30) DEF Enter
<1>2. ASSUME NEW t \in Threads, RunApc(t) PROVE LevelsHeld'
  BY <1>2, SMTT(30) DEF RunApc
<1>3. ASSUME NEW t \in Threads, Acquire(t) PROVE LevelsHeld'
  BY <1>3, SMTT(30) DEF Acquire
<1>4. ASSUME NEW t \in Threads, SetState(t) PROVE LevelsHeld'
  BY <1>4, SMTT(30) DEF SetState, Release
<1>5. ASSUME NEW t \in Threads, SetType(t) PROVE LevelsHeld'
  BY <1>5, SMTT(30) DEF SetType, Release
<1>6. ASSUME NEW t \in Threads, TestCancel(t) PROVE LevelsHeld'
  BY <1>6, SMTT(30) DEF TestCancel, Release
<1>7. ASSUME NEW t \in Threads, CancelApc(t) PROVE LevelsHeld'
  BY <1>7, SMTT(30) DEF CancelApc, Release
<1>8. ASSUME NEW t \in Threads, PthreadCancel(t) PROVE LevelsHeld'
  BY <1>8, SMTT(30) DEF PthreadCancel, Release
<1>9. ASSUME NEW t \in Threads, Tail(t) PROVE LevelsHeld'
  BY <1>9, SMTT(30) DEF Tail
<1>10. ASSUME NEW t \in Threads, Check(t) PROVE LevelsHeld'
  BY <1>10, SMTT(30) DEF Check, AsyncDue, Onward
<1>11. ASSUME NEW t \in Threads, Claim(t) PROVE LevelsHeld'
  BY <1>11, SMTT(30) DEF Claim, Onward
<1>12. ASSUME NEW t \in Threads, Inspect(t) PROVE LevelsHeld'
  BY <1>12, SMTT(30) DEF Inspect, Consumed, Interruptible
<1>13. ASSUME NEW t \in Threads, Redirect(t) PROVE LevelsHeld'
  BY <1>13, SMTT(30) DEF Redirect, Consumed, Interruptible
<1>14. ASSUME NEW t \in Threads, Resume(t) PROVE LevelsHeld'
  BY <1>14, SMTT(30) DEF Resume
<1>15. ASSUME NEW t \in Threads, QueueApc(t) PROVE LevelsHeld'
  BY <1>15, SMTT(30) DEF QueueApc
<1>16. ASSUME NEW t \in Threads,
               \/ Unsafe(t)
               \/ Return(t)
               \/ ClaimUnsafe(t)
               \/ Claimed(t)
               \/ Terminate(t)
     PROVE  LevelsHeld'
  BY <1>16, SMTT(30) DEF Unsafe, Return, ClaimUnsafe, Claimed, Terminate
<1>17. ASSUME NEW t \in Threads,
               \/ Suspend(t)
               \/ SuspendFails(t)
               \/ RedirectFails(t)
               \/ Unqueue(t)
     PROVE  LevelsHeld'
  BY <1>17, SMTT(30) DEF Suspend, SuspendFails, RedirectFails, Unqueue
<1>18. ASSUME NEW t \in Threads, FinishEnter(t) PROVE LevelsHeld'
  BY <1>18, SMTT(30) DEF FinishEnter
<1>19. ASSUME NEW t \in Threads, Finish(t) PROVE LevelsHeld'
  BY <1>19, SMTT(30) DEF Finish, Release
<1>20. ASSUME NEW t \in Threads, ResumeFails(t) PROVE LevelsHeld'
  BY <1>20, SMTT(30) DEF ResumeFails
<1>21. CASE UNCHANGED vars
  BY <1>21 DEF vars, flags, calls, procVars
<1> HIDE DEF TypeOK, Goto, flags, calls, procVars, LevelsHeld
<1>. QED
  BY <1>1, <1>2, <1>3, <1>4, <1>5, <1>6, <1>7, <1>8, <1>9, <1>10, <1>11,
     <1>12, <1>13, <1>14, <1>15, <1>16, <1>17, <1>18, <1>19, <1>20, <1>21
     DEF Next, Program, Library

\* The lock goes to the thread that enters its section and is given up with
\* it; a redirected thread holds no level and is not in a section.
LEMMA SectionStep == IInv /\ [Next]_vars => SectionOwned'
<1> SUFFICES ASSUME IInv, [Next]_vars PROVE SectionOwned'
  OBVIOUS
<1>0. TypeOK /\ LevelsHeld /\ SectionOwned
  BY DEF IInv
<1> USE <1>0, Levels, CancelAssumption
      DEF TypeOK, Goto, flags, calls, procVars, LevelsHeld, SectionOwned
<1>1. ASSUME NEW t \in Threads, NEW u \in Threads,
            NEW o \in {"state", "type", "test", "cancel"}, Enter(t, o, u)
     PROVE  SectionOwned'
  BY <1>1 DEF Enter
<1>2. ASSUME NEW t \in Threads, Acquire(t) PROVE SectionOwned'
  BY <1>2 DEF Acquire
<1>3. ASSUME NEW t \in Threads, SetState(t) PROVE SectionOwned'
  BY <1>3 DEF SetState, Release
<1>4. ASSUME NEW t \in Threads, SetType(t) PROVE SectionOwned'
  BY <1>4 DEF SetType, Release
<1>5. ASSUME NEW t \in Threads, TestCancel(t) PROVE SectionOwned'
  BY <1>5 DEF TestCancel, Release
<1>6. ASSUME NEW t \in Threads, CancelApc(t) PROVE SectionOwned'
  BY <1>6 DEF CancelApc, Release
<1>7. ASSUME NEW t \in Threads, PthreadCancel(t) PROVE SectionOwned'
  BY <1>7 DEF PthreadCancel, Release
<1>8. ASSUME NEW t \in Threads, Check(t) PROVE SectionOwned'
  BY <1>8, SMTT(30) DEF Check, AsyncDue, Onward
<1>9. ASSUME NEW t \in Threads, Claim(t) PROVE SectionOwned'
  BY <1>9, SMTT(30) DEF Claim, Onward
<1>10. ASSUME NEW t \in Threads, Redirect(t) PROVE SectionOwned'
  <2>1. depth[arg[t]] = 0 /\ NT
    BY <1>10 DEF Redirect, Interruptible
  <2>2. pc[arg[t]] # "section"
    <3>1. arg[t] \in Threads
      OBVIOUS
    <3> HIDE DEF TypeOK, SectionOwned
    <3>. QED
      BY <2>1, <3>1, SMTT(30)
  <2>3. \A v \in Threads : pc'[v] = "section" <=> pc[v] = "section"
    BY <1>10, <2>2 DEF Redirect
  <2>. QED
    BY <1>10, <2>3 DEF Redirect
<1>11. ASSUME NEW t \in Threads,
               \/ RunApc(t)
               \/ Unsafe(t)
               \/ Return(t)
               \/ Tail(t)
               \/ ClaimUnsafe(t)
               \/ Claimed(t)
     PROVE  SectionOwned'
  BY <1>11, SMTT(30) DEF RunApc, Unsafe, Return, Tail, ClaimUnsafe, Claimed
<1>12. ASSUME NEW t \in Threads,
               \/ FinishEnter(t)
               \/ Terminate(t)
               \/ Suspend(t)
               \/ SuspendFails(t)
               \/ Inspect(t)
               \/ RedirectFails(t)
     PROVE  SectionOwned'
  BY <1>12, SMTT(30) DEF FinishEnter, Terminate, Suspend, SuspendFails, Inspect,
         RedirectFails
<1>13. ASSUME NEW t \in Threads,
               \/ Resume(t)
               \/ ResumeFails(t)
               \/ QueueApc(t)
               \/ Unqueue(t)
     PROVE  SectionOwned'
  BY <1>13, SMTT(30) DEF Resume, ResumeFails, QueueApc, Unqueue
<1>14. ASSUME NEW t \in Threads, Finish(t) PROVE SectionOwned'
  BY <1>14 DEF Finish, Release
<1>15. CASE UNCHANGED vars
  BY <1>15 DEF vars, flags, calls, procVars
<1> HIDE DEF TypeOK, Goto, flags, calls, procVars, LevelsHeld, SectionOwned
<1>. QED
  BY <1>1, <1>2, <1>3, <1>4, <1>5, <1>6, <1>7, <1>8, <1>9, <1>10, <1>11,
     <1>12, <1>13, <1>14, <1>15
     DEF Next, Program, Library

\* Whoever wins the claim, the thread itself or the one that suspended it,
\* is the only one that ever does.
LEMMA EntriesStep == IInv /\ [Next]_vars => EntriesClaimed'
<1> SUFFICES ASSUME IInv, [Next]_vars PROVE EntriesClaimed'
  OBVIOUS
<1>0. TypeOK /\ EntriesClaimed
  BY DEF IInv
<1> USE <1>0, Levels, CancelAssumption
      DEF TypeOK, Goto, flags, calls, procVars, EntriesClaimed
<1>1. ASSUME NEW t \in Threads, NEW u \in Threads,
            NEW o \in {"state", "type", "test", "cancel"}, Enter(t, o, u)
     PROVE  EntriesClaimed'
  BY <1>1 DEF Enter
<1>2. ASSUME NEW t \in Threads, Claim(t) PROVE EntriesClaimed'
  BY <1>2, SMTT(30) DEF Claim
<1>3. ASSUME NEW t \in Threads, Redirect(t) PROVE EntriesClaimed'
  BY <1>3, SMTT(30) DEF Redirect, Consumed, Interruptible
<1>4. ASSUME NEW t \in Threads,
               \/ RunApc(t)
               \/ Unsafe(t)
               \/ Return(t)
               \/ Acquire(t)
               \/ SetState(t)
               \/ SetType(t)
     PROVE  EntriesClaimed'
  BY <1>4, SMTT(30) DEF RunApc, Unsafe, Return, Acquire, SetState, SetType, Release
<1>5. ASSUME NEW t \in Threads,
               \/ TestCancel(t)
               \/ CancelApc(t)
               \/ Finish(t)
               \/ PthreadCancel(t)
               \/ Tail(t)
               \/ Check(t)
               \/ ClaimUnsafe(t)
     PROVE  EntriesClaimed'
  BY <1>5 DEF TestCancel, CancelApc, Finish, PthreadCancel, Tail, Check,
         ClaimUnsafe, Release
<1>6. ASSUME NEW t \in Threads,
               \/ Claimed(t)
               \/ FinishEnter(t)
               \/ Terminate(t)
               \/ Suspend(t)
               \/ SuspendFails(t)
               \/ Inspect(t)
     PROVE  EntriesClaimed'
  BY <1>6, SMTT(30) DEF Claimed, FinishEnter, Terminate, Suspend, SuspendFails,
         Inspect
<1>7. ASSUME NEW t \in Threads,
               \/ RedirectFails(t)
               \/ Resume(t)
               \/ ResumeFails(t)
               \/ QueueApc(t)
               \/ Unqueue(t)
     PROVE  EntriesClaimed'
  BY <1>7, SMTT(30) DEF RedirectFails, Resume, ResumeFails, QueueApc, Unqueue
<1>8. CASE UNCHANGED vars
  BY <1>8 DEF vars, flags, calls, procVars
<1> HIDE DEF TypeOK, Goto, flags, calls, procVars, EntriesClaimed
<1>. QED
  BY <1>1, <1>2, <1>3, <1>4, <1>5, <1>6, <1>7, <1>8
     DEF Next, Program, Library

\* Only the thread itself changes its settings, in a section; the decision
\* is made after the section and acted on before the next one.
LEMMA DecisionStep == IInv /\ [Next]_vars => DecisionHolds'
<1> SUFFICES ASSUME IInv, [Next]_vars PROVE DecisionHolds'
  OBVIOUS
<1>0. TypeOK /\ LevelsHeld /\ DecisionHolds
  BY DEF IInv
<1> USE <1>0, Levels, CancelAssumption
      DEF TypeOK, Goto, flags, calls, procVars, DecisionHolds, LevelsHeld
<1>1. ASSUME NEW t \in Threads, NEW u \in Threads,
            NEW o \in {"state", "type", "test", "cancel"}, Enter(t, o, u)
     PROVE  DecisionHolds'
  BY <1>1, SMTT(30) DEF Enter
<1>2. ASSUME NEW t \in Threads, RunApc(t) PROVE DecisionHolds'
  BY <1>2, SMTT(30) DEF RunApc
<1>3. ASSUME NEW t \in Threads, SetState(t) PROVE DecisionHolds'
  BY <1>3, SMTT(30) DEF SetState, Release
<1>4. ASSUME NEW t \in Threads, SetType(t) PROVE DecisionHolds'
  BY <1>4, SMTT(30) DEF SetType, Release
<1>5. ASSUME NEW t \in Threads, TestCancel(t) PROVE DecisionHolds'
  BY <1>5, SMTT(30) DEF TestCancel, Release
<1>6. ASSUME NEW t \in Threads, CancelApc(t) PROVE DecisionHolds'
  BY <1>6, SMTT(30) DEF CancelApc, Release
<1>7. ASSUME NEW t \in Threads, PthreadCancel(t) PROVE DecisionHolds'
  BY <1>7, SMTT(30) DEF PthreadCancel, Release
<1>8. ASSUME NEW t \in Threads, Tail(t) PROVE DecisionHolds'
  BY <1>8, SMTT(30) DEF Tail
<1>9. ASSUME NEW t \in Threads, Check(t) PROVE DecisionHolds'
  BY <1>9, SMTT(30) DEF Check, AsyncDue, Onward
<1>10. ASSUME NEW t \in Threads, Claim(t) PROVE DecisionHolds'
  BY <1>10, SMTT(30) DEF Claim, Onward
<1>11. ASSUME NEW t \in Threads, Redirect(t) PROVE DecisionHolds'
  BY <1>11, SMTT(30) DEF Redirect, Consumed, Interruptible
<1>12. ASSUME NEW t \in Threads, Claimed(t) PROVE DecisionHolds'
  BY <1>12, SMTT(30) DEF Claimed
<1>13. ASSUME NEW t \in Threads,
               \/ Unsafe(t)
               \/ Return(t)
               \/ Acquire(t)
               \/ ClaimUnsafe(t)
               \/ Terminate(t)
     PROVE  DecisionHolds'
  BY <1>13, SMTT(30) DEF Unsafe, Return, Acquire, ClaimUnsafe, Terminate
<1>14. ASSUME NEW t \in Threads,
               \/ Suspend(t)
               \/ SuspendFails(t)
               \/ Inspect(t)
               \/ RedirectFails(t)
               \/ Resume(t)
               \/ QueueApc(t)
     PROVE  DecisionHolds'
  BY <1>14, SMTT(30) DEF Suspend, SuspendFails, Inspect, RedirectFails, Resume,
         QueueApc
<1>15. ASSUME NEW t \in Threads, Unqueue(t) PROVE DecisionHolds'
  BY <1>15, SMTT(30) DEF Unqueue
<1>16. ASSUME NEW t \in Threads, FinishEnter(t) PROVE DecisionHolds'
  BY <1>16, SMTT(30) DEF FinishEnter
<1>17. ASSUME NEW t \in Threads, Finish(t) PROVE DecisionHolds'
  BY <1>17, SMTT(30) DEF Finish, Release
<1>18. ASSUME NEW t \in Threads, ResumeFails(t) PROVE DecisionHolds'
  BY <1>18, SMTT(30) DEF ResumeFails
<1>19. CASE UNCHANGED vars
  BY <1>19 DEF vars, flags, calls, procVars
<1> HIDE DEF TypeOK, Goto, flags, calls, procVars, DecisionHolds, LevelsHeld
<1>. QED
  BY <1>1, <1>2, <1>3, <1>4, <1>5, <1>6, <1>7, <1>8, <1>9, <1>10, <1>11,
     <1>12, <1>13, <1>14, <1>15, <1>16, <1>17, <1>18, <1>19
     DEF Next, Program, Library

\* A thread is redirected only at deferral depth 0, so it is not between its
\* own NtSuspendThread and NtResumeThread, where it holds one level.
LEMMA RedirectBracketed ==
  ASSUME TypeOK, LevelsHeld, SuspensionBracketed, NEW t \in Threads, Redirect(t)
  PROVE  SuspensionBracketed'
<1>1. depth[arg[t]] = 0
  BY DEF Redirect, Interruptible
<1>2. arg[t] \in Threads
  BY DEF TypeOK
<1>3. pc[arg[t]] \notin {"inspect", "resume", "resumeQueue", "resumeAbort"}
  BY <1>1, <1>2, SMTT(30) DEF LevelsHeld
<1>4. \A v \in Threads : v \notin {t, arg[t]} => pc'[v] = pc[v]
  BY DEF Redirect, TypeOK
<1>5. t # arg[t] => pc'[t] = "resume"
  BY DEF Redirect, TypeOK
<1>6. suspenders' = suspenders /\ arg' = arg
  BY DEF Redirect
<1>7. \A u \in Threads : suspenders[u] \subseteq Threads \ {arg[t]}
  BY <1>3, SMTT(30) DEF SuspensionBracketed, TypeOK
<1>8. SUFFICES ASSUME NEW u \in Threads, NEW v \in suspenders[u]
               PROVE  /\ arg[v] = u
                      /\ pc'[v] \in {"inspect", "resume", "resumeQueue",
                                     "resumeAbort"}
  BY <1>6 DEF SuspensionBracketed
<1>9. v \in Threads /\ v # arg[t]
  BY <1>7
<1>10. arg[v] = u /\ pc[v] \in {"inspect", "resume", "resumeQueue", "resumeAbort"}
  BY <1>8 DEF SuspensionBracketed
<1>. QED
  BY <1>4, <1>5, <1>9, <1>10

\* On NT a suspender holds its own level, so it cannot be redirected away
\* before it has resumed its target.
LEMMA BracketStep == IInv /\ NT /\ [Next]_vars => SuspensionBracketed'
<1> SUFFICES ASSUME IInv, NT, [Next]_vars PROVE SuspensionBracketed'
  OBVIOUS
<1>0. TypeOK /\ LevelsHeld /\ SuspensionBracketed
  BY DEF IInv
<1> USE <1>0, Levels, CancelAssumption
      DEF TypeOK, Goto, flags, calls, procVars, SuspensionBracketed,
          LevelsHeld
<1>1. ASSUME NEW t \in Threads, NEW u \in Threads,
            NEW o \in {"state", "type", "test", "cancel"}, Enter(t, o, u)
     PROVE  SuspensionBracketed'
  BY <1>1, SMTT(30) DEF Enter
<1>2. ASSUME NEW t \in Threads, RunApc(t) PROVE SuspensionBracketed'
  BY <1>2, SMTT(30) DEF RunApc
<1>3. ASSUME NEW t \in Threads, Unsafe(t) PROVE SuspensionBracketed'
  BY <1>3, SMTT(30) DEF Unsafe
<1>4. ASSUME NEW t \in Threads, Return(t) PROVE SuspensionBracketed'
  BY <1>4, SMTT(30) DEF Return
<1>5. ASSUME NEW t \in Threads, Acquire(t) PROVE SuspensionBracketed'
  BY <1>5, SMTT(30) DEF Acquire
<1>6. ASSUME NEW t \in Threads, SetState(t) PROVE SuspensionBracketed'
  BY <1>6, SMTT(30) DEF SetState, Release
<1>7. ASSUME NEW t \in Threads, SetType(t) PROVE SuspensionBracketed'
  BY <1>7, SMTT(30) DEF SetType, Release
<1>8. ASSUME NEW t \in Threads, TestCancel(t) PROVE SuspensionBracketed'
  BY <1>8, SMTT(30) DEF TestCancel, Release
<1>9. ASSUME NEW t \in Threads, CancelApc(t) PROVE SuspensionBracketed'
  BY <1>9, SMTT(30) DEF CancelApc, Release
<1>10. ASSUME NEW t \in Threads, PthreadCancel(t) PROVE SuspensionBracketed'
  BY <1>10, SMTT(30) DEF PthreadCancel, Release
<1>11. ASSUME NEW t \in Threads, Tail(t) PROVE SuspensionBracketed'
  BY <1>11, SMTT(30) DEF Tail
<1>12. ASSUME NEW t \in Threads, Check(t) PROVE SuspensionBracketed'
  BY <1>12, SMTT(30) DEF Check, AsyncDue, Onward
<1>13. ASSUME NEW t \in Threads, ClaimUnsafe(t) PROVE SuspensionBracketed'
  BY <1>13 DEF ClaimUnsafe
<1>14. ASSUME NEW t \in Threads, Claim(t) PROVE SuspensionBracketed'
  BY <1>14, SMTT(30) DEF Claim, Onward
<1>15. ASSUME NEW t \in Threads, Claimed(t) PROVE SuspensionBracketed'
  BY <1>15, SMTT(30) DEF Claimed
<1>16. ASSUME NEW t \in Threads, Finish(t) PROVE SuspensionBracketed'
  BY <1>16, SMTT(30) DEF Finish, Release
<1>17. ASSUME NEW t \in Threads, Terminate(t) PROVE SuspensionBracketed'
  BY <1>17, SMTT(30) DEF Terminate
<1>18. ASSUME NEW t \in Threads, Suspend(t) PROVE SuspensionBracketed'
  BY <1>18, SMTT(30) DEF Suspend
<1>19. ASSUME NEW t \in Threads, SuspendFails(t) PROVE SuspensionBracketed'
  BY <1>19, SMTT(30) DEF SuspendFails
<1>20. ASSUME NEW t \in Threads, Inspect(t) PROVE SuspensionBracketed'
  BY <1>20, SMTT(30) DEF Inspect, Consumed, Interruptible
<1>21. ASSUME NEW t \in Threads, Redirect(t) PROVE SuspensionBracketed'
  BY <1>21, RedirectBracketed
<1>22. ASSUME NEW t \in Threads, RedirectFails(t) PROVE SuspensionBracketed'
  BY <1>22, SMTT(30) DEF RedirectFails
<1>23. ASSUME NEW t \in Threads, Resume(t) PROVE SuspensionBracketed'
  BY <1>23, SMTT(30) DEF Resume
<1>24. ASSUME NEW t \in Threads, QueueApc(t) PROVE SuspensionBracketed'
  BY <1>24, SMTT(30) DEF QueueApc
<1>25. ASSUME NEW t \in Threads, Unqueue(t) PROVE SuspensionBracketed'
  BY <1>25, SMTT(30) DEF Unqueue
<1>26. ASSUME NEW t \in Threads, FinishEnter(t) PROVE SuspensionBracketed'
  BY <1>26, SMTT(30) DEF FinishEnter
<1>27. ASSUME NEW t \in Threads, ResumeFails(t) PROVE SuspensionBracketed'
  BY <1>27, SMTT(30) DEF ResumeFails
<1>28. CASE UNCHANGED vars
  BY <1>28, SMTT(30) DEF vars, flags, calls, procVars
<1> HIDE DEF TypeOK, Goto, flags, calls, procVars, SuspensionBracketed, LevelsHeld
<1>. QED
  BY <1>1, <1>2, <1>3, <1>4, <1>5, <1>6, <1>7, <1>8, <1>9, <1>10, <1>11,
     <1>12, <1>13, <1>14, <1>15, <1>16, <1>17, <1>18, <1>19, <1>20, <1>21,
     <1>22, <1>23, <1>24, <1>25, <1>26, <1>27, <1>28
     DEF Next, Program, Library

\* The invariant holds in every reachable state, on both backends.
THEOREM CancelInvariant == Spec => []IInv
<1>1. IInv /\ [Next]_vars => IInv'
  BY TypeStep, LevelsStep, SectionStep, EntriesStep, DecisionStep, BracketStep
     DEF IInv
<1>. QED
  BY InitInv, <1>1, PTL DEF Spec

\* A thread enters the cleanup of cancel_current_claimed() once.
THEOREM CancelCleanupOnce == Spec => []CleanupOnce
<1>1. IInv => CleanupOnce
  BY SMTT(30) DEF IInv, EntriesClaimed, CleanupOnce
<1>. QED
  BY CancelInvariant, <1>1, PTL

\* No thread is redirected while it owns the fast lock.
THEOREM CancelLockNotAbandoned == Spec => []LockNotAbandoned
<1>1. IInv => LockNotAbandoned
  BY DEF IInv, TypeOK, SectionOwned, LockNotAbandoned
<1>. QED
  BY CancelInvariant, <1>1, PTL

\* On NT a suspension ends with the pthread_cancel() that asked for it, unless
\* NtResumeThread fails (on Linux it does not end: the run cancel_linux).
THEOREM CancelSuspensionBracketed ==
  ASSUME NT
  PROVE  Spec => []SuspensionBracketed
<1>1. IInv => SuspensionBracketed
  BY DEF IInv
<1>. QED
  BY CancelInvariant, <1>1, PTL

\* A thread goes into cleanup, other than at a cancellation point of its own,
\* only with asynchronous cancellation enabled at that moment.
THEOREM CancelInterruptedOnlyAsync == Spec => InterruptedOnlyAsync
<1> DEFINE Justified ==
      \A t \in Threads :
        entries'[t] # entries[t] =>
          state[t] /\ (async[t] \/ (pc[t] = "claim" /\ op[t] = "test"))
<1>1. IInv /\ [Next]_vars => [Justified]_vars
  <2> SUFFICES ASSUME IInv, Next PROVE Justified
    OBVIOUS
  <2>1. PICK t \in Threads : Program(t) \/ Library(t)
    BY DEF Next
  <2>2. CASE Claim(t)
    BY <2>2 DEF Claim, IInv, TypeOK, DecisionHolds
  <2>3. CASE Redirect(t)
    BY <2>3 DEF Redirect, Interruptible, IInv, TypeOK
  <2>4. CASE ~Claim(t) /\ ~Redirect(t)
    <3>1. entries' = entries
      BY <2>1, <2>4
         DEF Program, Library, Enter, RunApc, Unsafe, Return, Acquire, Release,
             SetState, SetType, TestCancel, CancelApc, PthreadCancel, Tail,
             Check, ClaimUnsafe, Claimed, FinishEnter, Finish, Terminate,
             Suspend, SuspendFails, Inspect, RedirectFails, Resume,
             ResumeFails, QueueApc, Unqueue
    <3>. QED
      BY <3>1
  <2>. QED
    BY <2>2, <2>3, <2>4
<1>. QED
  BY CancelInvariant, <1>1, PTL DEF Spec, InterruptedOnlyAsync
=============================================================================

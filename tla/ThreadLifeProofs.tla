--------------------------- MODULE ThreadLifeProofs ---------------------------
(***************************************************************************)
(* Creation, end, join and detach of threads, for any finite set of them:  *)
(* handles are closed once and reclaimed, a joiner sees the end of its     *)
(* target, and live_threads counts the threads that can still run.         *)
(***************************************************************************)
EXTENDS ThreadLife, FiniteSetTheorems, TLAPS

\* The prover of the leaves that name no other.
USE ZenonT(30)

\* Init establishes the invariant: the initial thread runs without a control
\* block.
LEMMA InitInv == Init => IInv
<1> SUFFICES ASSUME Init PROVE IInv
  OBVIOUS
<1>1. TypeOK
  <2>1. 0 \in Nat /\ 0 \in Int
    BY SMTT(30)
  <2>. QED
    BY <2>1, ThreadsAssumption DEF Init, TypeOK, ThreadStates, Requests
<1>2. EndsSound /\ BlocksSound /\ HandleLeft
  BY SMTT(30)
     DEF Init, EndsSound, BlocksSound, HandleLeft, LeftOpen, LeaveStates
<1>5. CreatorsSound /\ JoinersSound /\ DetachersSound
  BY SMTT(30) DEF Init, CreatorsSound, JoinersSound, DetachersSound,
         Claiming, JoinStates
<1>3. Countable = {} /\ FinishedTwice = {}
  BY DEF Init, Countable, FinishedTwice
<1>4. LiveCounted
  <2>1. Cardinality(Countable) = 0 /\ Cardinality(FinishedTwice) = 0
    BY <1>3, FS_EmptySet
  <2>. QED
    BY <2>1, SMTT(30) DEF Init, LiveCounted
<1>. QED
  BY <1>1, <1>2, <1>5, <1>4 DEF IInv

\* The threads that count are finitely many, and so are those that were taken
\* off the count twice.
LEMMA CountableFinite ==
  TypeOK => /\ IsFiniteSet(Countable) /\ IsFiniteSet(FinishedTwice)
            /\ Cardinality(Countable) \in Nat
            /\ Cardinality(FinishedTwice) \in Nat
<1> SUFFICES ASSUME TypeOK
             PROVE  /\ IsFiniteSet(Countable) /\ IsFiniteSet(FinishedTwice)
                    /\ Cardinality(Countable) \in Nat
                    /\ Cardinality(FinishedTwice) \in Nat
  OBVIOUS
<1>1. Countable \subseteq Threads /\ FinishedTwice \subseteq Threads
  BY DEF TypeOK, Countable, FinishedTwice
<1>2. IsFiniteSet(Countable) /\ IsFiniteSet(FinishedTwice)
  BY <1>1, FS_Subset, ThreadsAssumption
<1>. QED
  BY <1>2, FS_CardinalityType

\* A handle that is there, on which nobody has a claim, is open.
LEMMA FreeHandle ==
  ASSUME TypeOK, BlocksSound, NEW u \in Threads,
         handle[u], ~joining[u], ~detached[u]
  PROVE  closes[u] = 0
  BY DEF BlocksSound

\* Every step keeps the types.
LEMMA TypeStep == IInv /\ [Next]_vars => TypeOK'
<1> SUFFICES ASSUME IInv, [Next]_vars PROVE TypeOK'
  OBVIOUS
<1>0. TypeOK
  BY DEF IInv
<1> USE <1>0
    DEF TypeOK, flagVars, Goto, ThreadStates, JoinStates, LeaveStates, Requests
<1>1. ASSUME NEW t \in Threads, Current(t) PROVE TypeOK'
  BY <1>1, SMTT(30) DEF Current
<1>2. ASSUME NEW t \in Threads, NEW u \in Threads, NEW d \in BOOLEAN,
            Spawn(t, u, d) PROVE TypeOK'
  BY <1>2 DEF Spawn
<1>3. ASSUME NEW t \in Threads, Count(t) PROVE TypeOK'
  BY <1>3, SMTT(30) DEF Count
<1>4. ASSUME NEW t \in Threads, Resume(t) PROVE TypeOK'
  BY <1>4 DEF Resume
<1>5. ASSUME NEW t \in Threads, ResumeFails(t) PROVE TypeOK'
  BY <1>5, SMTT(30) DEF ResumeFails, Close
<1>6. ASSUME NEW t \in Threads, Uncount(t) PROVE TypeOK'
  BY <1>6, SMTT(30) DEF Uncount
<1>7. ASSUME NEW t \in Threads, FinishEnter(t) PROVE TypeOK'
  BY <1>7, SMTT(30) DEF FinishEnter
<1>8. ASSUME NEW t \in Threads, Finish(t) PROVE TypeOK'
  BY <1>8, SMTT(30) DEF Finish
<1>9. ASSUME NEW t \in Threads, LeaveDelivers(t) PROVE TypeOK'
  BY <1>9, SMTT(30) DEF LeaveDelivers
<1>10. ASSUME NEW t \in Threads, Leave(t) PROVE TypeOK'
  BY <1>10, SMTT(30) DEF Leave
<1>11. ASSUME NEW t \in Threads, TailClose(t) PROVE TypeOK'
  BY <1>11, SMTT(30) DEF TailClose, Close
<1>12. ASSUME NEW t \in Threads, TailHandle(t) PROVE TypeOK'
  BY <1>12 DEF TailHandle
<1>13. ASSUME NEW t \in Threads, NEW u \in Threads, CancelLate(t, u)
     PROVE  TypeOK'
  BY <1>13, SMTT(30) DEF CancelLate, Visible
<1>14. ASSUME NEW t \in Threads, NEW u \in Threads, Join(t, u) PROVE TypeOK'
  BY <1>14 DEF Join, Visible
<1>15. ASSUME NEW t \in Threads, JoinWaitOk(t) PROVE TypeOK'
  BY <1>15 DEF JoinWaitOk
<1>16. ASSUME NEW t \in Threads, JoinCanceled(t) PROVE TypeOK'
  BY <1>16 DEF JoinCanceled
<1>17. ASSUME NEW t \in Threads, JoinError(t) PROVE TypeOK'
  BY <1>17 DEF JoinError
<1>18. ASSUME NEW t \in Threads, JoinClose(t) PROVE TypeOK'
  BY <1>18, SMTT(30) DEF JoinClose, Close
<1>19. ASSUME NEW t \in Threads, JoinHandle(t) PROVE TypeOK'
  BY <1>19 DEF JoinHandle
<1>20. ASSUME NEW t \in Threads, JoinFlag(t) PROVE TypeOK'
  BY <1>20 DEF JoinFlag
<1>21. ASSUME NEW t \in Threads, JoinLast(t) PROVE TypeOK'
  BY <1>21 DEF JoinLast
<1>22. ASSUME NEW t \in Threads, NEW u \in Threads, Detach(t, u)
     PROVE  TypeOK'
  BY <1>22 DEF Detach, Visible
<1>23. ASSUME NEW t \in Threads, DetachClose(t) PROVE TypeOK'
  BY <1>23, SMTT(30) DEF DetachClose, Close
<1>24. ASSUME NEW t \in Threads, DetachHandle(t) PROVE TypeOK'
  BY <1>24 DEF DetachHandle
<1>25. CASE UNCHANGED vars
  BY <1>25 DEF vars
<1> HIDE
   DEF TypeOK, flagVars, Goto, ThreadStates, JoinStates, LeaveStates,
       Requests
<1>. QED
  BY <1>1, <1>2, <1>3, <1>4, <1>5, <1>6, <1>7, <1>8, <1>9, <1>10, <1>11,
     <1>12, <1>13, <1>14, <1>15, <1>16, <1>17, <1>18, <1>19, <1>20, <1>21,
     <1>22, <1>23, <1>24, <1>25, SMTT(30)
     DEF Next, Step

\* exited and the request follow the thread through finish(), once or twice.
LEMMA EndsStep == IInv /\ [Next]_vars => EndsSound'
<1> SUFFICES ASSUME IInv, [Next]_vars PROVE EndsSound'
  OBVIOUS
<1>0. TypeOK /\ EndsSound /\ CreatorsSound /\ JoinersSound /\ DetachersSound
  BY DEF IInv
<1> USE <1>0
    DEF TypeOK, flagVars, Goto, EndsSound, LeaveStates
<1>1. ASSUME NEW t \in Threads,
            Current(t) \/ Count(t) \/ Uncount(t) \/
              FinishEnter(t)
     PROVE  EndsSound'
  BY <1>1, SMTT(30) DEF Current, Count, Uncount, FinishEnter
<1>2. ASSUME NEW t \in Threads, NEW u \in Threads, NEW d \in BOOLEAN,
            Spawn(t, u, d) PROVE EndsSound'
  BY <1>2, SMTT(30) DEF Spawn
<1>3. ASSUME NEW t \in Threads, Resume(t) PROVE EndsSound'
  BY <1>3, SMTT(30) DEF Resume, CreatorsSound
<1>4. ASSUME NEW t \in Threads, ResumeFails(t) PROVE EndsSound'
  BY <1>4, SMTT(30) DEF ResumeFails, Close, CreatorsSound
<1>5. ASSUME NEW t \in Threads,
            Finish(t) \/ LeaveDelivers(t) \/ Leave(t) \/
              TailHandle(t)
     PROVE  EndsSound'
  BY <1>5, SMTT(30) DEF Finish, LeaveDelivers, Leave, TailHandle
<1>6. ASSUME NEW t \in Threads, TailClose(t) PROVE EndsSound'
  BY <1>6, SMTT(30) DEF TailClose, Close
<1>7. ASSUME NEW t \in Threads, NEW u \in Threads,
            CancelLate(t, u) \/ Join(t, u) \/ Detach(t, u)
     PROVE  EndsSound'
  BY <1>7, SMTT(30) DEF CancelLate, Join, Detach, Visible
<1>8. ASSUME NEW t \in Threads, JoinWaitOk(t) PROVE EndsSound'
  BY <1>8, SMTT(30) DEF JoinWaitOk
<1>9. ASSUME NEW t \in Threads,
            JoinCanceled(t) \/ JoinError(t) \/ JoinHandle(t) \/
              JoinFlag(t)
     PROVE  EndsSound'
  BY <1>9, SMTT(30) DEF JoinCanceled, JoinError, JoinHandle, JoinFlag,
     JoinersSound, Claiming, JoinStates
<1>10. ASSUME NEW t \in Threads, JoinClose(t) PROVE EndsSound'
  BY <1>10, SMTT(30) DEF JoinClose, Close, JoinersSound, Claiming, JoinStates
<1>11. ASSUME NEW t \in Threads, JoinLast(t) PROVE EndsSound'
  BY <1>11, SMTT(30) DEF JoinLast, JoinersSound, Claiming, JoinStates
<1>12. ASSUME NEW t \in Threads, DetachClose(t) PROVE EndsSound'
  BY <1>12, SMTT(30) DEF DetachClose, Close, DetachersSound
<1>13. ASSUME NEW t \in Threads, DetachHandle(t) PROVE EndsSound'
  BY <1>13, SMTT(30) DEF DetachHandle, DetachersSound
<1>14. CASE UNCHANGED vars
  BY <1>14, SMTT(30) DEF vars
<1> HIDE DEF TypeOK, flagVars, Goto, EndsSound, LeaveStates
<1>. QED
  BY <1>1, <1>2, <1>3, <1>4, <1>5, <1>6, <1>7, <1>8, <1>9, <1>10, <1>11,
     <1>12, <1>13, <1>14
     DEF Next, Step

\* Every store keeps the control blocks sound, those made after the lock was
\* released included.
LEMMA BlocksStep == IInv /\ [Next]_vars => BlocksSound'
<1> SUFFICES ASSUME IInv, [Next]_vars PROVE BlocksSound'
  OBVIOUS
<1>0. /\ TypeOK /\ EndsSound /\ BlocksSound
      /\ CreatorsSound /\ JoinersSound /\ DetachersSound
  BY DEF IInv
<1> USE <1>0
    DEF TypeOK, flagVars, Goto, BlocksSound, LeaveStates
<1>1. ASSUME NEW t \in Threads,
            Current(t) \/ Count(t) \/ Uncount(t)
     PROVE  BlocksSound'
  BY <1>1, SMTT(30) DEF Current, Count, Uncount
<1>2. ASSUME NEW t \in Threads, NEW u \in Threads, NEW d \in BOOLEAN,
            Spawn(t, u, d) PROVE BlocksSound'
  BY <1>2, SMTT(30) DEF Spawn, EndsSound
<1>3. ASSUME NEW t \in Threads, Resume(t) PROVE BlocksSound'
  BY <1>3, SMTT(30) DEF Resume, CreatorsSound
<1>4. ASSUME NEW t \in Threads, ResumeFails(t) PROVE BlocksSound'
  BY <1>4, SMTT(30) DEF ResumeFails, Close, CreatorsSound, EndsSound
<1>5. ASSUME NEW t \in Threads,
            FinishEnter(t) \/ TailHandle(t) \/ JoinWaitOk(t)
     PROVE  BlocksSound'
  BY <1>5, SMTT(30) DEF FinishEnter, TailHandle, JoinWaitOk
<1>6. ASSUME NEW t \in Threads,
            Finish(t) \/ LeaveDelivers(t) \/ Leave(t)
     PROVE  BlocksSound'
  BY <1>6, SMTT(30) DEF Finish, LeaveDelivers, Leave, EndsSound
<1>7. ASSUME NEW t \in Threads, TailClose(t) PROVE BlocksSound'
  BY <1>7, SMTT(30) DEF TailClose, Close, EndsSound
<1>8. ASSUME NEW t \in Threads, NEW u \in Threads,
            CancelLate(t, u) \/ Join(t, u) \/ Detach(t, u)
     PROVE  BlocksSound'
  BY <1>8, SMTT(30) DEF CancelLate, Join, Detach, Visible
<1>9. ASSUME NEW t \in Threads, JoinCanceled(t) PROVE BlocksSound'
  BY <1>9, SMTT(30)
     DEF JoinCanceled, JoinersSound, Claiming, JoinStates, EndsSound
<1>10. ASSUME NEW t \in Threads,
            JoinError(t) \/ JoinHandle(t) \/ JoinFlag(t)
     PROVE  BlocksSound'
  BY <1>10, SMTT(30) DEF JoinError, JoinHandle, JoinFlag, JoinersSound,
     Claiming, JoinStates
<1>11. ASSUME NEW t \in Threads, JoinClose(t) PROVE BlocksSound'
  BY <1>11, SMTT(30)
     DEF JoinClose, Close, JoinersSound, Claiming, JoinStates, EndsSound
<1>12. ASSUME NEW t \in Threads, JoinLast(t) PROVE BlocksSound'
  BY <1>12, SMTT(30) DEF JoinLast, JoinersSound, Claiming, JoinStates
<1>13. ASSUME NEW t \in Threads, DetachClose(t) PROVE BlocksSound'
  <2>1. /\ detached[arg[t]] /\ exited[arg[t]] /\ arg[t] \in known
        /\ request[arg[t]] # "late" => closes[arg[t]] = 0 /\ handle[arg[t]]
        /\ pc[arg[t]] \notin {"leavedetached", "tailclose"} \/ request[arg[t]] = "late"
    BY <1>13, SMTT(30) DEF DetachClose, DetachersSound, EndsSound
  <2>2. ~joined[arg[t]]
    BY <1>13 DEF DetachClose, DetachersSound
  <2>. QED
    BY <1>13, <2>1, <2>2, SMTT(30) DEF DetachClose, Close
<1>14. ASSUME NEW t \in Threads, DetachHandle(t) PROVE BlocksSound'
  BY <1>14, SMTT(30) DEF DetachHandle, DetachersSound
<1>15. CASE UNCHANGED vars
  BY <1>15, SMTT(30) DEF vars
<1> HIDE DEF TypeOK, flagVars, Goto, BlocksSound, LeaveStates
<1>. QED
  BY <1>1, <1>2, <1>3, <1>4, <1>5, <1>6, <1>7, <1>8, <1>9, <1>10, <1>11,
     <1>12, <1>13, <1>14, <1>15
     DEF Next, Step

\* What a step has to keep for HandleLeft: it leaves no further handle open, and
\* nobody gives up one that is still open.
LEMMA HandleLeftFrame ==
  ASSUME HandleLeft,
         \A u \in Threads : LeftOpen(u)' =>
           /\ LeftOpen(u)
           /\ \A v \in Threads : arg[v] = u /\ pc[v] = "detachclose" =>
                arg'[v] = u /\ pc'[v] = "detachclose"
  PROVE  HandleLeft'
  BY DEF HandleLeft

\* A thread that leaves finish() without closing its handle was not detached
\* before, or had its handle closed.
LEMMA HandleLeftStep == IInv /\ [Next]_vars => HandleLeft'
<1> SUFFICES ASSUME IInv, [Next]_vars PROVE HandleLeft'
  OBVIOUS
<1>0. /\ TypeOK /\ EndsSound /\ BlocksSound /\ HandleLeft
      /\ CreatorsSound /\ DetachersSound
  BY DEF IInv
<1> DEFINE Keeps ==
      \A u \in Threads : LeftOpen(u)' =>
        /\ LeftOpen(u)
        /\ \A v \in Threads : arg[v] = u /\ pc[v] = "detachclose" =>
             arg'[v] = u /\ pc'[v] = "detachclose"
<1> USE <1>0 DEF TypeOK, flagVars, Goto, LeftOpen
<1>1. ASSUME NEW t \in Threads, Current(t) PROVE Keeps
  BY <1>1, SMTT(30) DEF Current
<1>2. ASSUME NEW t \in Threads, NEW u \in Threads, NEW d \in BOOLEAN,
            Spawn(t, u, d) PROVE Keeps
  BY <1>2, SMTT(30) DEF Spawn, EndsSound
<1>3. ASSUME NEW t \in Threads, Count(t) PROVE Keeps
  BY <1>3, SMTT(30) DEF Count
<1>4. ASSUME NEW t \in Threads, Resume(t) PROVE Keeps
  BY <1>4, SMTT(30) DEF Resume, CreatorsSound
<1>5. ASSUME NEW t \in Threads, ResumeFails(t) PROVE Keeps
  BY <1>5, SMTT(30) DEF ResumeFails, Close
<1>6. ASSUME NEW t \in Threads, Uncount(t) PROVE Keeps
  BY <1>6, SMTT(30) DEF Uncount
<1>7. ASSUME NEW t \in Threads, FinishEnter(t) PROVE Keeps
  BY <1>7, SMTT(30) DEF FinishEnter
<1>8. ASSUME NEW t \in Threads, ~processDone, Finish(t) PROVE Keeps
  BY <1>8, SMTT(30) DEF Finish
<1>9. ASSUME NEW t \in Threads, LeaveDelivers(t) PROVE Keeps
  BY <1>9, SMTT(30) DEF LeaveDelivers, LeaveStates
<1>10. ASSUME NEW t \in Threads, ~processDone, Leave(t) PROVE Keeps
  BY <1>10, SMTT(30) DEF Leave, LeaveStates
<1>11. ASSUME NEW t \in Threads, TailClose(t) PROVE Keeps
  BY <1>11, SMTT(30) DEF TailClose, Close, BlocksSound, EndsSound
<1>12. ASSUME NEW t \in Threads, TailHandle(t) PROVE Keeps
  BY <1>12, SMTT(30) DEF TailHandle, BlocksSound
<1>13. ASSUME NEW t \in Threads, NEW u \in Threads, CancelLate(t, u)
     PROVE  Keeps
  BY <1>13, SMTT(30) DEF CancelLate, Visible
<1>14. ASSUME NEW t \in Threads, NEW u \in Threads, Join(t, u)
     PROVE  Keeps
  BY <1>14, SMTT(30) DEF Join, Visible
<1>15. ASSUME NEW t \in Threads, JoinWaitOk(t) PROVE Keeps
  BY <1>15, SMTT(30) DEF JoinWaitOk
<1>16. ASSUME NEW t \in Threads, JoinCanceled(t) PROVE Keeps
  BY <1>16, SMTT(30) DEF JoinCanceled
<1>17. ASSUME NEW t \in Threads, JoinError(t) PROVE Keeps
  BY <1>17, SMTT(30) DEF JoinError
<1>18. ASSUME NEW t \in Threads, JoinClose(t) PROVE Keeps
  BY <1>18, SMTT(30) DEF JoinClose, Close
<1>19. ASSUME NEW t \in Threads, JoinHandle(t) PROVE Keeps
  BY <1>19, SMTT(30) DEF JoinHandle
<1>20. ASSUME NEW t \in Threads, JoinFlag(t) PROVE Keeps
  BY <1>20, SMTT(30) DEF JoinFlag
<1>21. ASSUME NEW t \in Threads, JoinLast(t) PROVE Keeps
  BY <1>21, SMTT(30) DEF JoinLast
<1>22. ASSUME NEW t \in Threads, NEW u \in Threads, Detach(t, u)
     PROVE  HandleLeft'
  <2>1. \A v \in Threads : v # t => pc'[v] = pc[v] /\ arg'[v] = arg[v]
    BY <1>22 DEF Detach
  <2>2. \A v \in Threads : v # u => (LeftOpen(v)' => LeftOpen(v))
    BY <1>22, SMTT(30) DEF Detach
  <2>3. ASSUME LeftOpen(u)' PROVE arg'[t] = u /\ pc'[t] = "detachclose"
    BY <1>22, <2>3, SMTT(30)
       DEF Detach, EndsSound, LeaveStates, BlocksSound, Visible
  <2>4. pc[t] = "run"
    BY <1>22 DEF Detach
  <2> HIDE DEF LeftOpen
  <2>5. ASSUME NEW w \in Threads, LeftOpen(w)'
        PROVE  \E v \in Threads : arg'[v] = w /\ pc'[v] = "detachclose"
    <3>1. CASE w = u
      BY <2>3, <2>5, <3>1
    <3>2. CASE w # u
      <4>1. PICK v \in Threads : arg[v] = w /\ pc[v] = "detachclose"
        BY <2>2, <2>5, <3>2 DEF HandleLeft
      <4>2. v # t
        BY <2>4, <4>1
      <4>. QED
        BY <2>1, <4>1, <4>2
    <3>. QED
      BY <3>1, <3>2
  <2>. QED
    BY <2>5 DEF HandleLeft
<1>23. ASSUME NEW t \in Threads, DetachClose(t) PROVE Keeps
  BY <1>23, SMTT(30)
     DEF DetachClose, Close, DetachersSound, EndsSound, BlocksSound
<1>24. ASSUME NEW t \in Threads, DetachHandle(t) PROVE Keeps
  BY <1>24, SMTT(30) DEF DetachHandle
<1>25. CASE UNCHANGED vars
  BY <1>25 DEF vars, HandleLeft
<1> HIDE DEF TypeOK, flagVars, Goto, LeftOpen
<1>26. Keeps => HandleLeft'
  BY HandleLeftFrame
<1> HIDE DEF Keeps
<1>. QED
  BY <1>1, <1>2, <1>3, <1>4, <1>5, <1>6, <1>7, <1>8, <1>9, <1>10, <1>11,
     <1>12, <1>13, <1>14, <1>15, <1>16, <1>17, <1>18, <1>19, <1>20, <1>21,
     <1>22, <1>23, <1>24, <1>25, <1>26
     DEF Next, Step

\* The places of threads that create and of threads not yet resumed.
CreatorPlaces == {"none", "suspended", "spawned", "resume", "unwind"}

\* The steps of a thread that neither creates nor marks a block joined.
Ordinary(t) ==
  \/ FinishEnter(t) \/ Finish(t) \/ LeaveDelivers(t) \/ Leave(t)
  \/ TailClose(t) \/ TailHandle(t)
  \/ \E u \in Threads : CancelLate(t, u) \/ Join(t, u) \/ Detach(t, u)
  \/ JoinWaitOk(t) \/ JoinCanceled(t) \/ JoinError(t)
  \/ JoinClose(t) \/ JoinHandle(t) \/ JoinFlag(t)
  \/ DetachClose(t) \/ DetachHandle(t)

\* Such a step moves no other thread, and nothing that creation is about.
LEMMA OrdinaryApart ==
  ASSUME TypeOK, NEW t \in Threads, Ordinary(t)
  PROVE  /\ \A v \in Threads : v # t => pc'[v] = pc[v] /\ arg'[v] = arg[v]
         /\ pc[t] \notin CreatorPlaces /\ pc'[t] \notin CreatorPlaces
         /\ UNCHANGED <<known, joined>>
<1> DEFINE Apart ==
      /\ \A v \in Threads : v # t => pc'[v] = pc[v] /\ arg'[v] = arg[v]
      /\ pc[t] \notin CreatorPlaces /\ pc'[t] \notin CreatorPlaces
      /\ UNCHANGED <<known, joined>>
<1> USE DEF TypeOK, flagVars, Goto, CreatorPlaces, LeaveStates
<1>1. CASE FinishEnter(t) \/ Finish(t) \/ LeaveDelivers(t) \/ Leave(t)
  BY <1>1, SMTT(30) DEF FinishEnter, Finish, LeaveDelivers, Leave
<1>2. CASE TailClose(t) \/ TailHandle(t)
  BY <1>2, SMTT(30) DEF TailClose, TailHandle
<1>3. CASE \E u \in Threads : CancelLate(t, u) \/ Join(t, u) \/ Detach(t, u)
  BY <1>3, SMTT(30) DEF CancelLate, Join, Detach
<1>4. CASE JoinWaitOk(t) \/ JoinCanceled(t) \/ JoinError(t)
  BY <1>4, SMTT(30) DEF JoinWaitOk, JoinCanceled, JoinError
<1>5. CASE JoinClose(t) \/ JoinHandle(t) \/ JoinFlag(t)
  BY <1>5, SMTT(30) DEF JoinClose, JoinHandle, JoinFlag
<1>6. CASE DetachClose(t) \/ DetachHandle(t)
  BY <1>6, SMTT(30) DEF DetachClose, DetachHandle
<1> HIDE DEF TypeOK, flagVars, Goto, CreatorPlaces, LeaveStates
<1>. QED
  BY <1>1, <1>2, <1>3, <1>4, <1>5, <1>6 DEF Ordinary

\* A creator keeps its new thread to itself until it resumes it or gives up.
LEMMA CreatorsStep == IInv /\ [Next]_vars => CreatorsSound'
<1> SUFFICES ASSUME IInv, [Next]_vars PROVE CreatorsSound'
  OBVIOUS
<1>0. TypeOK /\ EndsSound /\ BlocksSound /\ CreatorsSound
  BY DEF IInv
<1>1. ASSUME NEW t \in Threads, Ordinary(t) PROVE CreatorsSound'
  <2>1. /\ \A v \in Threads : v # t => pc'[v] = pc[v] /\ arg'[v] = arg[v]
        /\ pc[t] \notin CreatorPlaces /\ pc'[t] \notin CreatorPlaces
        /\ known' = known /\ joined' = joined
    BY <1>0, <1>1, OrdinaryApart
  <2>2. \A v \in Threads : arg[v] \in Threads
    BY <1>0 DEF TypeOK
  <2>. QED
    BY <1>0, <2>1, <2>2, SMTT(30) DEF CreatorsSound, CreatorPlaces
<1> USE <1>0 DEF TypeOK, flagVars, Goto, EndsSound, BlocksSound, CreatorsSound
<1>2. ASSUME NEW t \in Threads, Current(t) PROVE CreatorsSound'
  BY <1>2, SMTT(30) DEF Current
<1>3. ASSUME NEW t \in Threads, NEW u \in Threads, NEW d \in BOOLEAN,
            Spawn(t, u, d) PROVE CreatorsSound'
  BY <1>3, SMTT(30) DEF Spawn
<1>4. ASSUME NEW t \in Threads, Count(t) PROVE CreatorsSound'
  BY <1>4, SMTT(30) DEF Count
<1>5. ASSUME NEW t \in Threads, Resume(t) PROVE CreatorsSound'
  BY <1>5, SMTT(30) DEF Resume
<1>6. ASSUME NEW t \in Threads, ResumeFails(t) PROVE CreatorsSound'
  BY <1>6, SMTT(30) DEF ResumeFails
<1>7. ASSUME NEW t \in Threads, Uncount(t) PROVE CreatorsSound'
  BY <1>7, SMTT(30) DEF Uncount
<1>8. ASSUME NEW t \in Threads, JoinLast(t) PROVE CreatorsSound'
  <2>1. pc[arg[t]] = "terminated"
    BY <1>8 DEF JoinLast, IInv, JoinersSound, JoinStates
  <2>. QED
    BY <1>8, <2>1, SMTT(30) DEF JoinLast
<1>9. CASE UNCHANGED vars
  BY <1>9, SMTT(30) DEF vars
<1> HIDE DEF TypeOK, flagVars, Goto, EndsSound, BlocksSound, CreatorsSound
<1>. QED
  BY <1>1, <1>2, <1>3, <1>4, <1>5, <1>6, <1>7, <1>8, <1>9
     DEF Next, Step, Ordinary

\* joining is set and cleared by the one joiner; until then nobody detaches,
\* joins or closes.
LEMMA JoinersStep == IInv /\ [Next]_vars => JoinersSound'
<1> SUFFICES ASSUME IInv, [Next]_vars PROVE JoinersSound'
  OBVIOUS
<1>0. /\ TypeOK /\ EndsSound /\ BlocksSound
      /\ CreatorsSound /\ JoinersSound /\ DetachersSound
  BY DEF IInv
<1> USE <1>0
    DEF TypeOK, flagVars, Goto, JoinersSound, Claiming, JoinStates
<1>1. ASSUME NEW t \in Threads, Current(t) PROVE JoinersSound'
  BY <1>1, SMTT(30) DEF Current
<1>2. ASSUME NEW t \in Threads, NEW u \in Threads, NEW d \in BOOLEAN,
            Spawn(t, u, d) PROVE JoinersSound'
  <2>1. \A v \in Threads :
          pc'[v] \in JoinStates =>
            v # t /\ v # u /\ arg[v] # u /\ pc'[v] = pc[v] /\ arg'[v] = arg[v]
    BY <1>2, SMTT(30) DEF Spawn
  <2>2. \A v \in Threads : v \notin {t, u} => pc'[v] = pc[v] /\ arg'[v] = arg[v]
    BY <1>2, SMTT(30) DEF Spawn
  <2>. QED
    BY <1>2, <2>1, <2>2, SMTT(30) DEF Spawn
<1>3. ASSUME NEW t \in Threads, Count(t) PROVE JoinersSound'
  BY <1>3, SMTT(30) DEF Count
<1>4. ASSUME NEW t \in Threads, Resume(t) PROVE JoinersSound'
  <2>1. pc[arg[t]] = "suspended"
    BY <1>4 DEF Resume, CreatorsSound
  <2>2. \A v \in Threads :
          pc'[v] \in JoinStates => v # t /\ v # arg[t] /\ pc'[v] = pc[v]
    BY <1>4, <2>1, SMTT(30) DEF Resume
  <2>3. \A v \in Threads : v \notin {t, arg[t]} => pc'[v] = pc[v]
    BY <1>4, SMTT(30) DEF Resume
  <2>4. \A v \in Threads :
          /\ pc[v] \in JoinStates => arg[v] # arg[t]
          /\ pc[v] \in JoinStates \ {"joinwait"} => arg[v] # t
    BY <1>4, <2>1, SMTT(30) DEF Resume
  <2>5. \A v \in Threads : pc[v] \in JoinStates => pc'[v] = pc[v]
    BY <1>4, <2>1, <2>3 DEF Resume
  <2>6. pc'[t] = "run"
    BY <1>4, SMTT(30) DEF Resume
  <2>7. UNCHANGED <<known, detached, joining, joined, handle, closes, arg>>
    BY <1>4 DEF Resume
  <2>8. ASSUME NEW v \in Threads, pc'[v] \in JoinStates
        PROVE  /\ pc'[v] = pc[v]
               /\ pc'[arg[v]] = IF arg[v] = t THEN "run" ELSE pc[arg[v]]
    BY <2>2, <2>3, <2>4, <2>6, <2>8, SMTT(30)
  <2>9. \A u \in Threads : joining[u] =>
          \E v \in Threads : arg[v] = u /\ pc'[v] \in Claiming
    BY <2>5, SMTT(30)
  <2>. QED
    BY <2>4, <2>7, <2>8, <2>9, SMTT(30)
<1>5. ASSUME NEW t \in Threads, ResumeFails(t) PROVE JoinersSound'
  BY <1>5, SMTT(30) DEF ResumeFails, Close, CreatorsSound
<1>6. ASSUME NEW t \in Threads, Uncount(t) PROVE JoinersSound'
  BY <1>6, SMTT(30) DEF Uncount
<1>7. ASSUME NEW t \in Threads, FinishEnter(t) PROVE JoinersSound'
  BY <1>7, SMTT(30) DEF FinishEnter
<1>8. ASSUME NEW t \in Threads, Finish(t) PROVE JoinersSound'
  BY <1>8, SMTT(30) DEF Finish
<1>9. ASSUME NEW t \in Threads, LeaveDelivers(t) PROVE JoinersSound'
  BY <1>9, SMTT(30) DEF LeaveDelivers, LeaveStates
<1>10. ASSUME NEW t \in Threads, Leave(t) PROVE JoinersSound'
  BY <1>10, SMTT(30) DEF Leave, LeaveStates
<1>11. ASSUME NEW t \in Threads, TailClose(t) PROVE JoinersSound'
  <2>1. ~\E v \in Threads : arg[v] = t /\ pc[v] \in JoinStates
    BY <1>11, SMTT(30) DEF TailClose, EndsSound, BlocksSound
  <2>. QED
    BY <1>11, <2>1, SMTT(30) DEF TailClose, Close
<1>12. ASSUME NEW t \in Threads, TailHandle(t) PROVE JoinersSound'
  <2>1. ~\E v \in Threads : arg[v] = t /\ pc[v] \in JoinStates
    BY <1>12, SMTT(30) DEF TailHandle, BlocksSound
  <2>. QED
    BY <1>12, <2>1, SMTT(30) DEF TailHandle
<1>13. ASSUME NEW t \in Threads, NEW u \in Threads, CancelLate(t, u)
     PROVE  JoinersSound'
  BY <1>13, SMTT(30) DEF CancelLate, Visible
<1>14. ASSUME NEW t \in Threads, NEW u \in Threads, Join(t, u)
     PROVE  JoinersSound'
  <2>1. u \in known /\ pc[u] \notin {"none", "suspended"}
    BY <1>14 DEF Join, Visible
  <2>2. closes[u] = 0
    BY <1>14, FreeHandle DEF Join
  <2>3. ~\E v \in Threads : arg[v] = u /\ pc[v] \in JoinStates
    BY <1>14, SMTT(30) DEF Join
  <2>4. \A v \in Threads : v # t => pc'[v] = pc[v] /\ arg'[v] = arg[v]
    BY <1>14, SMTT(30) DEF Join
  <2>. QED
    BY <1>14, <2>1, <2>2, <2>3, <2>4, SMTT(30) DEF Join
<1>15. ASSUME NEW t \in Threads, JoinWaitOk(t) PROVE JoinersSound'
  BY <1>15, SMTT(30) DEF JoinWaitOk
<1>16. ASSUME NEW t \in Threads, JoinCanceled(t) PROVE JoinersSound'
  BY <1>16, SMTT(30) DEF JoinCanceled
<1>17. ASSUME NEW t \in Threads, JoinError(t) PROVE JoinersSound'
  BY <1>17, SMTT(30) DEF JoinError
<1>18. ASSUME NEW t \in Threads, JoinClose(t) PROVE JoinersSound'
  BY <1>18, SMTT(30) DEF JoinClose, Close, BlocksSound
<1>19. ASSUME NEW t \in Threads, JoinHandle(t) PROVE JoinersSound'
  BY <1>19, SMTT(30) DEF JoinHandle
<1>20. ASSUME NEW t \in Threads, JoinFlag(t) PROVE JoinersSound'
  BY <1>20, SMTT(30) DEF JoinFlag
<1>21. ASSUME NEW t \in Threads, JoinLast(t) PROVE JoinersSound'
  BY <1>21, SMTT(30) DEF JoinLast
<1>22. ASSUME NEW t \in Threads, NEW u \in Threads, Detach(t, u)
     PROVE  JoinersSound'
  <2>1. \A v \in Threads : arg[v] = u => pc[v] \notin JoinStates
    BY <1>22, SMTT(30) DEF Detach, EndsSound
  <2>. QED
    BY <1>22, <2>1, SMTT(30) DEF Detach
<1>23. ASSUME NEW t \in Threads, DetachClose(t) PROVE JoinersSound'
  BY <1>23, SMTT(30) DEF DetachClose, Close, DetachersSound
<1>24. ASSUME NEW t \in Threads, DetachHandle(t) PROVE JoinersSound'
  BY <1>24, SMTT(30) DEF DetachHandle
<1>25. CASE UNCHANGED vars
  BY <1>25, SMTT(30) DEF vars
<1> HIDE DEF TypeOK, flagVars, Goto, JoinersSound, Claiming, JoinStates
<1>. QED
  BY <1>1, <1>2, <1>3, <1>4, <1>5, <1>6, <1>7, <1>8, <1>9, <1>10, <1>11,
     <1>12, <1>13, <1>14, <1>15, <1>16, <1>17, <1>18, <1>19, <1>20, <1>21,
     <1>22, <1>23, <1>24, <1>25
     DEF Next, Step

\* A thread that has ended is detached once, and by nobody while it is joined.
LEMMA DetachersStep == IInv /\ [Next]_vars => DetachersSound'
<1> SUFFICES ASSUME IInv, [Next]_vars PROVE DetachersSound'
  OBVIOUS
<1>0. /\ TypeOK /\ EndsSound /\ BlocksSound
      /\ CreatorsSound /\ JoinersSound /\ DetachersSound
  BY DEF IInv
<1> USE <1>0
    DEF TypeOK, flagVars, Goto, DetachersSound
<1>1. ASSUME NEW t \in Threads,
            Current(t) \/ Count(t)
     PROVE  DetachersSound'
  BY <1>1, SMTT(30) DEF Current, Count
<1>2. ASSUME NEW t \in Threads, NEW u \in Threads, NEW d \in BOOLEAN,
            Spawn(t, u, d) PROVE DetachersSound'
  BY <1>2, SMTT(30) DEF Spawn, EndsSound, LeaveStates
<1>3. ASSUME NEW t \in Threads, Resume(t) PROVE DetachersSound'
  BY <1>3, SMTT(30) DEF Resume, CreatorsSound
<1>4. ASSUME NEW t \in Threads, ResumeFails(t) PROVE DetachersSound'
  <2>1. ~exited[arg[t]]
    BY <1>4, SMTT(30) DEF ResumeFails, CreatorsSound, EndsSound, LeaveStates
  <2>. QED
    BY <1>4, <2>1, SMTT(30) DEF ResumeFails, Close
<1>5. ASSUME NEW t \in Threads,
            Uncount(t) \/ FinishEnter(t)
     PROVE  DetachersSound'
  BY <1>5, SMTT(30) DEF Uncount, FinishEnter
<1>6. ASSUME NEW t \in Threads, Finish(t) PROVE DetachersSound'
  BY <1>6, SMTT(30) DEF Finish, EndsSound, LeaveStates
<1>7. ASSUME NEW t \in Threads,
            LeaveDelivers(t) \/ Leave(t)
     PROVE  DetachersSound'
  BY <1>7, SMTT(30) DEF LeaveDelivers, Leave, LeaveStates
<1>8. ASSUME NEW t \in Threads, TailClose(t) PROVE DetachersSound'
  <2>1. \A v \in Threads :
          pc[v] \in {"detachclose", "detachhandle"} /\ arg[v] = t =>
            request[t] = "late"
    BY <1>8 DEF TailClose
  <2>. QED
    BY <1>8, <2>1, SMTT(30) DEF TailClose, Close
<1>9. ASSUME NEW t \in Threads,
            TailHandle(t) \/ JoinWaitOk(t)
     PROVE  DetachersSound'
  BY <1>9, SMTT(30) DEF TailHandle, JoinWaitOk
<1>10. ASSUME NEW t \in Threads, NEW u \in Threads,
            CancelLate(t, u) \/ Join(t, u)
     PROVE  DetachersSound'
  BY <1>10, SMTT(30) DEF CancelLate, Join, Visible
<1>11. ASSUME NEW t \in Threads, JoinCanceled(t) PROVE DetachersSound'
  <2>1. ~exited[t]
    BY <1>11, SMTT(30) DEF JoinCanceled, EndsSound, LeaveStates
  <2>. QED
    BY <1>11, <2>1, SMTT(30) DEF JoinCanceled
<1>12. ASSUME NEW t \in Threads,
            JoinError(t) \/ JoinFlag(t)
     PROVE  DetachersSound'
  BY <1>12, SMTT(30) DEF JoinError, JoinFlag
<1>13. ASSUME NEW t \in Threads, JoinClose(t) PROVE DetachersSound'
  BY <1>13, SMTT(30) DEF JoinClose, Close, JoinersSound, Claiming, JoinStates
<1>14. ASSUME NEW t \in Threads, JoinHandle(t) PROVE DetachersSound'
  BY <1>14, SMTT(30) DEF JoinHandle, JoinersSound, Claiming, JoinStates
<1>15. ASSUME NEW t \in Threads, JoinLast(t) PROVE DetachersSound'
  <2>1. ~detached[arg[t]]
    BY <1>15 DEF JoinLast, JoinersSound
  <2>. QED
    BY <1>15, <2>1, SMTT(30) DEF JoinLast
<1>16. ASSUME NEW t \in Threads, NEW u \in Threads, Detach(t, u)
     PROVE  DetachersSound'
  <2>1. ~\E v \in Threads :
           arg[v] = u /\ pc[v] \in {"detachclose", "detachhandle"}
    BY <1>16 DEF Detach
  <2>2. \A v \in Threads : v # t => pc'[v] = pc[v] /\ arg'[v] = arg[v]
    BY <1>16 DEF Detach
  <2>3. ASSUME exited[u], handle[u]
        PROVE  /\ closes[u] = 0
               /\ request[u] # "late" =>
                    pc[u] \in {"leave", "leavelast", "terminated"}
    <3>1. closes[u] = 0
      BY <1>16, <2>3, FreeHandle DEF Detach
    <3>2. request[u] # "late" => pc[u] \in {"leave", "leavelast", "terminated"}
      BY <1>16, <2>3, SMTT(30) DEF Detach, EndsSound, BlocksSound, LeaveStates
    <3>. QED
      BY <3>1, <3>2
  <2>4. pc'[t] = "detachclose" => exited[u] /\ handle[u]
    BY <1>16 DEF Detach
  <2>. QED
    BY <1>16, <2>1, <2>2, <2>3, <2>4, SMTT(30) DEF Detach
<1>17. ASSUME NEW t \in Threads, DetachClose(t) PROVE DetachersSound'
  BY <1>17, SMTT(30) DEF DetachClose, Close, EndsSound, BlocksSound
<1>18. ASSUME NEW t \in Threads, DetachHandle(t) PROVE DetachersSound'
  BY <1>18 DEF DetachHandle
<1>19. CASE UNCHANGED vars
  BY <1>19 DEF vars
<1> HIDE DEF TypeOK, flagVars, Goto, DetachersSound
<1>. QED
  BY <1>1, <1>2, <1>3, <1>4, <1>5, <1>6, <1>7, <1>8, <1>9, <1>10, <1>11,
     <1>12, <1>13, <1>14, <1>15, <1>16, <1>17, <1>18, <1>19
     DEF Next, Step

\* live_threads follows the threads that can run: by one up before a new thread
\* is resumed or when a control block is made, by one down in finish() or when
\* a creation fails; a second finish() takes its thread off once more.
LEMMA LiveStep == IInv /\ [Next]_vars => LiveCounted'
<1> SUFFICES ASSUME IInv, [Next]_vars PROVE LiveCounted'
  OBVIOUS
<1>0. /\ TypeOK /\ EndsSound /\ BlocksSound
      /\ CreatorsSound /\ JoinersSound /\ LiveCounted
  BY DEF IInv
<1>s. ASSUME NEW t \in Threads, Ordinary(t), ~Finish(t)
      PROVE  UNCHANGED <<exited, live_threads>> /\ FinishedTwice' = FinishedTwice
  <2> USE <1>0 DEF TypeOK, flagVars, Goto, FinishedTwice, LeaveStates
  <2>1. CASE FinishEnter(t) \/ LeaveDelivers(t) \/ Leave(t)
    BY <2>1, SMTT(30) DEF FinishEnter, LeaveDelivers, Leave
  <2>2. CASE TailClose(t) \/ TailHandle(t)
    BY <2>2, SMTT(30) DEF TailClose, TailHandle
  <2>3. CASE \E u \in Threads : CancelLate(t, u) \/ Join(t, u) \/ Detach(t, u)
    BY <2>3, SMTT(30) DEF CancelLate, Join, Detach
  <2>4. CASE JoinCanceled(t)
    BY <2>4, SMTT(30) DEF JoinCanceled, EndsSound
  <2>5. CASE JoinWaitOk(t) \/ JoinError(t)
    BY <2>5, SMTT(30) DEF JoinWaitOk, JoinError
  <2>6. CASE JoinClose(t) \/ JoinHandle(t) \/ JoinFlag(t)
    BY <2>6, SMTT(30) DEF JoinClose, JoinHandle, JoinFlag
  <2>7. CASE DetachClose(t) \/ DetachHandle(t)
    BY <2>7, SMTT(30) DEF DetachClose, DetachHandle
  <2> HIDE DEF TypeOK, flagVars, Goto, FinishedTwice, LeaveStates
  <2>. QED
    BY <1>s, <2>1, <2>2, <2>3, <2>4, <2>5, <2>6, <2>7 DEF Ordinary
<1>q. ASSUME NEW t \in Threads, Ordinary(t), ~Finish(t) PROVE LiveCounted'
  <2>1. Countable' = Countable
    BY <1>0, <1>q, <1>s, OrdinaryApart, SMTT(30) DEF Countable, CreatorPlaces
  <2>. QED
    BY <1>0, <1>q, <1>s, <2>1 DEF LiveCounted
<1> USE <1>0, CountableFinite
    DEF TypeOK, flagVars, Goto, LiveCounted
<1>1. ASSUME NEW t \in Threads, Current(t) PROVE LiveCounted'
  <2>1. t \notin Countable /\ Countable' = Countable \cup {t}
    BY <1>1, SMTT(30)
       DEF Current, EndsSound, BlocksSound, CreatorsSound, Countable
  <2>2. FinishedTwice' = FinishedTwice /\ live_threads' = live_threads + 1
    BY <1>1 DEF Current, FinishedTwice
  <2>3. Cardinality(Countable') = Cardinality(Countable) + 1
    BY <2>1, FS_AddElement
  <2>. QED
    BY <2>2, <2>3, SMTT(30)
<1>2. ASSUME NEW t \in Threads, NEW u \in Threads, NEW d \in BOOLEAN,
            Spawn(t, u, d) PROVE LiveCounted'
  <2>1. \A v \in Threads : v \notin {t, u} => pc'[v] = pc[v] /\ arg'[v] = arg[v]
    BY <1>2 DEF Spawn
  <2>2. u \notin Countable /\ u \notin Countable'
    BY <1>2, SMTT(30) DEF Spawn, EndsSound, BlocksSound, Countable
  <2>3. \A v \in Threads \ {u} : v \in Countable' <=> v \in Countable
    BY <1>2, <2>1, SMTT(30) DEF Spawn, Countable
  <2>4. Countable' = Countable
    BY <1>2, <2>2, <2>3, SMTT(30) DEF Spawn, Countable
  <2>5. FinishedTwice' = FinishedTwice
    BY <1>2, <2>1 DEF Spawn, EndsSound, BlocksSound, FinishedTwice, LeaveStates
  <2>. QED
    BY <1>2, <2>4, <2>5 DEF Spawn
<1>3. ASSUME NEW t \in Threads, Count(t) PROVE LiveCounted'
  <2>0. arg[t] \in known /\ ~exited[arg[t]] /\ ~joined[arg[t]]
    BY <1>3 DEF Count, EndsSound, CreatorsSound, LeaveStates
  <2>1. arg[t] \notin Countable /\ Countable' = Countable \cup {arg[t]}
    BY <1>3, <2>0, SMTT(30) DEF Count, CreatorsSound, Countable
  <2>2. FinishedTwice' = FinishedTwice /\ live_threads' = live_threads + 1
    BY <1>3 DEF Count, FinishedTwice
  <2>3. Cardinality(Countable') = Cardinality(Countable) + 1
    BY <2>1, FS_AddElement
  <2>. QED
    BY <2>2, <2>3, SMTT(30)
<1>4. ASSUME NEW t \in Threads, Resume(t) PROVE LiveCounted'
  <2>1. pc[arg[t]] = "suspended"
    BY <1>4 DEF Resume, CreatorsSound
  <2>2. \A v \in Threads : \A l \in {"spawned", "unwind"} :
          pc'[v] = l <=> pc[v] = l
    BY <1>4, <2>1 DEF Resume
  <2>3. Countable' = Countable
    BY <1>4, <2>2, SMTT(30) DEF Resume, Countable
  <2>4. FinishedTwice' = FinishedTwice
    BY <1>4, <2>1
       DEF Resume, EndsSound, BlocksSound, FinishedTwice, LeaveStates
  <2>. QED
    BY <1>4, <2>3, <2>4 DEF Resume
<1>5. ASSUME NEW t \in Threads, ResumeFails(t) PROVE LiveCounted'
  <2>1. Countable' = Countable /\ FinishedTwice' = FinishedTwice
    BY <1>5, SMTT(30) DEF ResumeFails, EndsSound, CreatorsSound, Countable,
                          FinishedTwice
  <2>. QED
    BY <1>5, <2>1 DEF ResumeFails
<1>6. ASSUME NEW t \in Threads, Uncount(t) PROVE LiveCounted'
  <2>0. arg[t] \in known /\ ~exited[arg[t]] /\ joined[arg[t]]
    BY <1>6 DEF Uncount, EndsSound, CreatorsSound, LeaveStates
  <2>1. arg[t] \in Countable /\ Countable' = Countable \ {arg[t]}
    BY <1>6, <2>0, SMTT(30) DEF Uncount, CreatorsSound, Countable
  <2>2. FinishedTwice' = FinishedTwice /\ live_threads' = live_threads - 1
    BY <1>6 DEF Uncount, FinishedTwice
  <2>3. Cardinality(Countable') = Cardinality(Countable) - 1
    BY <2>1, FS_RemoveElement
  <2>. QED
    BY <2>2, <2>3, SMTT(30)
<1>7. ASSUME NEW t \in Threads, Finish(t) PROVE LiveCounted'
  <2>1. live_threads' = live_threads - 1
    BY <1>7 DEF Finish
  <2>2. CASE request[t] # "late"
    <3>0. /\ t \in known /\ ~exited[t] /\ ~joined[t]
          /\ \A v \in Threads : pc[v] = "spawned" => arg[v] # t
      BY <1>7, <2>2
         DEF Finish, EndsSound, BlocksSound, CreatorsSound, LeaveStates
    <3>1. t \in Countable /\ Countable' = Countable \ {t}
      BY <1>7, <3>0, SMTT(30) DEF Finish, Countable
    <3>2. FinishedTwice' = FinishedTwice
      BY <1>7, <2>2 DEF Finish, FinishedTwice
    <3>3. Cardinality(Countable') = Cardinality(Countable) - 1
      BY <3>1, FS_RemoveElement
    <3>. QED
      BY <2>1, <3>2, <3>3, SMTT(30)
  <2>3. CASE request[t] = "late"
    <3>1. exited[t] /\ pc[t] = "canceled"
      BY <1>7, <2>3, SMTT(30) DEF Finish, EndsSound, BlocksSound, LeaveStates
    <3>2. Countable' = Countable
      BY <1>7, <3>1, SMTT(30) DEF Finish, Countable
    <3>3. t \notin FinishedTwice /\ FinishedTwice' = FinishedTwice \cup {t}
      BY <1>7, <2>3, <3>1, SMTT(30) DEF Finish, FinishedTwice
    <3>4. Cardinality(FinishedTwice') = Cardinality(FinishedTwice) + 1
      BY <3>3, FS_AddElement
    <3>. QED
      BY <2>1, <3>2, <3>4, SMTT(30)
  <2>. QED
    BY <2>2, <2>3
<1>8. ASSUME NEW t \in Threads, JoinLast(t) PROVE LiveCounted'
  <2>0. exited[arg[t]]
    BY <1>8 DEF JoinLast, JoinersSound, EndsSound, JoinStates
  <2>1. Countable' = Countable /\ FinishedTwice' = FinishedTwice
    BY <1>8, <2>0, SMTT(30) DEF JoinLast, Countable, FinishedTwice
  <2>. QED
    BY <1>8, <2>1 DEF JoinLast
<1>9. CASE UNCHANGED vars
  <2>1. Countable' = Countable /\ FinishedTwice' = FinishedTwice
    BY <1>9 DEF vars, Countable, FinishedTwice
  <2>. QED
    BY <1>9, <2>1 DEF vars
<1> HIDE DEF TypeOK, flagVars, Goto, LiveCounted
<1>. QED
  BY <1>q, <1>1, <1>2, <1>3, <1>4, <1>5, <1>6, <1>7, <1>8, <1>9
     DEF Next, Step, Ordinary

\* The invariant holds in every reachable state of the thread functions.
THEOREM ThreadLifeInvariant == Spec => []IInv
<1>1. IInv /\ [Next]_vars => IInv'
  BY TypeStep, EndsStep, BlocksStep, HandleLeftStep, CreatorsStep,
     JoinersStep, DetachersStep, LiveStep
     DEF IInv
<1>. QED
  BY InitInv, <1>1, PTL DEF Spec

\* At most one thread is about to close a handle, and none once it is closed,
\* unless the thread runs finish() again.
LEMMA OneCloser ==
  ASSUME IInv, NEW u \in Threads
  PROVE  request[u] # "late" =>
           /\ closes[u] # 0 => Closers(u) = {}
           /\ Closers(u) = {} \/ \E t \in Threads : Closers(u) = {t}
<1> SUFFICES ASSUME request[u] # "late"
             PROVE  /\ closes[u] # 0 => Closers(u) = {}
                    /\ Closers(u) = {} \/ \E t \in Threads : Closers(u) = {t}
  OBVIOUS
<1>0. BlocksSound /\ JoinersSound /\ DetachersSound
  BY DEF IInv
<1>t. /\ u \in Threads /\ arg \in [Threads -> Threads]
      /\ pc \in [Threads -> ThreadStates] /\ detached \in [Threads -> BOOLEAN]
  BY DEF IInv, TypeOK
<1>1. ASSUME NEW t \in Threads, arg[t] = u, pc[t] = "joinclose"
      PROVE  closes[u] = 0 /\ ~detached[u] /\ pc[u] = "terminated"
  BY <1>0, <1>1, SMTT(30) DEF JoinersSound, Claiming, JoinStates
<1>2. ASSUME NEW t \in Threads, arg[t] = u, pc[t] = "detachclose"
      PROVE  closes[u] = 0 /\ detached[u] /\ pc[u] # "tailclose"
  BY <1>0, <1>2, SMTT(30) DEF DetachersSound
<1>3. pc[u] = "tailclose" => closes[u] = 0
  BY <1>0, SMTT(30) DEF BlocksSound
<1>4. ASSUME NEW t \in Threads, NEW v \in Threads, arg[t] = u, arg[v] = u,
             pc[t] = "joinclose", pc[v] = "joinclose"
      PROVE  t = v
  BY <1>0, <1>4, SMTT(30) DEF JoinersSound, Claiming
<1>5. ASSUME NEW t \in Threads, NEW v \in Threads, arg[t] = u, arg[v] = u,
             pc[t] = "detachclose", pc[v] = "detachclose"
      PROVE  t = v
  BY <1>0, <1>5, SMTT(30) DEF DetachersSound
<1>6. closes[u] # 0 => Closers(u) = {}
  BY <1>1, <1>2, <1>3, SMTT(30) DEF Closers
<1>7. ASSUME NEW t \in Closers(u), NEW v \in Closers(u) PROVE t = v
  BY <1>1, <1>2, <1>4, <1>5, SMTT(30) DEF Closers
<1>8. Closers(u) \subseteq Threads
  BY DEF Closers
<1> HIDE DEF Closers
<1>. QED
  BY <1>6, <1>7, <1>8

\* However a join, a detach and the end of a thread interleave, its handle is
\* closed at most once, and never while a joiner sleeps on it; a thread to which
\* finish()'s unlock delivers a request is excepted from the first part.
THEOREM ThreadClosedOnce == Spec => []ClosedOnce
<1>1. IInv => ClosedOnce
  <2> SUFFICES ASSUME IInv, NEW u \in Threads
               PROVE  /\ request[u] # "late" =>
                           closes[u] + Cardinality(Closers(u)) <= 1
                      /\ closes[u] # 0 \/ Closers(u) # {} =>
                           \A t \in Threads : ~(arg[t] = u /\ pc[t] = "joinwait")
    BY DEF ClosedOnce
  <2>1. ASSUME request[u] # "late"
        PROVE  closes[u] + Cardinality(Closers(u)) <= 1
    <3>1. closes[u] \in {0, 1}
      <4>1. BlocksSound /\ closes[u] \in Nat
        BY DEF IInv, TypeOK
      <4>. QED
        BY <2>1, <4>1, SMTT(30) DEF BlocksSound
    <3>2. CASE Closers(u) = {}
      BY <3>1, <3>2, FS_EmptySet, SMTT(30)
    <3>3. ASSUME NEW t \in Threads, Closers(u) = {t}
          PROVE  closes[u] + Cardinality(Closers(u)) <= 1
      <4>1. Cardinality(Closers(u)) = 1
        BY <3>3, FS_Singleton
      <4>2. closes[u] = 0
        BY <2>1, <3>3, OneCloser
      <4>. QED
        BY <4>1, <4>2, SMTT(30)
    <3>. QED
      BY <2>1, <3>2, <3>3, OneCloser
  <2>2. ASSUME NEW t \in Threads, arg[t] = u, pc[t] = "joinwait"
        PROVE  closes[u] = 0 /\ Closers(u) = {}
    <3>1. closes[u] = 0 /\ ~detached[u]
      BY <2>2 DEF IInv, JoinersSound, Claiming
    <3>2. ASSUME NEW v \in Closers(u) PROVE FALSE
      <4>0. v \in Threads /\ BlocksSound /\ JoinersSound /\ DetachersSound
        BY DEF IInv, Closers
      <4>1. ~(arg[v] = u /\ pc[v] = "detachclose")
        BY <3>1, <4>0, SMTT(30) DEF DetachersSound
      <4>2. ~(arg[v] = u /\ pc[v] = "joinclose")
        BY <2>2, <4>0, SMTT(30) DEF JoinersSound, Claiming
      <4>3. pc[u] # "tailclose"
        BY <3>1, <4>0, SMTT(30) DEF BlocksSound
      <4>. QED
        BY <3>2, <4>1, <4>2, <4>3 DEF Closers
    <3>. QED
      BY <3>1, <3>2
  <2>. QED
    BY <2>1, <2>2
<1>. QED
  BY ThreadLifeInvariant, <1>1, PTL

\* A thread that has ended and was joined, or on NT detached, has no open handle
\* once its closer is through, and joining marks exactly one joiner.
THEOREM ThreadReclaimed == Spec => []Reclaimed
<1>1. IInv => Reclaimed
  <2> SUFFICES ASSUME IInv, NEW u \in Threads
               PROVE  /\ (/\ pc[u] = "terminated" /\ ~processDone
                          /\ joined[u] \/ (NT /\ detached[u])
                          /\ Closers(u) = {})
                         => closes[u] # 0
                      /\ Cardinality(Joiners(u)) = IF joining[u] THEN 1 ELSE 0
    BY DEF Reclaimed
  <2>1. (/\ pc[u] = "terminated" /\ ~processDone
         /\ joined[u] \/ (NT /\ detached[u])
         /\ Closers(u) = {})
        => closes[u] # 0
    <3>1. joined[u] => closes[u] = 1
      BY DEF IInv, BlocksSound
    <3>2. (NT /\ ~processDone /\ pc[u] = "terminated" /\ detached[u]) =>
            closes[u] # 0 \/ \E t \in Threads : t \in Closers(u)
      BY DEF IInv, HandleLeft, LeftOpen, Closers
    <3>. QED
      BY <3>1, <3>2, SMTT(30)
  <2>2. CASE joining[u]
    <3>1. PICK t \in Threads : arg[t] = u /\ pc[t] \in Claiming
      BY <2>2 DEF IInv, JoinersSound
    <3>2. Joiners(u) = {t}
      <4>1. \A v \in Threads : arg[v] = u /\ pc[v] \in Claiming => v = t
        BY <3>1 DEF IInv, JoinersSound
      <4>. QED
        BY <3>1, <4>1 DEF Joiners
    <3>. QED
      BY <2>1, <2>2, <3>2, FS_Singleton
  <2>3. CASE ~joining[u]
    <3>1. Joiners(u) = {}
      <4>0. JoinersSound
        BY DEF IInv
      <4>1. \A v \in Threads : arg[v] = u => pc[v] \notin Claiming
        BY <2>3, <4>0, SMTT(30) DEF JoinersSound
      <4>. QED
        BY <4>1 DEF Joiners
    <3>. QED
      BY <2>1, <2>3, <3>1, FS_EmptySet
  <2>. QED
    BY <2>2, <2>3
<1>. QED
  BY ThreadLifeInvariant, <1>1, PTL

\* A joiner goes on only after the thread it joins has ended.
THEOREM ThreadJoinAfterEnd == Spec => []JoinAfterEnd
<1>1. IInv => JoinAfterEnd
  BY SMTT(30)
     DEF IInv, TypeOK, EndsSound, BlocksSound, JoinersSound, JoinAfterEnd
<1>. QED
  BY ThreadLifeInvariant, <1>1, PTL

\* live_threads is the number of threads that can still run, less the threads
\* that finish()'s own unlock made run finish() a second time.
THEOREM ThreadLiveCounted == Spec => []LiveCounted
<1>1. IInv => LiveCounted
  BY DEF IInv
<1>. QED
  BY ThreadLifeInvariant, <1>1, PTL
=============================================================================

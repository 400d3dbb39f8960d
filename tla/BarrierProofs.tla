----------------------------- MODULE BarrierProofs -----------------------------
(***************************************************************************)
(* The barrier implements AbstractBarrier, for any number of threads, any  *)
(* count and any width of the generation word, private or shared.  The     *)
(* program keeps its side: it initializes a destroyed barrier again only   *)
(* when all callers are back (~EarlyReuse).                                *)
(***************************************************************************)
EXTENDS Barrier, FiniteSetTheorems, TLAPS

\* The prover of the leaves that name no other.
USE ZenonT(30)

\* The generation word moves on to another value, round its width.
LEMMA NextGeneration ==
  ASSUME NEW g \in 0 .. Generations - 1
  PROVE  /\ (g + 1) % Generations \in 0 .. Generations - 1
         /\ (g + 1) % Generations # g
<1>1. CASE g + 1 < Generations
  <2>1. (g + 1) % Generations = g + 1
    BY <1>1, BarrierAssumption, SMTT(30)
  <2>. QED
    BY <1>1, <2>1, BarrierAssumption, SMTT(30)
<1>2. CASE g + 1 = Generations
  <2>1. (g + 1) % Generations = 0
    BY <1>2, BarrierAssumption, SMTT(30)
  <2>. QED
    BY <1>2, <2>1, BarrierAssumption, SMTT(30)
<1>. QED
  BY <1>1, <1>2, BarrierAssumption, SMTT(30)

\* The count of pthread_barrier_init() is positive.
LEMMA CountPositive == Count \in Nat \ {0}
<1>1. Cardinality(Threads) \in Nat
  BY FS_CardinalityType, BarrierAssumption
<1>. QED
  BY <1>1, BarrierAssumption, SMTT(30)

\* Init establishes the invariant.
LEMMA InitInv == Init => IInv
  BY CountPositive, BarrierAssumption, SMTT(30)
     DEF Init, IInv, TypeOK, SleepersReachable

\* Every step keeps the invariant: a caller is linked with its event clear,
\* and the generation moves on only as the linked callers are woken.
LEMMA InvStep ==
  ASSUME ~EarlyReuse
  PROVE  IInv /\ [Next]_vars => IInv'
<1> SUFFICES ASSUME IInv, [Next]_vars PROVE IInv'
  OBVIOUS
<1> USE CountPositive, BarrierAssumption DEF IInv, TypeOK, SleepersReachable
<1>1. ASSUME NEW t \in Threads, Complete(t) PROVE IInv'
  <2>1. generation' \in 0 .. Generations - 1
    BY <1>1, NextGeneration DEF Complete
  <2>. QED
    BY <1>1, <2>1, SMTT(30) DEF Complete, Woken
<1>2. ASSUME NEW t \in Threads, Arrive(t) PROVE IInv'
  BY <1>2, SMTT(30) DEF Arrive
<1>3. ASSUME NEW t \in Threads, WaitOk(t) PROVE IInv'
  BY <1>3 DEF WaitOk
<1>4. ASSUME NEW t \in Threads, WaitError(t) PROVE IInv'
  BY <1>4 DEF WaitError
<1>5. ASSUME NEW t \in Threads, Unlink(t) PROVE IInv'
  BY <1>5, SMTT(30) DEF Unlink, Back
<1>6. ASSUME NEW t \in Threads, Poll(t) PROVE IInv'
  BY <1>6, SMTT(30) DEF Poll, Back
<1>7. ASSUME NEW t \in Threads, Destroy(t) PROVE IInv'
  BY <1>7 DEF Destroy
<1>8. ASSUME NEW t \in Threads, Reinit(t) PROVE IInv'
  BY <1>8, SMTT(30) DEF Reinit
<1>9. CASE UNCHANGED vars
  BY <1>9 DEF vars
<1> HIDE DEF IInv, TypeOK, SleepersReachable
<1>. QED
  BY <1>1, <1>2, <1>3, <1>4, <1>5, <1>6, <1>7, <1>8, <1>9 DEF Next, Return

\* A step that changes neither the generation nor where a thread is, as seen
\* from the abstract barrier, is invisible.
LEMMA SameView ==
  ASSUME waiting' = waiting, Inside' = Inside,
         \A u \in Threads : (pc'[u] = "out") <=> (pc[u] = "out"),
         \A u \in Threads : (pc'[u] = "error") <=> (pc[u] = "error")
  PROVE  UNCHANGED Abstract!vars
<1>1. Released' = Released
  BY DEF Released
<1>2. {t \in Threads : pc[t] = "error"}' = {t \in Threads : pc[t] = "error"}
  OBVIOUS
<1>. QED
  BY <1>1, <1>2 DEF Abstract!vars

\* Every step of the barrier is a step of the abstract one, or invisible: the
\* arrival that completes a generation releases all of its callers at once.
LEMMA RefinementStep ==
  ASSUME ~EarlyReuse
  PROVE  IInv /\ IInv' /\ [Next]_vars => [Abstract!Next]_(Abstract!vars)
<1> SUFFICES ASSUME IInv, IInv', [Next]_vars
             PROVE  [Abstract!Next]_(Abstract!vars)
  OBVIOUS
<1> DEFINE Errors == {t \in Threads : pc[t] = "error"}
<1>0. TypeOK /\ TypeOK' /\ SleepersReachable
  BY DEF IInv
<1> USE <1>0, CountPositive, BarrierAssumption DEF TypeOK
<1>1. ASSUME NEW t \in Threads, Complete(t) PROVE Abstract!Complete(t)
  <2>1. generation' # generation
    BY <1>1, NextGeneration DEF Complete
  <2>2. t \notin Inside \cup Released
    BY <1>1 DEF Complete, Inside, Released
  <2>3. Inside' = {}
    <3>1. ASSUME NEW u \in Inside' PROVE FALSE
      <4>1. CASE pc[u] = "poll"
        BY <1>1, <3>1, <4>1 DEF Complete, Inside, NotLapped
      <4>2. CASE pc[u] \in {"sleep", "error"}
        BY <1>1, <3>1, <4>2 DEF Complete, Inside, Woken, SleepersReachable
      <4>. QED
        BY <1>1, <3>1, <4>1, <4>2 DEF Complete, Inside
    <3>. QED
      BY <3>1
  <2>4. Released' = Released \cup Inside
    BY <1>1, <2>3 DEF Complete, Released, Inside
  <2>5. Errors' = Errors
    BY <1>1 DEF Complete
  <2>. QED
    BY <1>1, <2>2, <2>3, <2>4, <2>5 DEF Complete, Abstract!Complete
<1>2. ASSUME NEW t \in Threads, Arrive(t) PROVE Abstract!Arrive(t)
  <2>1. t \notin Inside \cup Released
    BY <1>2 DEF Arrive, Inside, Released
  <2>2. Inside' = Inside \cup {t}
    BY <1>2, SMTT(30) DEF Arrive, Inside
  <2>3. Released' = Released
    BY <1>2, <2>2 DEF Arrive, Released, Inside
  <2>4. Errors' = Errors
    BY <1>2 DEF Arrive
  <2>. QED
    BY <1>2, <2>1, <2>2, <2>3, <2>4 DEF Arrive, Abstract!Arrive
<1>3. ASSUME NEW t \in Threads, WaitOk(t) PROVE UNCHANGED Abstract!vars
  <2>1. Inside' = Inside
    BY <1>3 DEF WaitOk, Inside
  <2>. QED
    BY <1>3, <2>1, SameView DEF WaitOk
<1>4. ASSUME NEW t \in Threads, WaitError(t) PROVE Abstract!Excuse(t)
  <2>1. Inside' = Inside
    BY <1>4 DEF WaitError, Inside
  <2>2. Released' = Released
    BY <1>4, <2>1 DEF WaitError, Released
  <2>3. Errors' = Errors \cup {t}
    BY <1>4 DEF WaitError
  <2>4. t \in Inside \cup Released
    BY <1>4 DEF WaitError, Released
  <2>. QED
    BY <1>4, <2>1, <2>2, <2>3, <2>4 DEF WaitError, Abstract!Excuse
<1>5. ASSUME NEW t \in Threads, Unlink(t) \/ Poll(t) PROVE Abstract!Leave(t)
  <2>1. Inside' = Inside \ {t}
    BY <1>5 DEF Unlink, Poll, Back, Inside
  <2>2. Released' = Released \ {t}
    BY <1>5, <2>1 DEF Unlink, Poll, Back, Released
  <2>3. Errors' = Errors \ {t}
    BY <1>5 DEF Unlink, Poll, Back
  <2>4. t \in Released \cup Errors
    BY <1>5 DEF Unlink, Poll, Released, Inside
  <2>5. waiting' = waiting
    BY <1>5 DEF Unlink, Poll
  <2>. QED
    BY <2>1, <2>2, <2>3, <2>4, <2>5 DEF Abstract!Leave
<1>6. ASSUME NEW t \in Threads, Destroy(t) PROVE UNCHANGED Abstract!vars
  <2>1. Inside' = Inside
    BY <1>6 DEF Destroy, Inside
  <2>. QED
    BY <1>6, <2>1, SameView DEF Destroy
<1>7. ASSUME NEW t \in Threads, Reinit(t) PROVE UNCHANGED Abstract!vars
  <2>1. \A u \in Threads : pc[u] = "out"
    BY <1>7 DEF Reinit
  <2>2. Inside' = Inside
    BY <1>7, <2>1 DEF Reinit, Inside
  <2>3. waiting' = waiting
    BY <1>7 DEF Reinit, IInv
  <2>. QED
    BY <1>7, <2>2, <2>3, SameView DEF Reinit
<1>8. CASE UNCHANGED vars
  <2>1. Inside' = Inside
    BY <1>8 DEF vars, Inside
  <2>. QED
    BY <1>8, <2>1, SameView DEF vars
<1> HIDE DEF TypeOK
<1>. QED
  BY <1>1, <1>2, <1>3, <1>4, <1>5, <1>6, <1>7, <1>8
     DEF Next, Return, Abstract!Next

\* The barrier implements the abstract one: nobody goes on before Count
\* arrivals but a caller whose sleep failed, and the completing arrival
\* releases everybody who is in.
THEOREM BarrierImplementsAbstract ==
  ASSUME ~EarlyReuse
  PROVE  Spec => ImplementsBarrier
<1>1. Init => Abstract!Init
  BY DEF Init, Abstract!Init, Inside, Released
<1>2. IInv /\ [Next]_vars => IInv'
  BY InvStep
<1>3. IInv /\ IInv' /\ [Next]_vars => [Abstract!Next]_(Abstract!vars)
  BY RefinementStep
<1>. QED
  BY InitInv, <1>1, <1>2, <1>3, PTL DEF Spec, ImplementsBarrier, Abstract!Spec
=============================================================================

---------------------------- MODULE RwLockProofs ----------------------------
(***************************************************************************)
(* RwLock's invariants hold for every set of threads and priorities.       *)
(***************************************************************************)
EXTENDS RwLock, FiniteSetTheorems, TLAPS

\* The prover of the leaves that name no other.
USE ZenonT(30)

\* The read locks granted are finitely many.
LEMMA ReadHoldsFinite ==
  ASSUME NEW d
  PROVE  IsFiniteSet(ReadHolds(d))
<1>1. IsFiniteSet(1..MaxHold)
  BY MaxHoldAssumption, FS_Interval, SMTT(30)
<1>2. IsFiniteSet(Threads \X (1..MaxHold))
  BY <1>1, ThreadsAssumption, FS_Product
<1>3. ReadHolds(d) \in SUBSET (Threads \X (1..MaxHold))
  BY DEF ReadHolds
<1> QED
  BY <1>2, <1>3, FS_Subset

\* Granting one more read lock to a thread adds one element.
LEMMA ReadHoldsAdd ==
  ASSUME NEW d \in [Threads -> 0..MaxHold], NEW t \in Threads, d[t] < MaxHold
  PROVE  Cardinality(ReadHolds([d EXCEPT ![t] = @ + 1]))
           = Cardinality(ReadHolds(d)) + 1
<1> DEFINE h == <<t, d[t] + 1>>
<1>1. h \notin ReadHolds(d)
  BY SMTT(30) DEF ReadHolds
<1>2. ReadHolds([d EXCEPT ![t] = @ + 1]) = ReadHolds(d) \cup {h}
  BY MaxHoldAssumption, SMTT(30) DEF ReadHolds
<1>3. IsFiniteSet(ReadHolds(d))
  BY ReadHoldsFinite
<1> HIDE DEF h
<1> QED
  BY <1>1, <1>2, <1>3, FS_AddElement

\* Releasing one read lock of a thread removes one element.
LEMMA ReadHoldsRemove ==
  ASSUME NEW d \in [Threads -> 0..MaxHold], NEW t \in Threads, d[t] > 0
  PROVE  /\ Cardinality(ReadHolds(d)) > 0
         /\ Cardinality(ReadHolds([d EXCEPT ![t] = @ - 1]))
              = Cardinality(ReadHolds(d)) - 1
<1> DEFINE h == <<t, d[t]>>
           e == [d EXCEPT ![t] = @ - 1]
<1>1. h \in ReadHolds(d)
  BY MaxHoldAssumption, SMTT(30) DEF ReadHolds
<1>2. ReadHolds(e) = ReadHolds(d) \ {h}
  BY MaxHoldAssumption, SMTT(30) DEF ReadHolds
<1>3. IsFiniteSet(ReadHolds(d))
  BY ReadHoldsFinite
<1> HIDE DEF h
<1>4. Cardinality(ReadHolds(d)) \in Nat /\ Cardinality(ReadHolds(d)) # 0
  BY <1>1, <1>3, FS_CardinalityType, FS_EmptySet
<1>5. Cardinality(ReadHolds(d) \ {h}) = Cardinality(ReadHolds(d)) - 1
  BY <1>1, <1>3, FS_RemoveElement
<1>6. Cardinality(ReadHolds(e)) = Cardinality(ReadHolds(d)) - 1
  BY <1>2, <1>5
<1>7. Cardinality(ReadHolds(d)) > 0
  BY <1>4, SMTT(30)
<1> QED
  BY <1>6, <1>7

\* Admitting a set of readers adds one element for each.
LEMMA ReadHoldsAdmit ==
  ASSUME NEW d \in [Threads -> 0..MaxHold], NEW A \in SUBSET Threads,
         \A t \in A : d[t] < MaxHold
  PROVE  Cardinality(ReadHolds([t \in Threads |->
                        IF t \in A THEN d[t] + 1 ELSE d[t]]))
           = Cardinality(ReadHolds(d)) + Cardinality(A)
<1> DEFINE e == [t \in Threads |-> IF t \in A THEN d[t] + 1 ELSE d[t]]
           N == {h \in Threads \X (1..MaxHold) :
                   h[1] \in A /\ h[2] = d[h[1]] + 1}
           f == [t \in A |-> <<t, d[t] + 1>>]
<1>1. ReadHolds(e) = ReadHolds(d) \cup N
  BY MaxHoldAssumption, SMTT(30) DEF ReadHolds
<1>2. ReadHolds(d) \cap N = {}
  BY SMTT(30) DEF ReadHolds
<1>3. IsFiniteSet(A)
  BY ThreadsAssumption, FS_Subset
<1>4. f \in Bijection(A, N)
  <2>1. \A t \in A : f[t] \in N
    BY MaxHoldAssumption, SMTT(30)
  <2>2. \A t, u \in A : f[t] = f[u] => t = u
    OBVIOUS
  <2>3. \A h \in N : \E t \in A : f[t] = h
    <3> TAKE h \in N
    <3>1. h = <<h[1], h[2]>> /\ h[1] \in A /\ f[h[1]] = h
      BY SMTT(30)
    <3> QED BY <3>1
  <2> QED
    BY <2>1, <2>2, <2>3 DEF Bijection, Injection, Surjection, IsInjective
<1>5. IsFiniteSet(N) /\ Cardinality(N) = Cardinality(A)
  BY <1>3, <1>4, FS_Bijection DEF ExistsBijection
<1>6. Cardinality(ReadHolds(d) \cap N) = 0
  BY <1>2, FS_EmptySet
<1>7. /\ Cardinality(ReadHolds(d)) \in Nat
      /\ Cardinality(A) \in Nat
  BY <1>3, ReadHoldsFinite, FS_CardinalityType
<1>8. Cardinality(ReadHolds(d) \cup N)
        = Cardinality(ReadHolds(d)) + Cardinality(N)
            - Cardinality(ReadHolds(d) \cap N)
  BY <1>5, ReadHoldsFinite, FS_Union
<1>9. Cardinality(ReadHolds(e)) = Cardinality(ReadHolds(d)) + Cardinality(A)
  <2> HIDE DEF N, e
  <2> QED BY <1>1, <1>5, <1>6, <1>7, <1>8, SMTT(30)
<1> QED
  BY <1>9

-----------------------------------------------------------------------------

\* A list with a writer in it has a best writer: the second loop of
\* wake_waiters() never leaves best null.
LEMMA BestWriterExists ==
  ASSUME TypeOK, NEW q \in SUBSET Threads, QueueOrder(q),
         \E x \in q : write[x]
  PROVE  \E x \in q : BestWriter(x, q)
<1> DEFINE W == {x \in q : write[x]}
           P == {sched_priority[x] : x \in W}
<1>1. P \in SUBSET Priorities /\ P # {}
  BY SMTT(30) DEF TypeOK
<1>2. PICK m \in P : \A n \in P : n <= m
  BY <1>1, PrioritiesAssumption
<1> DEFINE M == {x \in W : sched_priority[x] = m}
<1>3. M \in SUBSET q /\ M # {}
  BY <1>2
<1>4. PICK x \in M : ahead[x] \cap M = {}
  BY <1>3 DEF QueueOrder
<1>5. \A y \in W : sched_priority[y] \in Nat /\ sched_priority[y] <= m
  BY <1>2, PrioritiesAssumption DEF TypeOK
<1>6. \A y \in ahead[x] \cap q : write[y] => sched_priority[y] # m
  BY <1>4
<1>7. m \in Nat
  BY <1>1, <1>2, PrioritiesAssumption
<1>8. BestWriter(x, q)
  BY <1>4, <1>5, <1>6, <1>7, SMTT(30) DEF BestWriter
<1> QED
  BY <1>4, <1>8

\* What wake_waiters() needs: counters that agree with the list and with the
\* read locks granted.
WakeBefore(w, r, ww, q, d) ==
  /\ w \in Threads \cup {None}
  /\ r \in Nat
  /\ ww \in Nat
  /\ q \in SUBSET Threads
  /\ d \in [Threads -> 0..MaxHold]
  /\ w # None => r = 0
  /\ r = Cardinality(ReadHolds(d))
  /\ ww = Cardinality(QueuedWriters(q))
  /\ \A t \in q : ~write[t] => d[t] < MaxHold
  /\ QueueOrder(q)

\* What it establishes.
WakeAfter(w, q, d) ==
  /\ writer' \in Threads \cup {None}
  /\ readers' \in Nat
  /\ waiting_writers' \in Nat
  /\ ahead' \in [Threads -> SUBSET Threads]
  /\ semaphore' \in [Threads -> {0, 1}]
  /\ depth' \in [Threads -> 0..MaxHold]
  /\ queue' \subseteq q
  /\ writer' # None => readers' = 0
  /\ readers' = Cardinality(ReadHolds(depth'))
  /\ (writer' = None /\ readers' = 0) => queue' = {}
  /\ waiting_writers' = Cardinality(QueuedWriters(queue'))
  /\ \A t \in Threads : ahead'[t] \subseteq queue'
  /\ \A S \in SUBSET queue' :
        S # {} => \E x \in S : ahead'[x] \cap S = {}
  /\ \A t \in q \ queue' :
        /\ semaphore'[t] = 1
        /\ IF write[t] THEN writer' = t ELSE depth'[t] > 0
  /\ \A t \in Threads : t \notin q \ queue' =>
        semaphore'[t] = semaphore[t] /\ depth'[t] = d[t]
  /\ \A t \in Threads : depth'[t] >= d[t]
  /\ w # None => writer' = w

\* wake_waiters() is correct.
LEMMA WakeWaitersCorrect ==
  ASSUME TypeOK, NEW w, NEW r, NEW ww, NEW q, NEW d,
         WakeBefore(w, r, ww, q, d),
         WakeWaiters(w, r, ww, q, d)
  PROVE  WakeAfter(w, q, d)
<1> USE DEF WakeBefore
<1> DEFINE admitted == IF w # None THEN {} ELSE AdmittedReaders(q)
           r1 == r + Cardinality(admitted)
           handOff == w = None /\ r1 = 0 /\ ww # 0
           best == CHOOSE b \in q : BestWriter(b, q)
           gone == admitted \cup (IF handOff THEN {best} ELSE {})
           W == QueuedWriters(q)
<1>1. /\ writer' = IF handOff THEN best ELSE w
      /\ readers' = r1
      /\ waiting_writers' = IF handOff THEN ww - 1 ELSE ww
      /\ queue' = q \ gone
      /\ ahead' = [t \in Threads |->
                     IF t \in q \ gone THEN ahead[t] \cap (q \ gone) ELSE {}]
      /\ semaphore' = [t \in Threads |->
                         IF t \in gone THEN 1 ELSE semaphore[t]]
      /\ depth' = [t \in Threads |->
                     IF t \in admitted THEN d[t] + 1 ELSE d[t]]
  BY DEF WakeWaiters, Posted
<1>2. /\ admitted \subseteq q
      /\ \A t \in admitted : ~write[t] /\ d[t] < MaxHold
      /\ w # None => admitted = {}
  BY DEF AdmittedReaders
<1>3. IsFiniteSet(q) /\ IsFiniteSet(W) /\ IsFiniteSet(admitted)
  <2>1. IsFiniteSet(q)
    BY ThreadsAssumption, FS_Subset
  <2>2. W \in SUBSET q /\ admitted \in SUBSET q
    BY <1>2 DEF QueuedWriters
  <2> HIDE DEF W, admitted
  <2> QED
    BY <2>1, <2>2, FS_Subset
<1>4. Cardinality(admitted) \in Nat /\ r1 \in Nat
  BY <1>3, FS_CardinalityType, SMTT(30)
<1>5. handOff => best \in W /\ BestWriter(best, q) /\ admitted = {} /\ r = 0
  <2> SUFFICES ASSUME handOff
               PROVE  best \in W /\ BestWriter(best, q) /\ admitted = {}
                        /\ r = 0
    OBVIOUS
  <2>1. W # {}
    BY FS_EmptySet
  <2>2. \E x \in q : BestWriter(x, q)
    BY <2>1, BestWriterExists DEF QueuedWriters
  <2>3. best \in q /\ BestWriter(best, q)
    BY <2>2
  <2>4. Cardinality(admitted) = 0 /\ r = 0
    BY <1>4, SMTT(30)
  <2>5. admitted = {}
    BY <1>3, <2>4, FS_EmptySet
  <2> QED
    BY <2>3, <2>4, <2>5 DEF BestWriter, QueuedWriters
<1>6. readers' = Cardinality(ReadHolds(depth'))
  <2>1. admitted \in SUBSET Threads /\ \A t \in admitted : d[t] < MaxHold
    BY <1>2
  <2> HIDE DEF admitted
  <2>2. Cardinality(ReadHolds([t \in Threads |->
                        IF t \in admitted THEN d[t] + 1 ELSE d[t]]))
           = Cardinality(ReadHolds(d)) + Cardinality(admitted)
    BY <2>1, ReadHoldsAdmit
  <2> QED
    BY <1>1, <2>2
<1>7. waiting_writers' = Cardinality(QueuedWriters(queue'))
      /\ waiting_writers' \in Nat
  <2>1. CASE handOff
    <3>1. QueuedWriters(queue') = W \ {best}
      BY <1>1, <1>5, <2>1 DEF QueuedWriters
    <3>2. Cardinality(W \ {best}) = Cardinality(W) - 1
      BY <1>3, <1>5, <2>1, FS_RemoveElement
    <3>3. IsFiniteSet(W \ {best})
      BY <1>3, FS_RemoveElement
    <3>4. Cardinality(W \ {best}) \in Nat
      BY <3>3, FS_CardinalityType
    <3> QED
      BY <1>1, <2>1, <3>1, <3>2, <3>4
  <2>2. CASE ~handOff
    <3>1. QueuedWriters(queue') = W
      BY <1>1, <1>2, <2>2 DEF QueuedWriters
    <3> QED
      BY <1>1, <2>2, <3>1
  <2> QED
    BY <2>1, <2>2
<1>8. (writer' = None /\ readers' = 0) => queue' = {}
  <2> SUFFICES ASSUME writer' = None, readers' = 0
               PROVE  queue' = {}
    OBVIOUS
  <2>1. ~handOff
    BY <1>1, <1>5, ThreadsAssumption DEF QueuedWriters
  <2>2. w = None /\ r1 = 0 /\ ww = 0
    BY <1>1, <2>1
  <2>3. W = {}
    BY <1>3, <2>2, FS_EmptySet
  <2>4. admitted = q
    BY <2>2, <2>3 DEF AdmittedReaders, OutranksWriters, QueuedWriters
  <2> QED
    BY <1>1, <2>4
<1>9. /\ writer' \in Threads \cup {None}
      /\ writer' # None => readers' = 0
      /\ w # None => writer' = w
  <2>1. CASE handOff
    BY <1>1, <1>5, <2>1 DEF QueuedWriters
  <2>2. CASE ~handOff
    <3>1. w # None => Cardinality(admitted) = 0
      BY <1>2, FS_EmptySet
    <3> QED BY <1>1, <1>4, <2>2, <3>1, SMTT(30)
  <2> QED BY <2>1, <2>2
<1>10. /\ ahead' \in [Threads -> SUBSET Threads]
       /\ queue' \subseteq q
       /\ \A t \in Threads : ahead'[t] \subseteq queue'
       /\ \A S \in SUBSET queue' :
             S # {} => \E x \in S : ahead'[x] \cap S = {}
  <2> HIDE DEF gone
  <2>1. /\ ahead' \in [Threads -> SUBSET Threads]
        /\ queue' \subseteq q
        /\ \A t \in Threads : ahead'[t] \subseteq queue'
    BY <1>1
  <2>2. ASSUME NEW S \in SUBSET queue', S # {}
        PROVE  \E x \in S : ahead'[x] \cap S = {}
    <3>1. S \in SUBSET q
      BY <1>1, <2>2
    <3>2. PICK x \in S : ahead[x] \cap S = {}
      BY <2>2, <3>1 DEF QueueOrder
    <3>3. ahead'[x] \subseteq ahead[x]
      BY <1>1, <3>1, <3>2
    <3> QED
      BY <3>2, <3>3
  <2> QED
    BY <2>1, <2>2
<1>11. /\ semaphore' \in [Threads -> {0, 1}]
       /\ depth' \in [Threads -> 0..MaxHold]
       /\ \A t \in Threads : depth'[t] >= d[t]
  <2>1. semaphore' \in [Threads -> {0, 1}]
    BY <1>1 DEF TypeOK
  <2>2. \A t \in Threads : t \in admitted => d[t] < MaxHold
    BY <1>2
  <2> HIDE DEF admitted
  <2> QED
    BY <1>1, <2>1, <2>2, MaxHoldAssumption, SMTT(30)
<1>12. \A t \in q \ queue' :
          /\ semaphore'[t] = 1
          /\ IF write[t] THEN writer' = t ELSE depth'[t] > 0
  <2> TAKE t \in q \ queue'
  <2>1. t \in gone /\ t \in Threads /\ d[t] \in 0..MaxHold
    BY <1>1
  <2>2. CASE t \in admitted
    <3>1. ~write[t] /\ semaphore'[t] = 1 /\ depth'[t] = d[t] + 1
      BY <1>1, <1>2, <2>1, <2>2
    <3> QED
      BY <2>1, <3>1, MaxHoldAssumption, SMTT(30)
  <2>3. CASE t \notin admitted
    BY <1>1, <1>5, <2>1, <2>3 DEF QueuedWriters
  <2> QED
    BY <2>2, <2>3
<1>13. \A t \in Threads : t \notin q \ queue' =>
          semaphore'[t] = semaphore[t] /\ depth'[t] = d[t]
  <2>1. gone \subseteq q
    BY <1>2, <1>5 DEF QueuedWriters
  <2> QED
    BY <1>1, <2>1
<1>14. readers' \in Nat
  BY <1>1, <1>4
<1> QED
  BY <1>6, <1>7, <1>8, <1>9, <1>10, <1>11, <1>12, <1>13, <1>14
     DEF WakeAfter

-----------------------------------------------------------------------------

\* The initial state satisfies the inductive invariant.
LEMMA InitInvariant == Init => IInv
<1> SUFFICES ASSUME Init PROVE IInv
  OBVIOUS
<1>1. TypeOK
  BY MaxHoldAssumption, SMTT(30) DEF Init, TypeOK
<1>2. ReadHolds(depth) = {} /\ QueuedWriters(queue) = {}
  BY SMTT(30) DEF Init, ReadHolds, QueuedWriters
<1>3. Cardinality(ReadHolds(depth)) = 0 /\ Cardinality(QueuedWriters(queue)) = 0
  BY <1>2, FS_EmptySet
<1>4. Exclusion /\ NoStrandedWaiter
  BY <1>3 DEF Init, Exclusion, NoStrandedWaiter
<1>5. GrantMatchesPost /\ QueueOrder(queue) /\ CallsConsistent
  BY MaxHoldAssumption DEF Init, GrantMatchesPost, QueueOrder, CallsConsistent
<1> QED
  BY <1>1, <1>3, <1>4, <1>5 DEF Init, IInv

\* A grant in a section of rwlock_acquire() (rwlock_try_immediate()).
LEMMA RecordCorrect ==
  ASSUME IInv, NEW t \in Threads, NEW w \in BOOLEAN,
         ~w => depth[t] < MaxHold, Available(t, w), Record(t, w)
  PROVE  /\ writer' \in Threads \cup {None}
         /\ readers' \in Nat
         /\ depth' \in [Threads -> 0..MaxHold]
         /\ writer' # None => readers' = 0
         /\ readers' = Cardinality(ReadHolds(depth'))
         /\ ~(writer' = None /\ readers' = 0)
         /\ \A u \in Threads : u # t => depth'[u] = depth[u]
         /\ \A u \in Threads : writer # u
         /\ \A u \in Threads : depth'[u] >= depth[u]
<1> USE DEF IInv, TypeOK
<1>1. CASE w
  BY <1>1, ThreadsAssumption, SMTT(30) DEF Record, Available, Exclusion
<1>2. CASE ~w
  <2>1. depth[t] < MaxHold /\ depth[t] \in 0..MaxHold
    BY <1>2
  <2>2. Cardinality(ReadHolds([depth EXCEPT ![t] = @ + 1]))
           = Cardinality(ReadHolds(depth)) + 1
    BY <2>1, ReadHoldsAdd
  <2>3. /\ readers' = readers + 1
        /\ depth' = [depth EXCEPT ![t] = @ + 1]
        /\ writer' = None
        /\ writer = None
    BY <1>2 DEF Record, Available
  <2>4. readers' = Cardinality(ReadHolds(depth'))
    BY <2>2, <2>3 DEF Exclusion
  <2>5. depth' \in [Threads -> 0..MaxHold]
    BY <2>1, <2>3, MaxHoldAssumption, SMTT(30)
  <2> QED
    BY <2>1, <2>3, <2>4, <2>5, ThreadsAssumption, SMTT(30)
<1> QED
  BY <1>1, <1>2

\* A lock that is not available is held or has a linked waiter.
LEMMA UnavailableHeld ==
  ASSUME IInv, NEW t \in Threads, NEW w \in BOOLEAN, ~Available(t, w)
  PROVE  ~(writer = None /\ readers = 0)
BY DEF IInv, NoStrandedWaiter, Available, OutranksWriters

\* Linking a waiter at the tail keeps the list ordered.
LEMMA EnqueueCorrect ==
  ASSUME IInv, NEW t \in Threads, Enqueue(t)
  PROVE  IInv'
<1> USE DEF IInv, TypeOK
<1>1. /\ pc[t] = "allocate" /\ t \notin queue
      /\ queue' = queue \cup {t}
      /\ ahead' = [ahead EXCEPT ![t] = queue]
      /\ semaphore' = [semaphore EXCEPT ![t] = 0]
      /\ pc' = [pc EXCEPT ![t] = "wait"]
      /\ UNCHANGED <<magic, writer, readers, sched_priority, write, timed,
                     depth>>
  BY DEF Enqueue, CallsConsistent
<1>2. ~(writer = None /\ readers = 0)
  BY UnavailableHeld DEF Enqueue
<1>3. waiting_writers' = Cardinality(QueuedWriters(queue)')
      /\ waiting_writers' \in Nat
  <2>1. QueuedWriters(queue) \in SUBSET Threads
    BY DEF QueuedWriters
  <2>2. IsFiniteSet(QueuedWriters(queue))
    BY <2>1, ThreadsAssumption, FS_Subset
  <2>3. CASE write[t]
    <3>1. QueuedWriters(queue)' = QueuedWriters(queue) \cup {t} /\ t \notin QueuedWriters(queue)
      BY <1>1, <2>3 DEF QueuedWriters
    <3>2. Cardinality(QueuedWriters(queue) \cup {t}) = Cardinality(QueuedWriters(queue)) + 1
      BY <2>2, <3>1, FS_AddElement
    <3>3. waiting_writers' = waiting_writers + 1
      BY <2>3 DEF Enqueue
    <3> QED
      BY <3>1, <3>2, <3>3, SMTT(30)
  <2>4. CASE ~write[t]
    <3>1. QueuedWriters(queue)' = QueuedWriters(queue)
      BY <1>1, <2>4 DEF QueuedWriters
    <3> QED
      BY <2>4, <3>1 DEF Enqueue
  <2> QED
    BY <2>3, <2>4
<1>4. TypeOK'
  BY <1>1, <1>3
<1>5. QueueOrder(queue)'
  <2> SUFFICES ASSUME NEW S \in SUBSET (queue'), S # {}
               PROVE  \E x \in S : ahead'[x] \cap S = {}
    BY DEF QueueOrder
  <2>1. CASE S = {t}
    BY <1>1, <2>1, SMTT(30)
  <2>2. CASE S # {t}
    <3>1. S \ {t} \in SUBSET queue /\ S \ {t} # {}
      BY <1>1, <2>2, SMTT(30)
    <3>2. PICK x \in S \ {t} : ahead[x] \cap (S \ {t}) = {}
      BY <3>1 DEF QueueOrder
    <3>3. ahead'[x] = ahead[x] /\ t \notin ahead[x]
      BY <1>1, <3>1, <3>2 DEF CallsConsistent
    <3> QED
      BY <3>2, <3>3, SMTT(30)
  <2> QED
    BY <2>1, <2>2
<1>6. CallsConsistent'
  BY <1>1, SMTT(30) DEF CallsConsistent
<1>7. GrantMatchesPost'
  BY <1>1 DEF GrantMatchesPost
<1>8. Exclusion' /\ NoStrandedWaiter'
  BY <1>1, <1>2 DEF Exclusion, NoStrandedWaiter
<1> QED
  BY <1>3, <1>4, <1>5, <1>6, <1>7, <1>8

\* A step of thread t in which no other thread's call changes and after which
\* t is in no call.
CallEnds(t) ==
  /\ pc' \in [Threads -> {"idle", "allocate", "wait", "gone"}]
  /\ write' \in [Threads -> BOOLEAN]
  /\ timed' \in [Threads -> BOOLEAN]
  /\ UNCHANGED <<magic, sched_priority>>
  /\ \A u \in Threads : u # t => pc'[u] = pc[u] /\ write'[u] = write[u]
  /\ pc'[t] \in {"idle", "gone"}

\* The fields w and d that wake_waiters() starts from differ from those of the
\* lock at most in what thread t held, and its list q at most by t.
OnlyReleases(t, w, q, d) ==
  /\ q \in SUBSET queue
  /\ t \notin q
  /\ queue \subseteq q \cup {t}
  /\ \A u \in Threads : u # t => d[u] = depth[u]
  /\ \A u \in Threads : d[u] <= depth[u]
  /\ \A u \in Threads : u # t /\ writer = u => w = u
  /\ w \in {writer, None}

\* The invariant after wake_waiters() ran in a step of a thread t.
LEMMA WakeStepCorrect ==
  ASSUME IInv, NEW t \in Threads, NEW w, NEW r, NEW ww, NEW q, NEW d,
         WakeBefore(w, r, ww, q, d), OnlyReleases(t, w, q, d),
         WakeWaiters(w, r, ww, q, d), CallEnds(t)
  PROVE  IInv'
<1>0. TypeOK
  BY DEF IInv
<1>1. WakeAfter(w, q, d)
  BY <1>0, WakeWaitersCorrect
<1>2. q \in SUBSET Threads /\ t \notin q
  BY DEF WakeBefore, OnlyReleases
<1>3. queue' \subseteq q
  BY <1>1 DEF WakeAfter
<1>4. \A u \in q : u \in Threads /\ u # t
                     /\ pc'[u] = pc[u] /\ write'[u] = write[u]
  BY <1>2 DEF CallEnds
<1>5. TypeOK'
  BY <1>0, <1>1, <1>2, <1>3 DEF TypeOK, WakeAfter, CallEnds
<1>6. waiting_writers' = Cardinality(QueuedWriters(queue)')
  <2>1. QueuedWriters(queue)' = QueuedWriters(queue')
    BY <1>3, <1>4 DEF QueuedWriters
  <2> QED
    BY <1>1, <2>1 DEF WakeAfter
<1>7. Exclusion' /\ NoStrandedWaiter'
  BY <1>1 DEF WakeAfter, Exclusion, NoStrandedWaiter
<1>8. QueueOrder(queue)'
  BY <1>1 DEF WakeAfter, QueueOrder
<1>9. CallsConsistent'
  <2>1. \A u \in q : pc[u] = "wait"
    BY DEF IInv, CallsConsistent, OnlyReleases
  <2>2. \A u \in queue' : pc'[u] = "wait"
    BY <1>3, <1>4, <2>1
  <2>3. \A u \in q : ~write[u] => d[u] < MaxHold
    BY DEF WakeBefore
  <2>4. \A u \in queue' : depth'[u] = d[u]
    BY <1>1, <1>2 DEF WakeAfter
  <2>5. \A u \in queue' : ~write'[u] => depth'[u] < MaxHold
    BY <1>3, <1>4, <2>3, <2>4
  <2>6. ASSUME NEW u \in Threads, pc'[u] = "allocate", ~write'[u]
        PROVE  depth'[u] < MaxHold
    <3>1. u # t /\ pc[u] = "allocate" /\ ~write[u]
      BY <2>6 DEF CallEnds
    <3>2. u \notin queue /\ depth[u] < MaxHold
      BY <3>1 DEF IInv, CallsConsistent
    <3>3. u \notin q /\ d[u] = depth[u]
      BY <3>1, <3>2 DEF OnlyReleases
    <3>4. depth'[u] = d[u]
      BY <1>1, <3>3 DEF WakeAfter
    <3> QED
      BY <3>2, <3>3, <3>4
  <2>7. \A u \in Threads : ahead'[u] \subseteq queue'
    BY <1>1 DEF WakeAfter
  <2> QED
    BY <2>2, <2>5, <2>6, <2>7 DEF CallsConsistent
<1>10. GrantMatchesPost'
  <2> SUFFICES ASSUME NEW u \in Threads, pc'[u] = "wait"
               PROVE  /\ u \in queue' <=> semaphore'[u] = 0
                      /\ u \notin queue' => IF write'[u] THEN writer' = u
                                                         ELSE depth'[u] > 0
    BY DEF GrantMatchesPost
  <2>1. u # t /\ pc[u] = "wait" /\ write'[u] = write[u]
    BY DEF CallEnds
  <2>2. /\ u \in queue <=> semaphore[u] = 0
        /\ u \notin queue => IF write[u] THEN writer = u ELSE depth[u] > 0
    BY <2>1 DEF IInv, GrantMatchesPost
  <2>3. CASE u \in q /\ u \notin queue'
    <3>1. /\ semaphore'[u] = 1
          /\ IF write[u] THEN writer' = u ELSE depth'[u] > 0
      BY <1>1, <2>3 DEF WakeAfter
    <3>2. semaphore'[u] # 0
      BY <3>1, SMTT(30)
    <3>3. IF write'[u] THEN writer' = u ELSE depth'[u] > 0
      BY <2>1, <3>1
    <3> QED
      BY <2>3, <3>2, <3>3
  <2>4. CASE u \in q /\ u \in queue'
    <3>1. u \in queue /\ semaphore'[u] = semaphore[u]
      BY <1>1, <2>4 DEF WakeAfter, OnlyReleases
    <3> QED
      BY <2>2, <2>4, <3>1
  <2>5. CASE u \notin q
    <3>1. u \notin queue /\ d[u] = depth[u]
      BY <2>1, <2>5 DEF OnlyReleases
    <3>2. u \notin queue' /\ semaphore'[u] = semaphore[u]
          /\ depth'[u] = depth[u]
      BY <1>1, <2>5, <3>1 DEF WakeAfter
    <3>3. writer = u => w = u
      BY <2>1 DEF OnlyReleases
    <3>4. w # None => writer' = w
      BY <1>1 DEF WakeAfter
    <3>5. writer = u => writer' = u
      BY <3>3, <3>4, ThreadsAssumption
    <3>6. semaphore'[u] # 0
      BY <2>2, <3>1, <3>2
    <3>7. IF write'[u] THEN writer' = u ELSE depth'[u] > 0
      BY <2>1, <2>2, <3>1, <3>2, <3>5
    <3> QED
      BY <3>2, <3>6, <3>7
  <2> QED
    BY <2>3, <2>4, <2>5
<1> QED
  BY <1>5, <1>6, <1>7, <1>8, <1>9, <1>10 DEF IInv

\* A step of thread t that ends in wake_waiters().
WakeStep(t) ==
  \E w, r, ww, q, d :
    /\ WakeBefore(w, r, ww, q, d)
    /\ OnlyReleases(t, w, q, d)
    /\ WakeWaiters(w, r, ww, q, d)
    /\ CallEnds(t)

\* unlink_waiter() followed by wake_waiters(), on the way out of a call.
LEMMA UnlinkIsWakeStep ==
  ASSUME IInv, NEW t \in queue, NEW to \in {"idle", "gone"},
         UnlinkAndWake(t), Return(t, to), UNCHANGED <<magic, sched_priority>>
  PROVE  WakeStep(t)
<1> DEFINE q == queue \ {t}
           ww == IF write[t] THEN waiting_writers - 1 ELSE waiting_writers
<1>0. TypeOK /\ t \in Threads /\ write[t] \in BOOLEAN
  BY DEF IInv, TypeOK
<1>1. ww = Cardinality(QueuedWriters(q)) /\ ww \in Nat
  <2>1. QueuedWriters(queue) \in SUBSET Threads
    BY <1>0 DEF QueuedWriters, TypeOK
  <2>2. IsFiniteSet(QueuedWriters(queue))
    BY <2>1, ThreadsAssumption, FS_Subset
  <2>3. waiting_writers = Cardinality(QueuedWriters(queue))
    BY DEF IInv
  <2>4. CASE write[t]
    <3>1. QueuedWriters(q) = QueuedWriters(queue) \ {t}
          /\ t \in QueuedWriters(queue)
      BY <2>4 DEF QueuedWriters
    <3>2. Cardinality(QueuedWriters(queue) \ {t})
            = Cardinality(QueuedWriters(queue)) - 1
      BY <2>2, <3>1, FS_RemoveElement
    <3>3. IsFiniteSet(QueuedWriters(queue) \ {t})
      BY <2>2, FS_RemoveElement
    <3>4. Cardinality(QueuedWriters(queue) \ {t}) \in Nat
      BY <3>3, FS_CardinalityType
    <3> HIDE DEF q
    <3> QED
      BY <2>3, <2>4, <3>1, <3>2, <3>4
  <2>5. CASE ~write[t]
    <3>1. QueuedWriters(q) = QueuedWriters(queue)
      BY <2>5 DEF QueuedWriters
    <3> QED
      BY <1>0, <2>3, <2>5, <3>1 DEF TypeOK
  <2> QED
    BY <2>4, <2>5
<1>2. WakeBefore(writer, readers, ww, q, depth)
  BY <1>0, <1>1
     DEF WakeBefore, IInv, TypeOK, Exclusion, QueueOrder, CallsConsistent
<1>3. WakeWaiters(writer, readers, ww, q, depth)
  BY DEF UnlinkAndWake
<1>4. CallEnds(t)
  BY <1>0 DEF Return, TypeOK, CallEnds
<1>5. OnlyReleases(t, writer, q, depth)
  <2>1. \A u \in Threads : depth[u] <= depth[u]
    BY <1>0, MaxHoldAssumption, SMTT(30) DEF TypeOK
  <2> QED
    BY <2>1 DEF OnlyReleases
<1> HIDE DEF q, ww
<1> QED
  BY <1>2, <1>3, <1>4, <1>5 DEF WakeStep

\* pthread_rwlock_unlock() releases one grant and wakes.
LEMMA UnlockIsWakeStep ==
  ASSUME IInv, NEW t \in Threads, Unlock(t)
  PROVE  WakeStep(t)
<1> DEFINE w == IF writer = t THEN None ELSE writer
           r == IF writer = t THEN readers ELSE readers - 1
           d == IF writer = t THEN depth ELSE [depth EXCEPT ![t] = @ - 1]
<1>0. TypeOK
  BY DEF IInv
<1>1. /\ r \in Nat
      /\ r = Cardinality(ReadHolds(d))
      /\ d \in [Threads -> 0..MaxHold]
      /\ \A u \in Threads : u # t => d[u] = depth[u]
      /\ \A u \in Threads : d[u] <= depth[u]
      /\ w # None => r = 0
      /\ w \in Threads \cup {None}
  <2>1. CASE writer = t
    BY <1>0, <2>1, SMTT(30) DEF IInv, TypeOK, Exclusion
  <2>2. CASE writer # t
    <3>1. depth[t] > 0 /\ depth \in [Threads -> 0..MaxHold]
      BY <1>0, <2>2 DEF Unlock, TypeOK
    <3> DEFINE e == [depth EXCEPT ![t] = @ - 1]
    <3>2. /\ Cardinality(ReadHolds(depth)) > 0
          /\ Cardinality(ReadHolds(e)) = Cardinality(ReadHolds(depth)) - 1
      BY <3>1, ReadHoldsRemove
    <3>3. e \in [Threads -> 0..MaxHold]
      BY <3>1, MaxHoldAssumption, SMTT(30)
    <3>4. readers = Cardinality(ReadHolds(depth)) /\ readers \in Nat
      BY <1>0 DEF IInv, Exclusion, TypeOK
    <3>5. writer = None
      BY <3>2, <3>4, SMTT(30) DEF IInv, Exclusion
    <3>6. r = readers - 1 /\ d = e /\ w = None
      BY <2>2, <3>5
    <3>7. r \in Nat /\ r = Cardinality(ReadHolds(d))
      <4> HIDE DEF r, d, e
      <4> QED BY <3>2, <3>4, <3>6, SMTT(30)
    <3>8. /\ \A u \in Threads : u # t => e[u] = depth[u]
          /\ \A u \in Threads : e[u] <= depth[u]
      BY <3>1, MaxHoldAssumption, SMTT(30)
    <3> HIDE DEF r, d, e, w
    <3> QED
      BY <3>3, <3>6, <3>7, <3>8
  <2> QED
    BY <2>1, <2>2
<1>2. WakeBefore(w, r, waiting_writers, queue, d)
  <2>1. \A u \in queue : ~write[u] => d[u] < MaxHold
    <3> SUFFICES ASSUME NEW u \in queue, ~write[u]
                 PROVE  d[u] < MaxHold
      OBVIOUS
    <3>1. u \in Threads /\ depth[u] < MaxHold
      BY <1>0 DEF IInv, TypeOK, CallsConsistent
    <3>2. d[u] <= depth[u] /\ d[u] \in 0..MaxHold /\ depth[u] \in 0..MaxHold
      BY <1>0, <1>1, <3>1 DEF TypeOK
    <3> HIDE DEF d
    <3> QED
      BY <3>1, <3>2, MaxHoldAssumption, SMTT(30)
  <2> HIDE DEF w, r, d
  <2> QED
    BY <1>0, <1>1, <2>1 DEF WakeBefore, IInv, TypeOK
<1>3. WakeWaiters(w, r, waiting_writers, queue, d)
  BY DEF Unlock
<1>4. CallEnds(t)
  BY <1>0 DEF Unlock, TypeOK, CallEnds
<1>5. OnlyReleases(t, w, queue, d)
  <2>1. t \notin queue
    BY DEF Unlock, IInv, CallsConsistent
  <2>2. /\ \A u \in Threads : u # t /\ writer = u => w = u
        /\ w \in {writer, None}
    OBVIOUS
  <2> HIDE DEF w, r, d
  <2> QED
    BY <1>1, <2>1, <2>2 DEF OnlyReleases
<1> HIDE DEF w, r, d
<1> QED
  BY <1>2, <1>3, <1>4, <1>5 DEF WakeStep

-----------------------------------------------------------------------------

\* A grant in the first or the second section of rwlock_acquire().
LEMMA GrantCorrect ==
  ASSUME IInv, NEW t \in Threads, NEW w \in BOOLEAN,
         pc[t] \in {"idle", "allocate"},
         ~w => depth[t] < MaxHold, Available(t, w), Record(t, w),
         UNCHANGED <<waiting_writers, queue, ahead, semaphore,
                     sched_priority>>,
         magic' \in {"zero", "live", "dead"},
         pc' \in [Threads -> {"idle", "allocate", "wait", "gone"}],
         write' \in [Threads -> BOOLEAN],
         timed' \in [Threads -> BOOLEAN],
         \A u \in Threads : u # t => pc'[u] = pc[u] /\ write'[u] = write[u],
         pc'[t] = "idle"
  PROVE  IInv'
<1>1. /\ writer' \in Threads \cup {None}
      /\ readers' \in Nat
      /\ depth' \in [Threads -> 0..MaxHold]
      /\ writer' # None => readers' = 0
      /\ readers' = Cardinality(ReadHolds(depth'))
      /\ ~(writer' = None /\ readers' = 0)
      /\ \A u \in Threads : u # t => depth'[u] = depth[u]
      /\ \A u \in Threads : writer # u
      /\ \A u \in Threads : depth'[u] >= depth[u]
  BY RecordCorrect
<1>2. t \notin queue
  BY DEF IInv, CallsConsistent
<1>3. TypeOK'
  BY <1>1 DEF IInv, TypeOK
<1>4. QueuedWriters(queue)' = QueuedWriters(queue)
  BY <1>2 DEF QueuedWriters, IInv, TypeOK
<1>5. Exclusion' /\ NoStrandedWaiter'
  BY <1>1 DEF Exclusion, NoStrandedWaiter
<1>6. GrantMatchesPost'
  BY <1>1, <1>2 DEF IInv, GrantMatchesPost, TypeOK
<1>7. QueueOrder(queue)'
  BY DEF IInv, QueueOrder
<1>8. CallsConsistent'
  BY <1>1, <1>2 DEF IInv, CallsConsistent, TypeOK
<1> QED
  BY <1>3, <1>4, <1>5, <1>6, <1>7, <1>8 DEF IInv

\* Steps that leave the lock and the grants alone, except for the magic word
\* and the stepping thread's semaphore.
LEMMA QuietStepCorrect ==
  ASSUME IInv, NEW t \in Threads, t \notin queue,
         UNCHANGED <<writer, readers, waiting_writers, queue, ahead, depth>>,
         semaphore' \in [Threads -> {0, 1}],
         sched_priority' \in [Threads -> Priorities],
         magic' \in {"zero", "live", "dead"},
         pc' \in [Threads -> {"idle", "allocate", "wait", "gone"}],
         write' \in [Threads -> BOOLEAN],
         timed' \in [Threads -> BOOLEAN],
         \A u \in Threads : u # t =>
            pc'[u] = pc[u] /\ write'[u] = write[u]
              /\ semaphore'[u] = semaphore[u],
         pc'[t] # "wait",
         pc'[t] = "allocate" /\ ~write'[t] => depth[t] < MaxHold
  PROVE  IInv'
<1>1. TypeOK'
  BY DEF IInv, TypeOK
<1>2. QueuedWriters(queue)' = QueuedWriters(queue)
  BY SMTT(30) DEF QueuedWriters, IInv, TypeOK
<1>3. Exclusion' /\ NoStrandedWaiter'
  BY DEF IInv, Exclusion, NoStrandedWaiter
<1>4. GrantMatchesPost'
  BY DEF IInv, GrantMatchesPost, TypeOK
<1>5. QueueOrder(queue)'
  BY DEF IInv, QueueOrder
<1>6. CallsConsistent'
  BY DEF IInv, CallsConsistent, TypeOK
<1> QED
  BY <1>1, <1>2, <1>3, <1>4, <1>5, <1>6 DEF IInv

\* Steps that change at most the magic word and the priorities.
LEMMA FrameCorrect ==
  ASSUME IInv,
         UNCHANGED <<writer, readers, waiting_writers, queue, ahead,
                     semaphore, pc, write, timed, depth>>,
         sched_priority' \in [Threads -> Priorities],
         magic' \in {"zero", "live", "dead"}
  PROVE  IInv'
<1>1. TypeOK'
  BY DEF IInv, TypeOK
<1>2. QueuedWriters(queue)' = QueuedWriters(queue)
  BY DEF QueuedWriters
<1>3. Exclusion' /\ NoStrandedWaiter'
  BY DEF IInv, Exclusion, NoStrandedWaiter
<1>4. GrantMatchesPost'
  BY DEF IInv, GrantMatchesPost
<1>5. QueueOrder(queue)'
  BY DEF IInv, QueueOrder
<1>6. CallsConsistent'
  BY DEF IInv, CallsConsistent
<1> QED
  BY <1>1, <1>2, <1>3, <1>4, <1>5, <1>6 DEF IInv

\* The inductive invariant is kept by every step.
LEMMA NextInvariant == IInv /\ [Next]_vars => IInv'
<1> SUFFICES ASSUME IInv, [Next]_vars PROVE IInv'
  OBVIOUS
<1>0. TypeOK /\ CallsConsistent
  BY DEF IInv
<1>1. ASSUME NEW t \in Threads, NEW w \in BOOLEAN, AcquireImmediately(t, w)
      PROVE  IInv'
  <2>1. /\ pc[t] \in {"idle", "allocate"}
        /\ ~w => depth[t] < MaxHold
        /\ Available(t, w) /\ Record(t, w)
        /\ UNCHANGED <<waiting_writers, queue, ahead, semaphore,
                       sched_priority>>
        /\ magic' \in {"zero", "live", "dead"}
        /\ UNCHANGED <<pc, write, timed>>
        /\ pc'[t] = "idle"
    BY <1>1 DEF AcquireImmediately
  <2> QED
    BY <1>0, <2>1, GrantCorrect DEF TypeOK
<1>2. ASSUME NEW t \in Threads, NEW w \in BOOLEAN, NEW d \in BOOLEAN,
             AcquireMustWait(t, w, d)
      PROVE  IInv'
  BY <1>0, <1>2, QuietStepCorrect DEF AcquireMustWait, TypeOK, CallsConsistent
<1>3. ASSUME NEW t \in Threads, AllocateFails(t)
      PROVE  IInv'
  BY <1>0, <1>3, QuietStepCorrect
     DEF AllocateFails, Return, lockVars, TypeOK, CallsConsistent
<1>4. ASSUME NEW t \in Threads, AcquireAfterAllocate(t)
      PROVE  IInv'
  <2>1. /\ pc[t] \in {"idle", "allocate"}
        /\ ~write[t] => depth[t] < MaxHold
        /\ Available(t, write[t]) /\ Record(t, write[t])
        /\ UNCHANGED <<waiting_writers, queue, ahead, semaphore,
                       sched_priority>>
        /\ magic' \in {"zero", "live", "dead"}
        /\ Return(t, "idle")
    BY <1>0, <1>4 DEF AcquireAfterAllocate, TypeOK, CallsConsistent
  <2>2. /\ write[t] \in BOOLEAN
        /\ pc' \in [Threads -> {"idle", "allocate", "wait", "gone"}]
        /\ write' \in [Threads -> BOOLEAN]
        /\ timed' \in [Threads -> BOOLEAN]
        /\ \A u \in Threads : u # t => pc'[u] = pc[u] /\ write'[u] = write[u]
        /\ pc'[t] = "idle"
    BY <1>0, <2>1 DEF Return, TypeOK
  <2> QED
    BY <2>1, <2>2, GrantCorrect
<1>5. ASSUME NEW t \in Threads, Enqueue(t)
      PROVE  IInv'
  BY <1>5, EnqueueCorrect
<1>6. ASSUME NEW t \in Threads, Woken(t)
      PROVE  IInv'
  <2>1. t \notin queue
    <3>1. pc[t] = "wait" /\ semaphore[t] = 1
      BY <1>6 DEF Woken
    <3>2. GrantMatchesPost
      BY DEF IInv
    <3> QED
      BY <3>1, <3>2, SMTT(30) DEF GrantMatchesPost
  <2> QED
    BY <1>0, <1>6, <2>1, QuietStepCorrect
       DEF Woken, Return, lockVars, TypeOK
<1>7. ASSUME NEW t \in Threads, TimeoutLinked(t)
      PROVE  IInv'
  <2>1. t \in queue /\ WakeStep(t)
    BY <1>7, UnlinkIsWakeStep DEF TimeoutLinked
  <2> QED
    BY <2>1, WakeStepCorrect DEF WakeStep
<1>8. ASSUME NEW t \in Threads, TimeoutGranted(t)
      PROVE  IInv'
  BY <1>0, <1>8, QuietStepCorrect DEF TimeoutGranted, Return, lockVars, TypeOK
<1>9. ASSUME NEW t \in Threads, Abandon(t)
      PROVE  IInv'
  <2>1. CASE t \in queue
    <3>1. WakeStep(t)
      BY <1>9, <2>1, UnlinkIsWakeStep DEF Abandon
    <3> QED
      BY <3>1, WakeStepCorrect DEF WakeStep
  <2>2. CASE t \notin queue
    <3>1. PICK to \in {"gone", "idle"} : Return(t, to)
      BY <1>9 DEF Abandon
    <3> QED
      BY <1>0, <1>9, <2>2, <3>1, QuietStepCorrect DEF Abandon, Return, TypeOK
  <2> QED
    BY <2>1, <2>2
<1>10. ASSUME NEW t \in Threads, Unlock(t)
       PROVE  IInv'
  <2>1. WakeStep(t)
    BY <1>10, UnlockIsWakeStep
  <2> QED
    BY <2>1, WakeStepCorrect DEF WakeStep
<1>11. CASE Destroy
  BY <1>0, <1>11, FrameCorrect DEF Destroy, callVars, TypeOK
<1>12. ASSUME NEW t \in Threads, NEW p \in Priorities, SetSchedParam(t, p)
       PROVE  IInv'
  BY <1>0, <1>12, FrameCorrect DEF SetSchedParam, lockVars, callVars, TypeOK
<1>13. CASE UNCHANGED vars
  BY <1>0, <1>13, FrameCorrect DEF vars, TypeOK
<1> QED
  BY <1>1, <1>2, <1>3, <1>4, <1>5, <1>6, <1>7, <1>8, <1>9, <1>10, <1>11,
     <1>12, <1>13, RestlessAssumption DEF Next

\* Every reachable state satisfies the inductive invariant.
THEOREM InductiveInvariant == Spec => []IInv
BY InitInvariant, NextInvariant, PTL DEF Spec

\* pthread_rwlock_t: the fields keep their types.
THEOREM TypeCorrect == Spec => []TypeOK
<1>1. IInv => TypeOK
  BY DEF IInv
<1> QED
  BY <1>1, InductiveInvariant, PTL

\* A writer excludes readers and other writers, and the count of readers is
\* what the callers were granted, for any number of threads and priorities.
THEOREM ExclusionHolds == Spec => []Exclusion
<1>1. IInv => Exclusion
  BY DEF IInv
<1> QED
  BY <1>1, InductiveInvariant, PTL

\* A lock that nobody holds has no linked waiter: no wakeup is lost.
THEOREM NoWakeupLost == Spec => []NoStrandedWaiter
<1>1. IInv => NoStrandedWaiter
  BY DEF IInv
<1> QED
  BY <1>1, InductiveInvariant, PTL

\* wake_waiters() always finds a best writer when waiting_writers says so.
THEOREM BestWriterFound == Spec => []WaitingWritersCounted
<1>1. IInv => WaitingWritersCounted
  <2> SUFFICES ASSUME IInv PROVE WaitingWritersCounted
    OBVIOUS
  <2>1. TypeOK /\ QueueOrder(queue) /\ queue \in SUBSET Threads
        /\ waiting_writers = Cardinality(QueuedWriters(queue))
    BY DEF IInv, TypeOK
  <2>2. ASSUME waiting_writers # 0 PROVE \E x \in queue : BestWriter(x, queue)
    <3>1. QueuedWriters(queue) # {}
      BY <2>1, <2>2, FS_EmptySet
    <3> QED
      BY <2>1, <3>1, BestWriterExists DEF QueuedWriters
  <2> QED
    BY <2>1, <2>2 DEF WaitingWritersCounted
<1> QED
  BY <1>1, InductiveInvariant, PTL

\* A sleeping thread is granted the lock exactly when it is unlinked and its
\* semaphore is posted.
THEOREM GrantsArePosted == Spec => []GrantMatchesPost
<1>1. IInv => GrantMatchesPost
  BY DEF IInv
<1> QED
  BY <1>1, InductiveInvariant, PTL

-----------------------------------------------------------------------------
(* The order of the grants.                                                *)

\* wake_waiters() leaves the list alone while there is a writer, admits the
\* readers that outrank the queued writers or, when there is none and nobody
\* reads, hands the lock to the best writer.
LEMMA WakeChoice ==
  ASSUME TypeOK, NEW w, NEW r, NEW ww, NEW q, NEW d,
         WakeBefore(w, r, ww, q, d),
         WakeWaiters(w, r, ww, q, d)
  PROVE  /\ \/ w # None /\ queue' = q /\ writer' = w
            \/ w = None /\ queue' = q \ AdmittedReaders(q) /\ writer' = None
            \/ /\ w = None /\ AdmittedReaders(q) = {}
               /\ \E b \in q : /\ BestWriter(b, q)
                               /\ queue' = q \ {b}
                               /\ writer' = b
         /\ ahead' = [t \in Threads |->
                        IF t \in queue' THEN ahead[t] \cap queue' ELSE {}]
<1> USE DEF WakeBefore
<1> DEFINE admitted == IF w # None THEN {} ELSE AdmittedReaders(q)
           r1 == r + Cardinality(admitted)
           handOff == w = None /\ r1 = 0 /\ ww # 0
           best == CHOOSE b \in q : BestWriter(b, q)
           gone == admitted \cup (IF handOff THEN {best} ELSE {})
<1>1. /\ writer' = IF handOff THEN best ELSE w
      /\ queue' = q \ gone
      /\ ahead' = [t \in Threads |->
                     IF t \in q \ gone THEN ahead[t] \cap (q \ gone) ELSE {}]
  BY DEF WakeWaiters
<1>2. IsFiniteSet(admitted)
  <2>1. admitted \in SUBSET q
    BY DEF AdmittedReaders
  <2>2. IsFiniteSet(q)
    BY ThreadsAssumption, FS_Subset
  <2> HIDE DEF admitted
  <2> QED
    BY <2>1, <2>2, FS_Subset
<1>3. Cardinality(admitted) \in Nat
  BY <1>2, FS_CardinalityType
<1>4. CASE handOff
  <2>1. Cardinality(admitted) = 0
    BY <1>3, <1>4, SMTT(30)
  <2>2. admitted = {}
    BY <1>2, <2>1, FS_EmptySet
  <2>3. QueuedWriters(q) # {}
    BY <1>4, FS_EmptySet
  <2>4. \E x \in q : BestWriter(x, q)
    BY <2>3, BestWriterExists DEF QueuedWriters
  <2>5. best \in q /\ BestWriter(best, q)
    BY <2>4
  <2> QED
    BY <1>1, <1>4, <2>2, <2>5
<1>5. CASE ~handOff
  BY <1>1, <1>5
<1> HIDE DEF handOff
<1> QED
  BY <1>4, <1>5

\* Whoever wake_waiters() takes from the list goes before whoever it leaves,
\* and the readers it leaves are held back by a writer it leaves.
LEMMA WakeOrder ==
  ASSUME TypeOK, NEW w, NEW r, NEW ww, NEW q, NEW d,
         WakeBefore(w, r, ww, q, d),
         WakeWaiters(w, r, ww, q, d)
  PROVE  /\ writer' = None => \A t \in queue' :
              ~write[t] => ~OutranksWriters(t, queue')
         /\ \A a \in q \ queue', b \in queue' :
              \/ sched_priority[b] < sched_priority[a]
              \/ /\ sched_priority[b] = sched_priority[a]
                 /\ write[a]
                 /\ write[b] => b \notin ahead[a]
         /\ writer' # w => writer' \in q \ queue'
<1>0. /\ q \in SUBSET Threads
      /\ w \in Threads \cup {None}
      /\ \A x \in q : sched_priority[x] \in Nat
  BY PrioritiesAssumption DEF WakeBefore, TypeOK
<1>1. CASE w # None /\ queue' = q /\ writer' = w
  BY <1>1
<1>2. CASE w = None /\ queue' = q \ AdmittedReaders(q) /\ writer' = None
  <2>1. ASSUME NEW t \in queue', ~write[t]
        PROVE  \E x \in queue' : write[x] /\ sched_priority[t] <= sched_priority[x]
    <3>1. t \in q /\ ~OutranksWriters(t, q)
      BY <1>2, <2>1 DEF AdmittedReaders
    <3>2. PICK x \in q : write[x] /\ ~(sched_priority[x] < sched_priority[t])
      BY <3>1 DEF OutranksWriters
    <3>3. x \in queue'
      BY <1>2, <3>2 DEF AdmittedReaders
    <3> QED
      BY <1>0, <3>1, <3>2, <3>3, SMTT(30)
  <2>2. \A t \in queue' : ~write[t] => ~OutranksWriters(t, queue')
    <3> SUFFICES ASSUME NEW t \in queue', ~write[t]
                 PROVE  ~OutranksWriters(t, queue')
      OBVIOUS
    <3>1. PICK x \in queue' :
            write[x] /\ sched_priority[t] <= sched_priority[x]
      BY <2>1
    <3>2. t \in q /\ x \in q
      BY <1>2
    <3> QED
      BY <1>0, <3>1, <3>2, SMTT(30) DEF OutranksWriters
  <2>3. ASSUME NEW a \in q \ queue', NEW b \in queue'
        PROVE  sched_priority[b] < sched_priority[a]
    <3>1. \A x \in q : write[x] => sched_priority[x] < sched_priority[a]
      BY <1>2, <2>3 DEF AdmittedReaders, OutranksWriters
    <3>2. a \in q /\ b \in q
      BY <1>2
    <3>3. CASE write[b]
      BY <3>1, <3>2, <3>3
    <3>4. CASE ~write[b]
      <4>1. PICK x \in queue' :
              write[x] /\ sched_priority[b] <= sched_priority[x]
        BY <2>1, <3>4
      <4>2. x \in q /\ sched_priority[x] < sched_priority[a]
        BY <1>2, <3>1, <4>1
      <4> QED
        BY <1>0, <3>2, <4>1, <4>2, SMTT(30)
    <3> QED
      BY <3>3, <3>4
  <2> QED
    BY <1>2, <2>2, <2>3
<1>3. ASSUME w = None, AdmittedReaders(q) = {}, NEW c \in q, BestWriter(c, q),
             queue' = q \ {c}, writer' = c
      PROVE  /\ writer' # None
             /\ \A b \in queue' :
                  \/ sched_priority[b] < sched_priority[c]
                  \/ /\ sched_priority[b] = sched_priority[c]
                     /\ write[c]
                     /\ write[b] => b \notin ahead[c]
             /\ writer' \in q \ queue'
  <2>1. writer' # None
    BY <1>0, <1>3, ThreadsAssumption
  <2>2. ASSUME NEW b \in queue'
        PROVE  \/ sched_priority[b] < sched_priority[c]
               \/ /\ sched_priority[b] = sched_priority[c]
                  /\ write[c]
                  /\ write[b] => b \notin ahead[c]
    <3>1. b \in q /\ sched_priority[b] \in Nat /\ sched_priority[c] \in Nat
      BY <1>0, <1>3
    <3>2. /\ write[c]
          /\ \A y \in q : write[y] => sched_priority[y] <= sched_priority[c]
          /\ \A y \in ahead[c] \cap q :
               write[y] => sched_priority[y] < sched_priority[c]
      BY <1>3 DEF BestWriter
    <3>3. CASE write[b]
      BY <3>1, <3>2, <3>3, SMTT(30)
    <3>4. CASE ~write[b]
      <4>1. PICK x \in q : write[x] /\ ~(sched_priority[x] < sched_priority[b])
        BY <1>3, <3>1, <3>4 DEF AdmittedReaders, OutranksWriters
      <4>2. sched_priority[x] \in Nat /\ sched_priority[x] <= sched_priority[c]
        BY <1>0, <3>2, <4>1
      <4>3. sched_priority[b] <= sched_priority[c]
        BY <3>1, <4>1, <4>2, SMTT(30)
      <4> QED
        BY <3>1, <3>2, <3>4, <4>3, SMTT(30)
    <3> QED
      BY <3>3, <3>4
  <2> QED
    BY <1>3, <2>1, <2>2
<1>4. CASE /\ w = None /\ AdmittedReaders(q) = {}
           /\ \E b \in q : BestWriter(b, q) /\ queue' = q \ {b} /\ writer' = b
  BY <1>3, <1>4, SMTT(30)
<1> QED
  BY <1>1, <1>2, <1>4, WakeChoice

\* A step that ends in wake_waiters() keeps the order of the list and grants
\* in that order.
LEMMA WakeStepOrder ==
  ASSUME IInv, OrderInv, NEW t \in Threads, WakeStep(t),
         UNCHANGED sched_priority
  PROVE  OrderInv' /\ GrantsInOrder
<1>0. TypeOK
  BY DEF IInv
<1>1. PICK w, r, ww, q, d :
        /\ WakeBefore(w, r, ww, q, d)
        /\ OnlyReleases(t, w, q, d)
        /\ WakeWaiters(w, r, ww, q, d)
        /\ CallEnds(t)
  BY DEF WakeStep
<1>2. WakeAfter(w, q, d)
  BY <1>0, <1>1, WakeWaitersCorrect
<1>3. /\ writer' = None => \A u \in queue' :
           ~write[u] => ~OutranksWriters(u, queue')
      /\ \A a \in q \ queue', b \in queue' :
           \/ sched_priority[b] < sched_priority[a]
           \/ /\ sched_priority[b] = sched_priority[a]
              /\ write[a]
              /\ write[b] => b \notin ahead[a]
      /\ writer' # w => writer' \in q \ queue'
  BY <1>0, <1>1, WakeOrder
<1>4. ahead' = [u \in Threads |->
                  IF u \in queue' THEN ahead[u] \cap queue' ELSE {}]
  BY <1>0, <1>1, WakeChoice
<1>5. queue' \subseteq q /\ q \subseteq queue /\ q \subseteq Threads
  BY <1>1, <1>2 DEF WakeAfter, OnlyReleases, WakeBefore
<1>6. \A u \in q : write'[u] = write[u]
  BY <1>1, <1>5 DEF CallEnds, OnlyReleases
<1>7. NoEligibleReaderWaits'
  <2>1. \A u \in queue' : OutranksWriters(u, queue)' = OutranksWriters(u, queue')
    BY <1>5, <1>6 DEF OutranksWriters
  <2> QED
    BY <1>3, <1>5, <1>6, <2>1 DEF NoEligibleReaderWaits
<1>8. ListTotal'
  BY <1>4, <1>5 DEF OrderInv, ListTotal
<1>9. \A a \in Admitted : a \in q \ queue'
  <2> SUFFICES ASSUME NEW a \in Threads, a \notin q \ queue',
                      (writer' = a /\ writer # a) \/ depth'[a] > depth[a]
               PROVE  FALSE
    BY DEF Admitted
  <2>1. depth'[a] = d[a] /\ d[a] <= depth[a]
    BY <1>1, <1>2 DEF WakeAfter, OnlyReleases
  <2>2. d[a] \in Nat /\ depth[a] \in Nat
    BY <1>0, <1>1, MaxHoldAssumption, SMTT(30) DEF WakeBefore, TypeOK
  <2>3. writer' = a /\ writer # a
    <3>1. \A m, n \in Nat : m <= n => ~(m > n)
      BY SMTT(30)
    <3>2. ~(d[a] > depth[a])
      BY <2>1, <2>2, <3>1
    <3> QED
      BY <2>1, <3>2
  <2>4. writer' = w
    BY <1>3, <2>3
  <2>5. w \in {writer, None}
    BY <1>1 DEF OnlyReleases
  <2> QED
    BY <2>3, <2>4, <2>5, ThreadsAssumption
<1>10. GrantsInOrder
  <2> SUFFICES ASSUME NEW a \in Admitted, NEW b \in queue \cap queue'
               PROVE  \/ sched_priority[b] < sched_priority[a]
                      \/ /\ sched_priority[b] = sched_priority[a]
                         /\ write[a]
                         /\ write[b] => a \in ahead[b]
    BY DEF GrantsInOrder
  <2>1. a \in q \ queue'
    BY <1>9
  <2>2. a # b /\ a \in queue
    BY <1>5, <2>1
  <2>3. a \in ahead[b] \/ b \in ahead[a]
    BY <2>2 DEF OrderInv, ListTotal
  <2> QED
    BY <1>3, <2>1, <2>3
<1> QED
  BY <1>7, <1>8, <1>10 DEF OrderInv

\* A grant in rwlock_try_immediate() overtakes nobody that goes before the
\* caller.
LEMMA GrantOrder ==
  ASSUME IInv, OrderInv, NEW t \in Threads, NEW w \in BOOLEAN,
         pc[t] \in {"idle", "allocate"},
         Available(t, w), Record(t, w),
         UNCHANGED <<queue, ahead, sched_priority>>,
         \A u \in Threads : u # t => write'[u] = write[u]
  PROVE  OrderInv' /\ GrantsInOrder
<1>0. TypeOK /\ queue \subseteq Threads
  BY DEF IInv, TypeOK
<1>1. t \notin queue
  BY DEF IInv, CallsConsistent
<1>2. \A u \in queue : write'[u] = write[u]
  BY <1>0, <1>1
<1>3. writer = None
  BY DEF Available
<1>4. OrderInv'
  <2>1. \A u \in queue : OutranksWriters(u, queue)' = OutranksWriters(u, queue)
    BY <1>2 DEF OutranksWriters
  <2>2. NoEligibleReaderWaits'
    BY <1>2, <1>3, <2>1 DEF OrderInv, NoEligibleReaderWaits, Settled
  <2> QED
    BY <2>2 DEF OrderInv, ListTotal
<1>5. GrantsInOrder
  <2>1. CASE w
    <3>1. queue = {}
      BY <2>1, <1>3 DEF Available, IInv, NoStrandedWaiter
    <3> QED
      BY <3>1 DEF GrantsInOrder
  <2>2. CASE ~w
    <3>1. OutranksWriters(t, queue)
      BY <2>2 DEF Available
    <3>2. \A u \in Threads : u # t => depth'[u] = depth[u]
      BY <1>0, <2>2 DEF Record, TypeOK
    <3>3. \A u \in Threads : depth[u] \in Nat
      BY <1>0, MaxHoldAssumption, SMTT(30) DEF TypeOK
    <3>4. \A a \in Admitted : a = t
      BY <1>3, <2>2, <3>2, <3>3, SMTT(30) DEF Admitted, Record
    <3>5. ASSUME Settled, NEW b \in queue
          PROVE  sched_priority[b] < sched_priority[t]
      <4>1. \A x \in Threads : sched_priority[x] \in Nat
        BY <1>0, PrioritiesAssumption DEF TypeOK
      <4>2. CASE write[b]
        BY <3>1, <4>2 DEF OutranksWriters
      <4>3. CASE ~write[b]
        <5>1. PICK x \in queue :
                write[x] /\ ~(sched_priority[x] < sched_priority[b])
          BY <1>3, <3>5, <4>3
             DEF OrderInv, NoEligibleReaderWaits, OutranksWriters
        <5>2. sched_priority[x] < sched_priority[t]
          BY <3>1, <5>1 DEF OutranksWriters
        <5> QED
          BY <1>0, <4>1, <5>1, <5>2, SMTT(30)
      <4> QED
        BY <4>2, <4>3
    <3> QED
      BY <3>4, <3>5 DEF GrantsInOrder
  <2> QED
    BY <2>1, <2>2
<1> QED
  BY <1>4, <1>5

\* Linking a waiter at the tail: it is held back by a queued writer, and it
\* holds back nobody that was eligible before.
LEMMA EnqueueOrder ==
  ASSUME IInv, OrderInv, NEW t \in Threads, Enqueue(t)
  PROVE  OrderInv' /\ GrantsInOrder
<1>0. TypeOK
  BY DEF IInv
<1>1. t \notin queue
  BY DEF Enqueue, IInv, CallsConsistent
<1>2. /\ queue' = queue \cup {t}
      /\ ahead' = [ahead EXCEPT ![t] = queue]
      /\ UNCHANGED <<writer, sched_priority, write, depth>>
      /\ ~Available(t, write[t])
  BY DEF Enqueue
<1>3. NoEligibleReaderWaits'
  <2> SUFFICES ASSUME writer = None, Settled',
                      NEW u \in queue \cup {t}, ~write[u]
               PROVE  \E x \in queue \cup {t} :
                        write[x] /\ ~(sched_priority[x] < sched_priority[u])
    BY <1>2 DEF NoEligibleReaderWaits, OutranksWriters
  <2>1. Settled
    BY <1>2 DEF Settled
  <2>2. CASE u \in queue
    BY <2>1, <2>2 DEF OrderInv, NoEligibleReaderWaits, OutranksWriters
  <2>3. CASE u = t
    BY <1>2, <2>3 DEF Available, OutranksWriters
  <2> QED
    BY <2>2, <2>3
<1>4. ListTotal'
  <2>1. ahead'[t] = queue /\ \A x \in queue : ahead'[x] = ahead[x]
    BY <1>0, <1>1, <1>2 DEF TypeOK
  <2> QED
    BY <1>2, <2>1 DEF OrderInv, ListTotal
<1>5. Admitted = {}
  <2>1. \A u \in Threads : depth[u] \in Nat
    BY <1>0, MaxHoldAssumption, SMTT(30) DEF TypeOK
  <2> QED
    BY <1>2, <2>1, SMTT(30) DEF Admitted
<1> QED
  BY <1>3, <1>4, <1>5 DEF OrderInv, GrantsInOrder

\* A step that changes neither the lock nor what its waiters wait for.
LEMMA QuietOrder ==
  ASSUME IInv, OrderInv,
         UNCHANGED <<writer, queue, ahead, sched_priority, depth>>,
         \A u \in queue : write'[u] = write[u]
  PROVE  OrderInv' /\ GrantsInOrder
<1>1. \A u \in queue : OutranksWriters(u, queue)' = OutranksWriters(u, queue)
  BY DEF OutranksWriters
<1>2. NoEligibleReaderWaits'
  BY <1>1 DEF OrderInv, NoEligibleReaderWaits, Settled
<1>3. ListTotal'
  BY DEF OrderInv, ListTotal
<1>4. \A u \in Threads : depth[u] \in Nat
  BY MaxHoldAssumption, SMTT(30) DEF IInv, TypeOK
<1>5. Admitted = {}
  BY <1>4, SMTT(30) DEF Admitted
<1> QED
  BY <1>2, <1>3, <1>5 DEF OrderInv, GrantsInOrder

\* pthread_setschedparam() on a thread that is not linked moves nobody.
LEMMA SetSchedParamOrder ==
  ASSUME IInv, OrderInv, NEW t \in Restless, NEW p \in Priorities,
         SetSchedParam(t, p)
  PROVE  OrderInv' /\ GrantsInOrder
<1>1. /\ UNCHANGED <<writer, queue, ahead, write, depth>>
      /\ sched_priority' = [sched_priority EXCEPT ![t] = p]
  BY DEF SetSchedParam, lockVars, callVars
<1>2. /\ queue \subseteq Threads
      /\ sched_priority \in [Threads -> Priorities]
      /\ \A u \in Threads : depth[u] \in Nat
  BY MaxHoldAssumption, SMTT(30) DEF IInv, TypeOK
<1>3. NoEligibleReaderWaits'
  <2> SUFFICES ASSUME writer = None, Settled, NEW u \in queue, ~write[u]
               PROVE  ~OutranksWriters(u, queue)'
    BY <1>1 DEF NoEligibleReaderWaits, Settled
  <2>1. \A x \in queue : sched_priority'[x] = sched_priority[x]
    BY <1>1, <1>2 DEF Settled
  <2>2. ~OutranksWriters(u, queue)
    BY DEF OrderInv, NoEligibleReaderWaits
  <2> QED
    BY <1>1, <2>1, <2>2 DEF OutranksWriters
<1>4. ListTotal'
  BY <1>1 DEF OrderInv, ListTotal
<1>5. Admitted = {}
  BY <1>1, <1>2, SMTT(30) DEF Admitted
<1> QED
  BY <1>3, <1>4, <1>5 DEF OrderInv, GrantsInOrder

\* Every step keeps the order of the list and grants in that order.
LEMMA NextOrder ==
  IInv /\ OrderInv /\ [Next]_vars => OrderInv' /\ GrantsInOrder
<1> SUFFICES ASSUME IInv, OrderInv, [Next]_vars
             PROVE  OrderInv' /\ GrantsInOrder
  OBVIOUS
<1>0. TypeOK /\ CallsConsistent /\ GrantMatchesPost
  BY DEF IInv
<1>1. ASSUME NEW t \in Threads, NEW w \in BOOLEAN, AcquireImmediately(t, w)
      PROVE  OrderInv' /\ GrantsInOrder
  BY <1>1, GrantOrder DEF AcquireImmediately
<1>2. ASSUME NEW t \in Threads, NEW w \in BOOLEAN, NEW d \in BOOLEAN,
             AcquireMustWait(t, w, d)
      PROVE  OrderInv' /\ GrantsInOrder
  <2>1. \A u \in queue : write'[u] = write[u]
    BY <1>0, <1>2 DEF AcquireMustWait, CallsConsistent, TypeOK
  <2> QED
    BY <1>2, <2>1, QuietOrder DEF AcquireMustWait
<1>3. ASSUME NEW t \in Threads, AllocateFails(t)
      PROVE  OrderInv' /\ GrantsInOrder
  <2>1. \A u \in queue : write'[u] = write[u]
    BY <1>0, <1>3 DEF AllocateFails, Return, CallsConsistent, TypeOK
  <2> QED
    BY <1>3, <2>1, QuietOrder DEF AllocateFails, lockVars
<1>4. ASSUME NEW t \in Threads, AcquireAfterAllocate(t)
      PROVE  OrderInv' /\ GrantsInOrder
  <2>1. /\ write[t] \in BOOLEAN
        /\ \A u \in Threads : u # t => write'[u] = write[u]
    BY <1>0, <1>4 DEF AcquireAfterAllocate, Return, TypeOK
  <2> QED
    BY <1>4, <2>1, GrantOrder DEF AcquireAfterAllocate
<1>5. ASSUME NEW t \in Threads, Enqueue(t)
      PROVE  OrderInv' /\ GrantsInOrder
  BY <1>5, EnqueueOrder
<1>6. ASSUME NEW t \in Threads, Woken(t)
      PROVE  OrderInv' /\ GrantsInOrder
  <2>1. t \notin queue
    BY <1>0, <1>6, SMTT(30) DEF Woken, GrantMatchesPost
  <2>2. \A u \in queue : write'[u] = write[u]
    BY <1>0, <1>6, <2>1 DEF Woken, Return, TypeOK
  <2> QED
    BY <1>6, <2>2, QuietOrder DEF Woken, lockVars
<1>7. ASSUME NEW t \in Threads, TimeoutLinked(t)
      PROVE  OrderInv' /\ GrantsInOrder
  <2>1. t \in queue /\ WakeStep(t)
    BY <1>7, UnlinkIsWakeStep DEF TimeoutLinked
  <2> QED
    BY <1>7, <2>1, WakeStepOrder DEF TimeoutLinked
<1>8. ASSUME NEW t \in Threads, TimeoutGranted(t)
      PROVE  OrderInv' /\ GrantsInOrder
  <2>1. \A u \in queue : write'[u] = write[u]
    BY <1>0, <1>8 DEF TimeoutGranted, Return, TypeOK
  <2> QED
    BY <1>8, <2>1, QuietOrder DEF TimeoutGranted, lockVars
<1>9. ASSUME NEW t \in Threads, Abandon(t)
      PROVE  OrderInv' /\ GrantsInOrder
  <2>1. CASE t \in queue
    <3>1. WakeStep(t)
      BY <1>9, <2>1, UnlinkIsWakeStep DEF Abandon
    <3> QED
      BY <1>9, <3>1, WakeStepOrder DEF Abandon
  <2>2. CASE t \notin queue
    <3>1. \A u \in queue : write'[u] = write[u]
      BY <1>0, <1>9, <2>2 DEF Abandon, Return, TypeOK
    <3> QED
      BY <1>9, <2>2, <3>1, QuietOrder DEF Abandon
  <2> QED
    BY <2>1, <2>2
<1>10. ASSUME NEW t \in Threads, Unlock(t)
       PROVE  OrderInv' /\ GrantsInOrder
  <2>1. WakeStep(t)
    BY <1>10, UnlockIsWakeStep
  <2> QED
    BY <1>10, <2>1, WakeStepOrder DEF Unlock
<1>11. CASE Destroy
  BY <1>11, QuietOrder DEF Destroy, callVars
<1>12. ASSUME NEW t \in Restless, NEW p \in Priorities, SetSchedParam(t, p)
       PROVE  OrderInv' /\ GrantsInOrder
  BY <1>12, SetSchedParamOrder
<1>13. CASE UNCHANGED vars
  BY <1>13, QuietOrder DEF vars, lockVars, callVars
<1> QED
  BY <1>1, <1>2, <1>3, <1>4, <1>5, <1>6, <1>7, <1>8, <1>9, <1>10, <1>11,
     <1>12, <1>13 DEF Next

\* The list is in order in every reachable state.
LEMMA OrderInvariant == Spec => [](IInv /\ OrderInv)
<1>1. Init => OrderInv
  BY DEF Init, OrderInv, NoEligibleReaderWaits, ListTotal
<1> QED
  BY <1>1, InitInvariant, NextInvariant, NextOrder, PTL DEF Spec

\* No reader stays on the list that no writer holds back: every unlock,
\* timeout and cleanup lets the readers in that it made eligible.
THEOREM EligibleReadersAdmitted == Spec => []NoEligibleReaderWaits
<1>1. OrderInv => NoEligibleReaderWaits
  BY DEF OrderInv
<1> QED
  BY <1>1, OrderInvariant, PTL

\* wake_waiters() and rwlock_try_immediate() grant the lock in priority order,
\* and writers of equal priority in the order they were linked.
THEOREM GrantedInPriorityOrder == Spec => PriorityOrder
<1>1. IInv /\ OrderInv /\ [Next]_vars => [GrantsInOrder]_vars
  BY NextOrder
<1> QED
  BY <1>1, OrderInvariant, PTL DEF Spec, PriorityOrder
=============================================================================

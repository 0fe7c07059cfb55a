-------------------------- MODULE GenericCondProofs --------------------------
(***************************************************************************)
(* What the condition variable promises for any number of waiters and      *)
(* signallers, with and without timeouts, whether they signal with the     *)
(* mutex or not, proved from its inductive invariant.                      *)
(*                                                                         *)
(* The invariant counts.  Three sets stand for the threads the fields of   *)
(* the condition count: Counted for num_waiting, Owed for the handshakes   *)
(* still to come, Woken for the units of cond->sem that have been taken.   *)
(* Each step adds elements to them or takes some away, and changes the     *)
(* fields by as many.                                                      *)
(***************************************************************************)
EXTENDS GenericCond, SequenceTheorems, FiniteSetTheorems, TLAPS

\* The queue holds threads that sleep, each once.
QueueInv ==
    /\ \A i \in 1..Len(queue) : pc[queue[i]] = "asleep"
    /\ \A i, j \in 1..Len(queue) : i # j => queue[i] # queue[j]

\* No result before a unit was taken, and handshakes are owed to exactly the
\* signallers that collect them.
CallInv ==
    /\ \A t \in Waiters :
          pc[t] \in {"counted", "unlocked", "asleep"} => ~result[t]
    /\ \A s \in Signallers : pc[s] = "collect" <=> need[s] > 0

Inv == TypeOK /\ QueueInv /\ CallInv /\ HandshakesBalance /\ UnitsCoverSignals

-----------------------------------------------------------------------------
(* Lemmas about the sets and the queue                                     *)

\* The sets are finite, and no more threads are counted than there are.
LEMMA Sizes ==
    /\ IsFiniteSet(Waiters) /\ Cardinality(Waiters) \in Nat
    /\ IsFiniteSet(Counted) /\ Cardinality(Counted) \in 0..Cardinality(Waiters)
    /\ IsFiniteSet(Woken) /\ Cardinality(Woken) \in Nat
    /\ IsFiniteSet(Owed) /\ Cardinality(Owed) \in Nat
<1>1. /\ Waiters \subseteq Threads
      /\ Signallers \subseteq Threads
      /\ Counted \subseteq Waiters
      /\ Woken \subseteq Waiters
      /\ Owed \subseteq Signallers \X (1..Cardinality(Waiters))
  BY DEF Threads, Counted, Woken, Owed
<1>2. IsFiniteSet(Waiters) /\ IsFiniteSet(Signallers) /\ Cardinality(Waiters) \in Nat
  BY <1>1, CondAssumption, FS_Subset, FS_CardinalityType
<1>3. IsFiniteSet(Signallers \X (1..Cardinality(Waiters)))
  <2>1. IsFiniteSet(1..Cardinality(Waiters))
    BY <1>2, FS_Interval
  <2> QED  BY <1>2, <2>1, FS_Product
<1>4. /\ IsFiniteSet(Counted) /\ Cardinality(Counted) <= Cardinality(Waiters)
      /\ IsFiniteSet(Woken)
      /\ IsFiniteSet(Owed)
  BY <1>1, <1>2, <1>3, FS_Subset
<1>5. Cardinality(Counted) \in Nat /\ Cardinality(Woken) \in Nat /\ Cardinality(Owed) \in Nat
  BY <1>4, FS_CardinalityType
<1> QED  BY <1>2, <1>4, <1>5

\* An element added raises the count by one.
LEMMA OneMore ==
    ASSUME NEW S, NEW x, IsFiniteSet(S), x \notin S
    PROVE  Cardinality(S \cup {x}) = Cardinality(S) + 1
BY FS_AddElement

\* An element taken away lowers the count by one.
LEMMA OneLess ==
    ASSUME NEW S, NEW x, IsFiniteSet(S), x \in S
    PROVE  Cardinality(S \ {x}) = Cardinality(S) - 1
BY FS_RemoveElement

\* Sets that share nothing.
LEMMA Disjoint ==
    ASSUME NEW S, NEW T, IsFiniteSet(S), IsFiniteSet(T), S \cap T = {}
    PROVE  Cardinality(S \cup T) = Cardinality(S) + Cardinality(T)
<1>1. Cardinality(S \cap T) = 0
  BY FS_EmptySet
<1>2. Cardinality(S) \in Nat /\ Cardinality(T) \in Nat
  BY FS_CardinalityType
<1>3. Cardinality(S \cup T) = Cardinality(S) + Cardinality(T) - Cardinality(S \cap T)
  BY FS_Union
<1> QED  BY <1>1, <1>2, <1>3

\* As many threads are served as units are handed over.
LEMMA ServedCount ==
    ASSUME NEW n \in Nat, queue \in Seq(Waiters),
           \A i, j \in 1..Len(queue) : i # j => queue[i] # queue[j]
    PROVE  /\ Handed(n) \in 0..n /\ Handed(n) \in 0..Len(queue)
           /\ IsFiniteSet(Served(n)) /\ Cardinality(Served(n)) = Handed(n)
           /\ Served(n) \subseteq Waiters
<1>1. Len(queue) \in Nat /\ \A i \in 1..Len(queue) : queue[i] \in Waiters
  BY LenProperties, ElementOfSeq
<1>2. Handed(n) \in 0..n /\ Handed(n) \in 0..Len(queue)
  BY <1>1 DEF Handed
<1> DEFINE f == [i \in 1..Handed(n) |-> queue[i]]
<1>3. f \in Bijection(1..Handed(n), Served(n))
  <2>1. f \in [1..Handed(n) -> Served(n)]
    BY DEF Served
  <2>2. ASSUME NEW i \in 1..Handed(n), NEW j \in 1..Handed(n), f[i] = f[j]
        PROVE  i = j
    BY <1>1, <1>2, <2>2
  <2>3. \A t \in Served(n) : \E i \in 1..Handed(n) : f[i] = t
    BY DEF Served
  <2> HIDE DEF f
  <2> QED  BY <2>1, <2>2, <2>3 DEF Bijection, Injection, Surjection, IsInjective
<1>4. IsFiniteSet(1..Handed(n)) /\ Cardinality(1..Handed(n)) = Handed(n)
  BY <1>2, FS_Interval
<1>5. ExistsBijection(1..Handed(n), Served(n))
  BY <1>3 DEF ExistsBijection
<1>6. IsFiniteSet(Served(n)) /\ Cardinality(Served(n)) = Handed(n)
  BY <1>4, <1>5, FS_Bijection
<1> QED  BY <1>1, <1>2, <1>6 DEF Served

\* What is left of the queue.
LEMMA QueueRest ==
    ASSUME NEW n \in Nat, queue \in Seq(Waiters),
           queue' = SubSeq(queue, Handed(n) + 1, Len(queue))
    PROVE  /\ queue' \in Seq(Waiters)
           /\ Len(queue') = Len(queue) - Handed(n)
           /\ \A i \in 1..Len(queue') : queue'[i] = queue[Handed(n) + i]
<1>1. Len(queue) \in Nat /\ \A i \in 1..Len(queue) : queue[i] \in Waiters
  BY LenProperties, ElementOfSeq
<1>2. Handed(n) \in 0..Len(queue)
  BY <1>1 DEF Handed
<1>3. \A i \in (Handed(n) + 1)..Len(queue) : queue[i] \in Waiters
  BY <1>1, <1>2
<1> DEFINE m == Handed(n) + 1
<1>4. m \in Int /\ Len(queue) \in Int
  BY <1>1, <1>2
<1> HIDE DEF m
<1>5. \A i \in m..Len(queue) : queue[i] \in Waiters
  BY <1>3 DEF m
<1>6. /\ SubSeq(queue, m, Len(queue)) \in Seq(Waiters)
      /\ Len(SubSeq(queue, m, Len(queue))) =
            IF m <= Len(queue) THEN Len(queue) - m + 1 ELSE 0
      /\ \A i \in 1..(Len(queue) - m + 1) :
            SubSeq(queue, m, Len(queue))[i] = queue[m + i - 1]
  BY <1>4, <1>5, SubSeqProperties
<1> QED  BY <1>1, <1>2, <1>6 DEF m

\* A record is unlinked, and those behind it move up.
Without(k) == SubSeq(queue, 1, k - 1) \o SubSeq(queue, k + 1, Len(queue))

\* It is one shorter, and the others keep their order.
LEMMA QueueWithout ==
    ASSUME queue \in Seq(Waiters), NEW k \in 1..Len(queue)
    PROVE  /\ Without(k) \in Seq(Waiters)
           /\ Len(Without(k)) = Len(queue) - 1
           /\ \A i \in 1..(Len(queue) - 1) :
                 Without(k)[i] = IF i < k THEN queue[i] ELSE queue[i + 1]
<1>1. Len(queue) \in Nat /\ \A i \in 1..Len(queue) : queue[i] \in Waiters
  BY LenProperties, ElementOfSeq
<1> DEFINE front == SubSeq(queue, 1, k - 1)
           back == SubSeq(queue, k + 1, Len(queue))
<1>2. /\ front \in Seq(Waiters)
      /\ Len(front) = k - 1
      /\ \A i \in 1..(k - 1) : front[i] = queue[i]
  <2>1. \A i \in 1..(k - 1) : queue[i] \in Waiters
    BY <1>1
  <2> QED  BY <1>1, <2>1, SubSeqProperties
<1>3. /\ back \in Seq(Waiters)
      /\ Len(back) = Len(queue) - k
      /\ \A i \in 1..(Len(queue) - k) : back[i] = queue[k + i]
  <2>1. \A i \in (k + 1)..Len(queue) : queue[i] \in Waiters
    BY <1>1
  <2> HIDE DEF back
  <2>2. /\ SubSeq(queue, k + 1, Len(queue)) \in Seq(Waiters)
        /\ Len(SubSeq(queue, k + 1, Len(queue))) =
              IF k + 1 <= Len(queue) THEN Len(queue) - (k + 1) + 1 ELSE 0
        /\ \A i \in 1..(Len(queue) - (k + 1) + 1) :
              SubSeq(queue, k + 1, Len(queue))[i] = queue[(k + 1) + i - 1]
    BY <1>1, <2>1, SubSeqProperties
  <2> QED  BY <1>1, <2>2 DEF back
<1>4. Without(k) = front \o back
  BY DEF Without
<1> HIDE DEF front, back
<1>5. /\ Without(k) \in Seq(Waiters)
      /\ Len(Without(k)) = Len(front) + Len(back)
      /\ \A i \in 1..(Len(front) + Len(back)) :
            Without(k)[i] = IF i <= Len(front) THEN front[i]
                            ELSE back[i - Len(front)]
  <2>1. /\ front \o back \in Seq(Waiters)
        /\ Len(front \o back) = Len(front) + Len(back)
        /\ \A i \in 1..(Len(front) + Len(back)) :
              (front \o back)[i] = IF i <= Len(front) THEN front[i]
                                   ELSE back[i - Len(front)]
    BY <1>2, <1>3, ConcatProperties
  <2> QED  BY <1>4, <2>1
<1>6. \A i \in 1..(Len(queue) - 1) :
         Without(k)[i] = IF i < k THEN queue[i] ELSE queue[i + 1]
  <2> SUFFICES ASSUME NEW i \in 1..(Len(queue) - 1)
               PROVE  Without(k)[i] = IF i < k THEN queue[i] ELSE queue[i + 1]
    OBVIOUS
  <2>1. Without(k)[i] = IF i <= k - 1 THEN front[i] ELSE back[i - (k - 1)]
    BY <1>1, <1>2, <1>3, <1>5
  <2>2. CASE i < k
    BY <1>1, <1>2, <2>1, <2>2
  <2>3. CASE i >= k
    <3>1. i - (k - 1) \in 1..(Len(queue) - k) /\ k + (i - (k - 1)) = i + 1
      BY <1>1, <2>3
    <3>2. back[i - (k - 1)] = queue[i + 1]
      BY <1>3, <3>1
    <3> QED  BY <1>1, <2>1, <2>3, <3>2
  <2> QED  BY <1>1, <2>2, <2>3
<1>7. Len(Without(k)) = Len(queue) - 1
  BY <1>1, <1>2, <1>3, <1>5
<1> QED  BY <1>5, <1>6, <1>7

-----------------------------------------------------------------------------
(* Every step keeps the invariant                                          *)

\* Nobody waits and nothing is counted.
LEMMA InvInit == Init => Inv
<1> SUFFICES ASSUME Init PROVE Inv
  OBVIOUS
<1>1. Counted = {} /\ Woken = {} /\ Owed = {}
  <2>1. \A t \in Waiters : pc[t] = "out"
    BY DEF Init, Threads
  <2>2. \A s \in Signallers : need[s] = 0
    BY DEF Init
  <2>3. Counted = {}
    BY <2>1 DEF Counted
  <2>4. Woken = {}
    BY <2>1 DEF Woken
  <2>5. ASSUME NEW o \in Signallers \X (1..Cardinality(Waiters))
        PROVE  ~(o[2] <= need[o[1]])
    BY <2>2, Sizes
  <2> QED  BY <2>3, <2>4, <2>5 DEF Owed
<1>2. Len(queue) = 0 /\ queue \in Seq(Waiters)
  BY DEF Init
<1>3. TypeOK
  <2>1. waiting \in 0..Cardinality(Waiters) /\ signals \in 0..Cardinality(Waiters)
    BY Sizes DEF Init
  <2>2. need \in [Signallers -> 0..Cardinality(Waiters)]
    BY Sizes DEF Init
  <2>3. pc \in [Threads -> {"out", "in", "counted", "unlocked", "asleep",
                           "woken", "relock", "collect"}]
    BY DEF Init
  <2>4. result \in [Waiters -> BOOLEAN]
    BY DEF Init
  <2>5. timeout \in [Waiters -> Timeouts \cup {"none"}]
    BY DEF Init
  <2> QED  BY <1>2, <2>1, <2>2, <2>3, <2>4, <2>5 DEF Init, TypeOK
<1>4. QueueInv /\ CallInv
  BY <1>2 DEF Init, QueueInv, CallInv, Threads
<1>5. HandshakesBalance /\ UnitsCoverSignals
  BY <1>1, FS_EmptySet DEF Init, HandshakesBalance, UnitsCoverSignals, surplus
<1> QED  BY <1>3, <1>4, <1>5 DEF Inv

\* Signallers post as many units as they wait for handshakes: at least one,
\* and no more than there are waiters.
LEMMA PostStep ==
    ASSUME TypeOK, QueueInv, NEW s \in Signallers, NEW n \in Nat,
           pc[s] \in {"in", "out"}, Post(s, n, n)
    PROVE  /\ queue' \in Seq(Waiters)
           /\ Len(queue') = Len(queue) - Handed(n)
           /\ \A i \in 1..Len(queue') :
                 queue'[i] = queue[Handed(n) + i] /\ queue'[i] \notin Served(n)
           /\ sem' = sem + n - Handed(n) /\ sem' \in Nat
           /\ Handed(n) \in Nat /\ Len(queue) \in Nat
           /\ IsFiniteSet(Served(n)) /\ Cardinality(Served(n)) = Handed(n)
           /\ Served(n) \subseteq Waiters
           /\ \A t \in Served(n) : pc[t] = "asleep"
           /\ s \notin Served(n)
<1>1. /\ Handed(n) \in 0..n /\ Handed(n) \in 0..Len(queue)
      /\ IsFiniteSet(Served(n)) /\ Cardinality(Served(n)) = Handed(n)
      /\ Served(n) \subseteq Waiters
  BY ServedCount DEF TypeOK, QueueInv
<1>2. /\ queue' \in Seq(Waiters)
      /\ Len(queue') = Len(queue) - Handed(n)
      /\ \A i \in 1..Len(queue') : queue'[i] = queue[Handed(n) + i]
  BY QueueRest DEF TypeOK, Post
<1>3. Len(queue) \in Nat
  BY LenProperties DEF TypeOK
<1>4. \A t \in Served(n) : pc[t] = "asleep"
  BY <1>1, <1>3 DEF Served, QueueInv
<1>5. ASSUME NEW i \in 1..Len(queue')
      PROVE  queue'[i] \notin Served(n)
  <2>1. Handed(n) + i \in 1..Len(queue) /\ Handed(n) + i \notin 1..Handed(n)
    BY <1>1, <1>2, <1>3
  <2>2. \A j \in 1..Handed(n) : queue[j] # queue[Handed(n) + i]
    BY <1>1, <1>3, <2>1 DEF QueueInv
  <2> QED  BY <1>2, <2>2 DEF Served
<1>6. sem' = sem + n - Handed(n) /\ sem' \in Nat
  <2>1. sem' = sem + (n - Handed(n)) /\ sem \in Nat
    BY DEF Post, TypeOK
  <2> QED  BY <1>1, <2>1
<1>7. s \notin Served(n)
  BY <1>4
<1> QED  BY <1>1, <1>2, <1>3, <1>4, <1>5, <1>6, <1>7

\* The numbers the fields count are in range, and a signaller that has found
\* a waiter is not at work on another signal.
LEMMA Counts ==
    ASSUME Inv
    PROVE  /\ Cardinality(Waiters) \in Nat
           /\ waiting \in Nat /\ waiting <= Cardinality(Waiters)
           /\ signals \in Nat /\ signals <= waiting
           /\ sem \in Nat /\ handshake \in Nat
           /\ \A s \in Signallers : need[s] \in 0..Cardinality(Waiters)
           /\ \A t \in Waiters :
                 pc[t] \in {"counted", "unlocked", "asleep", "woken"} => waiting > 0
<1>1. ASSUME NEW t \in Waiters, pc[t] \in {"counted", "unlocked", "asleep", "woken"}
      PROVE  Cardinality(Counted) # 0
  <2>1. t \in Counted
    BY <1>1 DEF Counted
  <2> QED  BY <2>1, Sizes, FS_EmptySet
<1> QED  BY <1>1, Sizes DEF Inv, TypeOK, HandshakesBalance

\* Every variable keeps its type.
LEMMA TypeStep == Inv /\ [Next]_vars => TypeOK'
<1> SUFFICES ASSUME Inv, [Next]_vars PROVE TypeOK'
  OBVIOUS
<1>a. TypeOK
  BY DEF Inv
<1>b. Waiters \subseteq Threads /\ Signallers \subseteq Threads
  BY DEF Threads
<1>1. ASSUME NEW t \in Threads, Lock(t) PROVE TypeOK'
  BY <1>a, <1>b, <1>1 DEF TypeOK, Lock, Goto, units, books, call
<1>2. ASSUME NEW t \in Threads, Unlock(t) PROVE TypeOK'
  BY <1>a, <1>b, <1>2 DEF TypeOK, Unlock, Goto, units, books, call
<1>3. ASSUME NEW t \in Waiters, NEW w \in Timeouts, BeginWait(t, w) PROVE TypeOK'
  <2>1. t \notin Counted /\ Counted \cup {t} \subseteq Waiters
    BY <1>3 DEF BeginWait, Counted
  <2>2. Cardinality(Counted \cup {t}) = Cardinality(Counted) + 1
    BY <2>1, Sizes, OneMore
  <2>3. Cardinality(Counted \cup {t}) <= Cardinality(Waiters)
    BY <2>1, Sizes, FS_Subset
  <2>4. waiting' \in 0..Cardinality(Waiters)
    BY <1>3, <2>2, <2>3, Counts DEF Inv, HandshakesBalance, BeginWait
  <2>5. pc' \in [Threads -> {"out", "in", "counted", "unlocked", "asleep",
                            "woken", "relock", "collect"}]
    BY <1>3, <1>a, <1>b DEF TypeOK, BeginWait, Goto
  <2>6. timeout' \in [Waiters -> Timeouts \cup {"none"}]
    BY <1>3, <1>a DEF TypeOK, BeginWait
  <2>7. result' \in [Waiters -> BOOLEAN]
    BY <1>3, <1>a DEF TypeOK, BeginWait
  <2>8. UNCHANGED <<mutex, sem, queue, handshake, signals, need, called, unlocked>>
    BY <1>3 DEF BeginWait, units
  <2> QED
    BY <1>a, <2>4, <2>5, <2>6, <2>7, <2>8 DEF TypeOK
<1>4. ASSUME NEW t \in Waiters, ReleaseMutex(t) PROVE TypeOK'
  BY <1>a, <1>b, <1>4 DEF TypeOK, ReleaseMutex, Goto, units, books, call
<1>5. ASSUME NEW t \in Waiters, TakeUnit(t) PROVE TypeOK'
  BY <1>a, <1>b, <1>5 DEF TypeOK, TakeUnit, Goto, units, books, call
<1>6. ASSUME NEW t \in Waiters, Sleep(t) PROVE TypeOK'
  <2>1. queue' \in Seq(Waiters)
    BY <1>6, <1>a, AppendProperties DEF TypeOK, Sleep
  <2> QED
    BY <1>6, <1>a, <1>b, <2>1 DEF TypeOK, Sleep, Goto, books, call
<1>7. ASSUME NEW t \in Waiters, TimeOut(t) PROVE TypeOK'
  <2>1. queue' \in Seq(Waiters)
    BY <1>7, <1>a, QueueWithout DEF TypeOK, TimeOut, Without
  <2> QED
    BY <1>7, <1>a, <1>b, <2>1 DEF TypeOK, TimeOut, Goto, books
<1>8. ASSUME NEW t \in Waiters, Acknowledge(t) PROVE TypeOK'
  <2>1. waiting' \in 0..Cardinality(Waiters) /\ handshake' \in Nat
        /\ signals' \in 0..Cardinality(Waiters)
    BY <1>8, Counts DEF Acknowledge, StopWaiting
  <2> QED
    BY <1>8, <1>a, <1>b, <2>1 DEF TypeOK, Acknowledge, StopWaiting, Goto, units, call
<1>9. ASSUME NEW t \in Waiters, Relock(t) PROVE TypeOK'
  BY <1>a, <1>b, <1>9 DEF TypeOK, Relock, Goto, units, books, call
<1>10. ASSUME NEW s \in Signallers, Signal(s) PROVE TypeOK'
  <2> DEFINE n == 1
  <2>1. n \in 1..Cardinality(Waiters) /\ pc[s] \in {"in", "out"} /\ Post(s, n, n)
    BY <1>10, Counts DEF Signal, MaySignal
  <2> HIDE DEF n
  <2>2. sem' \in Nat /\ queue' \in Seq(Waiters)
    BY <2>1, <1>a, Counts, PostStep DEF Inv
  <2>3. /\ need' \in [Signallers -> 0..Cardinality(Waiters)]
        /\ result' \in [Waiters -> BOOLEAN]
    BY <2>1, <1>a, Counts DEF Post, TypeOK
  <2>4. pc' \in [Threads -> {"out", "in", "counted", "unlocked", "asleep",
                            "woken", "relock", "collect"}]
    BY <2>1, <1>a DEF Post, TypeOK
  <2>5. signals' \in 0..Cardinality(Waiters) /\ called' \in SUBSET Waiters
    BY <1>10, <1>a, Counts DEF TypeOK, Signal, MaySignal, Counted
  <2>6. UNCHANGED <<mutex, handshake, waiting, timeout, unlocked>>
    BY <2>1 DEF Post
  <2> QED  BY <1>a, <2>2, <2>3, <2>4, <2>5, <2>6 DEF TypeOK
<1>11. ASSUME NEW s \in Signallers, Broadcast(s) PROVE TypeOK'
  <2> DEFINE n == waiting - signals
  <2>1. n \in 1..Cardinality(Waiters) /\ pc[s] \in {"in", "out"} /\ Post(s, n, n)
    BY <1>11, Counts DEF Broadcast, MaySignal
  <2> HIDE DEF n
  <2>2. sem' \in Nat /\ queue' \in Seq(Waiters)
    BY <2>1, <1>a, Counts, PostStep DEF Inv
  <2>3. /\ need' \in [Signallers -> 0..Cardinality(Waiters)]
        /\ result' \in [Waiters -> BOOLEAN]
    BY <2>1, <1>a, Counts DEF Post, TypeOK
  <2>4. pc' \in [Threads -> {"out", "in", "counted", "unlocked", "asleep",
                            "woken", "relock", "collect"}]
    BY <2>1, <1>a DEF Post, TypeOK
  <2>5. signals' \in 0..Cardinality(Waiters) /\ called' \in SUBSET Waiters
    BY <1>11, <1>a, Counts DEF TypeOK, Broadcast, MaySignal, Counted
  <2>6. UNCHANGED <<mutex, handshake, waiting, timeout, unlocked>>
    BY <2>1 DEF Post
  <2> QED  BY <1>a, <2>2, <2>3, <2>4, <2>5, <2>6 DEF TypeOK
<1>12. ASSUME NEW s \in Signallers, Collect(s) PROVE TypeOK'
  <2>1. need[s] > 0 /\ need[s] \in 0..Cardinality(Waiters)
    BY <1>12, Counts DEF Inv, CallInv, Collect
  <2>2. need' \in [Signallers -> 0..Cardinality(Waiters)]
    BY <1>12, <1>a, <2>1, Sizes DEF TypeOK, Collect
  <2>3. pc' \in [Threads -> {"out", "in", "counted", "unlocked", "asleep",
                            "woken", "relock", "collect"}]
    BY <1>12, <1>a, <1>b DEF TypeOK, Collect, Goto
  <2>4. handshake' \in Nat
    BY <1>12, <1>a DEF TypeOK, Collect
  <2> QED
    BY <1>12, <1>a, <2>2, <2>3, <2>4 DEF TypeOK, Collect, units, call
<1>13. ASSUME UNCHANGED vars PROVE TypeOK'
  BY <1>a, <1>b, <1>13 DEF TypeOK, vars, Goto, units, books, call
<1> QED
  BY <1>1, <1>2, <1>3, <1>4, <1>5, <1>6, <1>7, <1>8, <1>9, <1>10, <1>11,
      <1>12, <1>13 DEF Next, WaitStep

\* The queue keeps to threads that sleep.
LEMMA QueueStep == Inv /\ [Next]_vars => QueueInv'
<1> SUFFICES ASSUME Inv, [Next]_vars PROVE QueueInv'
  OBVIOUS
<1>a. TypeOK /\ QueueInv
  BY DEF Inv
<1>b. Waiters \subseteq Threads /\ Signallers \subseteq Threads
  BY DEF Threads
<1>q. \A i \in 1..Len(queue) : queue[i] \in Waiters
  BY <1>a, ElementOfSeq DEF TypeOK
<1>1. ASSUME NEW t \in Threads, Lock(t) PROVE QueueInv'
  BY <1>a, <1>b, <1>q, <1>1 DEF TypeOK, QueueInv, Lock, Goto, units, books,
      call
<1>2. ASSUME NEW t \in Threads, Unlock(t) PROVE QueueInv'
  BY <1>a, <1>b, <1>q, <1>2 DEF TypeOK, QueueInv, Unlock, Goto, units, books,
      call
<1>3. ASSUME NEW t \in Waiters, NEW w \in Timeouts, BeginWait(t, w) PROVE QueueInv'
  BY <1>a, <1>b, <1>q, <1>3 DEF TypeOK, QueueInv, BeginWait, Goto, units,
      books, call
<1>4. ASSUME NEW t \in Waiters, ReleaseMutex(t) PROVE QueueInv'
  BY <1>a, <1>b, <1>q, <1>4 DEF TypeOK, QueueInv, ReleaseMutex, Goto, units,
      books, call
<1>5. ASSUME NEW t \in Waiters, TakeUnit(t) PROVE QueueInv'
  BY <1>a, <1>b, <1>q, <1>5 DEF TypeOK, QueueInv, TakeUnit, Goto, units,
      books, call
<1>6. ASSUME NEW t \in Waiters, Sleep(t) PROVE QueueInv'
  <2>1. /\ Len(queue') = Len(queue) + 1 /\ Len(queue) \in Nat
        /\ \A i \in 1..Len(queue) : queue'[i] = queue[i]
        /\ queue'[Len(queue) + 1] = t
    BY <1>6, <1>a, AppendProperties, LenProperties DEF TypeOK, Sleep
  <2>2. pc'[t] = "asleep" /\ pc[t] # "asleep" /\ \A u \in Threads : u # t => pc'[u] = pc[u]
    BY <1>6, <1>a, <1>b DEF TypeOK, Sleep, Goto
  <2>3. \A i \in 1..Len(queue) : queue'[i] # t /\ pc'[queue'[i]] = "asleep"
    BY <2>1, <2>2, <1>a, <1>b, <1>q DEF QueueInv
  <2> QED  BY <2>1, <2>2, <2>3, <1>a DEF QueueInv
<1>7. ASSUME NEW t \in Waiters, TimeOut(t) PROVE QueueInv'
  <2> PICK k \in 1..Len(queue) : queue[k] = t /\ queue' = Without(k)
    BY <1>7 DEF TimeOut, Without
  <2>1. /\ Len(queue') = Len(queue) - 1 /\ Len(queue) \in Nat
        /\ \A i \in 1..Len(queue') :
              queue'[i] = IF i < k THEN queue[i] ELSE queue[i + 1]
    BY <1>a, QueueWithout, LenProperties DEF TypeOK
  <2>2. \A u \in Threads : u # t => pc'[u] = pc[u]
    BY <1>7, <1>a, <1>b DEF TypeOK, TimeOut, Goto
  <2>3. ASSUME NEW i \in 1..Len(queue')
        PROVE  queue'[i] # t /\ queue'[i] \in Threads /\ pc[queue'[i]] = "asleep"
    <3>1. i \in 1..Len(queue) /\ i + 1 \in 1..Len(queue)
      BY <2>1
    <3>2. (IF i < k THEN i ELSE i + 1) # k
      BY <2>1
    <3> QED  BY <2>1, <3>1, <3>2, <1>a, <1>b, <1>q DEF QueueInv
  <2>4. ASSUME NEW i \in 1..Len(queue'), NEW j \in 1..Len(queue'), i # j
        PROVE  queue'[i] # queue'[j]
    <3>1. i + 1 \in 1..Len(queue) /\ j + 1 \in 1..Len(queue)
          /\ i \in 1..Len(queue) /\ j \in 1..Len(queue)
      BY <2>1
    <3>2. (IF i < k THEN i ELSE i + 1) # (IF j < k THEN j ELSE j + 1)
      BY <2>1, <2>4
    <3> QED  BY <2>1, <3>1, <3>2, <1>a DEF QueueInv
  <2> QED  BY <2>2, <2>3, <2>4 DEF QueueInv
<1>8. ASSUME NEW t \in Waiters, Acknowledge(t) PROVE QueueInv'
  BY <1>a, <1>b, <1>q, <1>8 DEF TypeOK, QueueInv, Acknowledge, StopWaiting,
      Goto, units, books, call
<1>9. ASSUME NEW t \in Waiters, Relock(t) PROVE QueueInv'
  BY <1>a, <1>b, <1>q, <1>9 DEF TypeOK, QueueInv, Relock, Goto, units, books,
      call
<1>10. ASSUME NEW s \in Signallers, Signal(s) PROVE QueueInv'
  <2> DEFINE n == 1
  <2>1. n \in 1..Cardinality(Waiters) /\ pc[s] \in {"in", "out"} /\ Post(s, n, n)
    BY <1>10, Counts DEF Signal, MaySignal
  <2> HIDE DEF n
  <2>2. /\ Len(queue') = Len(queue) - Handed(n)
        /\ \A i \in 1..Len(queue') :
              queue'[i] = queue[Handed(n) + i] /\ queue'[i] \notin Served(n)
        /\ Handed(n) \in Nat /\ Len(queue) \in Nat
    BY <2>1, <1>a, Counts, PostStep
  <2>3. \A i \in 1..Len(queue') : Handed(n) + i \in 1..Len(queue)
    BY <2>2
  <2>4. ASSUME NEW i \in 1..Len(queue') PROVE pc'[queue'[i]] = "asleep"
    <3>2. queue'[i] = queue[Handed(n) + i] /\ Handed(n) + i \in 1..Len(queue)
      BY <2>2, <2>3
    <3>3. queue'[i] \in Threads /\ pc[queue'[i]] = "asleep"
      BY <3>2, <1>a, <1>b, <1>q DEF QueueInv
    <3>1. queue'[i] \in Threads /\ queue'[i] # s /\ pc[queue'[i]] = "asleep"
      BY <2>1, <3>3
    <3> QED  BY <2>1, <2>2, <3>1 DEF Post
  <2>5. ASSUME NEW i \in 1..Len(queue'), NEW j \in 1..Len(queue'), i # j
        PROVE  queue'[i] # queue'[j]
    <3>1. Handed(n) + i \in 1..Len(queue) /\ Handed(n) + j \in 1..Len(queue)
      BY <2>3
    <3>2. Handed(n) + i # Handed(n) + j
      BY <2>2, <2>5
    <3>3. queue[Handed(n) + i] # queue[Handed(n) + j]
      BY <3>1, <3>2, <1>a DEF QueueInv
    <3> QED  BY <2>2, <3>3
  <2> QED  BY <2>4, <2>5 DEF QueueInv
<1>11. ASSUME NEW s \in Signallers, Broadcast(s) PROVE QueueInv'
  <2> DEFINE n == waiting - signals
  <2>1. n \in 1..Cardinality(Waiters) /\ pc[s] \in {"in", "out"} /\ Post(s, n, n)
    BY <1>11, Counts DEF Broadcast, MaySignal
  <2> HIDE DEF n
  <2>2. /\ Len(queue') = Len(queue) - Handed(n)
        /\ \A i \in 1..Len(queue') :
              queue'[i] = queue[Handed(n) + i] /\ queue'[i] \notin Served(n)
        /\ Handed(n) \in Nat /\ Len(queue) \in Nat
    BY <2>1, <1>a, Counts, PostStep
  <2>3. \A i \in 1..Len(queue') : Handed(n) + i \in 1..Len(queue)
    BY <2>2
  <2>4. ASSUME NEW i \in 1..Len(queue') PROVE pc'[queue'[i]] = "asleep"
    <3>2. queue'[i] = queue[Handed(n) + i] /\ Handed(n) + i \in 1..Len(queue)
      BY <2>2, <2>3
    <3>3. queue'[i] \in Threads /\ pc[queue'[i]] = "asleep"
      BY <3>2, <1>a, <1>b, <1>q DEF QueueInv
    <3>1. queue'[i] \in Threads /\ queue'[i] # s /\ pc[queue'[i]] = "asleep"
      BY <2>1, <3>3
    <3> QED  BY <2>1, <2>2, <3>1 DEF Post
  <2>5. ASSUME NEW i \in 1..Len(queue'), NEW j \in 1..Len(queue'), i # j
        PROVE  queue'[i] # queue'[j]
    <3>1. Handed(n) + i \in 1..Len(queue) /\ Handed(n) + j \in 1..Len(queue)
      BY <2>3
    <3>2. Handed(n) + i # Handed(n) + j
      BY <2>2, <2>5
    <3>3. queue[Handed(n) + i] # queue[Handed(n) + j]
      BY <3>1, <3>2, <1>a DEF QueueInv
    <3> QED  BY <2>2, <3>3
  <2> QED  BY <2>4, <2>5 DEF QueueInv
<1>12. ASSUME NEW s \in Signallers, Collect(s) PROVE QueueInv'
  BY <1>a, <1>b, <1>q, <1>12 DEF TypeOK, QueueInv, Collect, Goto, units,
      books, call
<1>13. ASSUME UNCHANGED vars PROVE QueueInv'
  BY <1>a, <1>b, <1>q, <1>13 DEF TypeOK, QueueInv, vars, Goto, units, books,
      call
<1> QED
  BY <1>1, <1>2, <1>3, <1>4, <1>5, <1>6, <1>7, <1>8, <1>9, <1>10, <1>11,
      <1>12, <1>13 DEF Next, WaitStep

\* Results and handshakes go with the calls.
LEMMA CallStep == Inv /\ [Next]_vars => CallInv'
<1> SUFFICES ASSUME Inv, [Next]_vars PROVE CallInv'
  OBVIOUS
<1>a. TypeOK /\ QueueInv /\ CallInv
  BY DEF Inv
<1>b. Waiters \subseteq Threads /\ Signallers \subseteq Threads
  BY DEF Threads
<1>1. ASSUME NEW t \in Threads, Lock(t) PROVE CallInv'
  BY <1>a, <1>b, <1>1 DEF TypeOK, CallInv, Lock, Goto, units, books, call
<1>2. ASSUME NEW t \in Threads, Unlock(t) PROVE CallInv'
  BY <1>a, <1>b, <1>2 DEF TypeOK, CallInv, Unlock, Goto, units, books, call
<1>3. ASSUME NEW t \in Waiters, NEW w \in Timeouts, BeginWait(t, w) PROVE CallInv'
  BY <1>a, <1>b, <1>3 DEF TypeOK, CallInv, BeginWait, Goto, units, books,
      call
<1>4. ASSUME NEW t \in Waiters, ReleaseMutex(t) PROVE CallInv'
  BY <1>a, <1>b, <1>4 DEF TypeOK, CallInv, ReleaseMutex, Goto, units, books,
      call
<1>5. ASSUME NEW t \in Waiters, TakeUnit(t) PROVE CallInv'
  BY <1>a, <1>b, <1>5 DEF TypeOK, CallInv, TakeUnit, Goto, units, books, call
<1>6. ASSUME NEW t \in Waiters, Sleep(t) PROVE CallInv'
  BY <1>a, <1>b, <1>6 DEF TypeOK, CallInv, Sleep, Goto, units, books, call
<1>7. ASSUME NEW t \in Waiters, TimeOut(t) PROVE CallInv'
  BY <1>a, <1>b, <1>7 DEF TypeOK, CallInv, TimeOut, Goto, units, books, call
<1>8. ASSUME NEW t \in Waiters, Acknowledge(t) PROVE CallInv'
  BY <1>a, <1>b, <1>8 DEF TypeOK, CallInv, Acknowledge, StopWaiting, Goto,
      units, books, call
<1>9. ASSUME NEW t \in Waiters, Relock(t) PROVE CallInv'
  BY <1>a, <1>b, <1>9 DEF TypeOK, CallInv, Relock, Goto, units, books, call
<1>10. ASSUME NEW s \in Signallers, Signal(s) PROVE CallInv'
  <2> DEFINE n == 1
  <2>1. n \in 1..Cardinality(Waiters) /\ pc[s] \in {"in", "out"} /\ Post(s, n, n)
    BY <1>10, Counts DEF Signal, MaySignal
  <2> HIDE DEF n
  <2>2. s \notin Served(n) /\ \A t \in Served(n) : pc[t] = "asleep"
    BY <2>1, <1>a, Counts, PostStep
  <2>3. \A t \in Waiters :
           pc'[t] \in {"counted", "unlocked", "asleep"} => ~result'[t]
    BY <2>1, <2>2, <1>a, <1>b DEF Post, TypeOK, CallInv
  <2>4. ASSUME NEW r \in Signallers PROVE pc'[r] = "collect" <=> need'[r] > 0
    <3>1. CASE r = s
      BY <2>1, <2>2, <3>1, <1>a, <1>b, Sizes DEF Post, TypeOK
    <3>2. CASE r # s
      BY <2>1, <2>2, <3>2, <1>a, <1>b DEF Post, TypeOK, CallInv
    <3> QED  BY <3>1, <3>2
  <2> QED  BY <2>3, <2>4 DEF CallInv
<1>11. ASSUME NEW s \in Signallers, Broadcast(s) PROVE CallInv'
  <2> DEFINE n == waiting - signals
  <2>1. n \in 1..Cardinality(Waiters) /\ pc[s] \in {"in", "out"} /\ Post(s, n, n)
    BY <1>11, Counts DEF Broadcast, MaySignal
  <2> HIDE DEF n
  <2>2. s \notin Served(n) /\ \A t \in Served(n) : pc[t] = "asleep"
    BY <2>1, <1>a, Counts, PostStep
  <2>3. \A t \in Waiters :
           pc'[t] \in {"counted", "unlocked", "asleep"} => ~result'[t]
    BY <2>1, <2>2, <1>a, <1>b DEF Post, TypeOK, CallInv
  <2>4. ASSUME NEW r \in Signallers PROVE pc'[r] = "collect" <=> need'[r] > 0
    <3>1. CASE r = s
      BY <2>1, <2>2, <3>1, <1>a, <1>b, Sizes DEF Post, TypeOK
    <3>2. CASE r # s
      BY <2>1, <2>2, <3>2, <1>a, <1>b DEF Post, TypeOK, CallInv
    <3> QED  BY <3>1, <3>2
  <2> QED  BY <2>3, <2>4 DEF CallInv
<1>12. ASSUME NEW s \in Signallers, Collect(s) PROVE CallInv'
  <2>1. need[s] > 0 /\ need[s] \in 0..Cardinality(Waiters)
    BY <1>12, Counts, <1>a DEF CallInv, Collect
  <2>2. need'[s] = need[s] - 1 /\ pc'[s] = IF need[s] = 1 THEN IF mutex = s THEN "in" ELSE "out" ELSE "collect"
    BY <1>12, <1>a, <1>b DEF TypeOK, Collect, Goto
  <2>3. ASSUME NEW r \in Threads, r # s
        PROVE  pc'[r] = pc[r] /\ (r \in Signallers => need'[r] = need[r])
    BY <1>12, <2>3, <1>a, <1>b DEF TypeOK, Collect, Goto
  <2>4. result' = result /\ pc'[s] \notin {"counted", "unlocked", "asleep"}
    BY <1>12, <2>2 DEF Collect, call
  <2>5. \A r \in Signallers : pc'[r] = "collect" <=> need'[r] > 0
    BY <2>1, <2>2, <2>3, <1>a, <1>b, Sizes DEF CallInv
  <2>6. \A t \in Waiters :
           pc'[t] \in {"counted", "unlocked", "asleep"} => ~result'[t]
    BY <2>3, <2>4, <1>a, <1>b DEF CallInv
  <2> QED  BY <2>5, <2>6 DEF CallInv
<1>13. ASSUME UNCHANGED vars PROVE CallInv'
  BY <1>a, <1>b, <1>13 DEF TypeOK, CallInv, vars, Goto, units, books, call
<1> QED
  BY <1>1, <1>2, <1>3, <1>4, <1>5, <1>6, <1>7, <1>8, <1>9, <1>10, <1>11,
      <1>12, <1>13 DEF Next, WaitStep

\* The books after a step: balanced, no unit missing, and none left over but
\* by a thread whose wait has timed out.
Settled ==
    /\ HandshakesBalance'
    /\ surplus' >= 0
    /\ surplus' > surplus =>
          \E t \in Waiters : pc[t] = "woken" /\ ~result[t] /\ pc'[t] = "relock"

\* A signaller that waits for n handshakes is owed n pairs.
LEMMA OwnPairs ==
    ASSUME NEW s, NEW n \in Nat
    PROVE  /\ IsFiniteSet({s} \X (1..n))
           /\ Cardinality({s} \X (1..n)) = n
<1>1. IsFiniteSet({s}) /\ Cardinality({s}) = 1
  BY FS_Singleton
<1>2. IsFiniteSet(1..n) /\ Cardinality(1..n) = n
  <2>1. Cardinality(1..n) = IF 1 > n THEN 0 ELSE n - 1 + 1
    BY FS_Interval
  <2> QED  BY <2>1, FS_Interval
<1>3. /\ IsFiniteSet({s} \X (1..n))
      /\ Cardinality({s} \X (1..n)) = Cardinality({s}) * Cardinality(1..n)
  BY <1>1, <1>2, FS_Product
<1> QED  BY <1>1, <1>2, <1>3

\* Every step settles them.
LEMMA BooksStep == Inv /\ [Next]_vars => Settled
<1> SUFFICES ASSUME Inv, [Next]_vars PROVE Settled
  OBVIOUS
<1>a. TypeOK /\ QueueInv /\ CallInv
  BY DEF Inv
<1>b. Waiters \subseteq Threads /\ Signallers \subseteq Threads
  BY DEF Threads
<1>c. /\ HandshakesBalance /\ surplus >= 0
      /\ sem \in Nat /\ handshake \in Nat /\ waiting \in Nat /\ signals \in Nat
      /\ Cardinality(Counted) \in Nat /\ Cardinality(Woken) \in Nat
      /\ Cardinality(Owed) \in Nat
  BY Counts, Sizes DEF Inv, UnitsCoverSignals
<1>1. ASSUME NEW t \in Threads, Lock(t) PROVE Settled
  <2>1. Counted' = Counted /\ Woken' = Woken /\ Owed' = Owed
    BY <1>1, <1>a, <1>b DEF TypeOK, CallInv, Counted, Woken, Owed, Lock, Goto, units, books, call
  <2>2. UNCHANGED <<sem, handshake, waiting, signals>>
    BY <1>1 DEF Lock, units, books
  <2> QED  BY <2>1, <2>2, <1>c DEF Settled, HandshakesBalance, surplus
<1>2. ASSUME NEW t \in Threads, Unlock(t) PROVE Settled
  <2>1. Counted' = Counted /\ Woken' = Woken /\ Owed' = Owed
    BY <1>2, <1>a, <1>b DEF TypeOK, CallInv, Counted, Woken, Owed, Unlock, Goto, units, books, call
  <2>2. UNCHANGED <<sem, handshake, waiting, signals>>
    BY <1>2 DEF Unlock, units, books
  <2> QED  BY <2>1, <2>2, <1>c DEF Settled, HandshakesBalance, surplus
<1>3. ASSUME NEW t \in Waiters, NEW w \in Timeouts, BeginWait(t, w) PROVE Settled
  <2>1. Counted' = Counted \cup {t} /\ Woken' = Woken /\ Owed' = Owed
    BY <1>3, <1>a, <1>b DEF TypeOK, CallInv, Counted, Woken, Owed, BeginWait, Goto
  <2>2. waiting' = waiting + 1 /\ UNCHANGED <<sem, handshake, signals>>
    BY <1>3 DEF BeginWait, units
  <2>3. Cardinality(Counted \cup {t}) = Cardinality(Counted) + 1
    <3>1. t \notin Counted
      BY <1>3 DEF BeginWait, Counted
    <3> QED  BY <3>1, Sizes, OneMore
  <2> QED  BY <2>1, <2>2, <2>3, <1>c DEF Settled, HandshakesBalance, surplus
<1>4. ASSUME NEW t \in Waiters, ReleaseMutex(t) PROVE Settled
  <2>1. Counted' = Counted /\ Woken' = Woken /\ Owed' = Owed
    BY <1>4, <1>a, <1>b DEF TypeOK, CallInv, Counted, Woken, Owed, ReleaseMutex, Goto, units, books, call
  <2>2. UNCHANGED <<sem, handshake, waiting, signals>>
    BY <1>4 DEF ReleaseMutex, units, books
  <2> QED  BY <2>1, <2>2, <1>c DEF Settled, HandshakesBalance, surplus
<1>5. ASSUME NEW t \in Waiters, TakeUnit(t) PROVE Settled
  <2>1. Counted' = Counted /\ Woken' = Woken \cup {t} /\ Owed' = Owed
    BY <1>5, <1>a, <1>b DEF TypeOK, CallInv, Counted, Woken, Owed, TakeUnit, Goto, books
  <2>2. sem' = sem - 1 /\ UNCHANGED <<handshake, waiting, signals>>
    BY <1>5 DEF TakeUnit, books
  <2>3. Cardinality(Woken \cup {t}) = Cardinality(Woken) + 1
    <3>1. t \notin Woken
      BY <1>5 DEF TakeUnit, Woken
    <3> QED  BY <3>1, Sizes, OneMore
  <2> QED  BY <2>1, <2>2, <2>3, <1>c DEF Settled, HandshakesBalance, surplus
<1>6. ASSUME NEW t \in Waiters, Sleep(t) PROVE Settled
  <2>1. Counted' = Counted /\ Woken' = Woken /\ Owed' = Owed
    BY <1>6, <1>a, <1>b DEF TypeOK, CallInv, Counted, Woken, Owed, Sleep, Goto, units, books, call
  <2>2. UNCHANGED <<sem, handshake, waiting, signals>>
    BY <1>6 DEF Sleep, units, books
  <2> QED  BY <2>1, <2>2, <1>c DEF Settled, HandshakesBalance, surplus
<1>7. ASSUME NEW t \in Waiters, TimeOut(t) PROVE Settled
  <2>1. Counted' = Counted /\ Woken' = Woken /\ Owed' = Owed
    BY <1>7, <1>a, <1>b DEF TypeOK, CallInv, Counted, Woken, Owed, TimeOut, Goto, units, books, call
  <2>2. UNCHANGED <<sem, handshake, waiting, signals>>
    BY <1>7 DEF TimeOut, units, books
  <2> QED  BY <2>1, <2>2, <1>c DEF Settled, HandshakesBalance, surplus
<1>8. ASSUME NEW t \in Waiters, Acknowledge(t) PROVE Settled
  <2>1. /\ Counted' = Counted \ {t} /\ Owed' = Owed
        /\ Woken' = IF result[t] THEN Woken \ {t} ELSE Woken
    BY <1>8, <1>a, <1>b DEF TypeOK, Counted, Woken, Owed, Acknowledge, StopWaiting, Goto, call
  <2>2. Cardinality(Counted \ {t}) = Cardinality(Counted) - 1
    <3>1. t \in Counted
      BY <1>8 DEF Acknowledge, StopWaiting, Counted
    <3> QED  BY <3>1, Sizes, OneLess
  <2>3. result[t] => Cardinality(Woken \ {t}) = Cardinality(Woken) - 1
                     /\ Cardinality(Woken) # 0
    <3>1. result[t] => t \in Woken
      BY <1>8 DEF Acknowledge, StopWaiting, Woken
    <3> QED  BY <3>1, Sizes, OneLess, FS_EmptySet
  <2>4. /\ sem' = sem /\ waiting' = waiting - 1
        /\ IF signals > 0 THEN handshake' = handshake + 1 /\ signals' = signals - 1
           ELSE handshake' = handshake /\ signals' = signals
    BY <1>8 DEF Acknowledge, StopWaiting, units
  <2>5. waiting > 0 /\ signals >= 0
    BY <1>8, Counts DEF Acknowledge, StopWaiting
  <2>6. HandshakesBalance'
    BY <2>1, <2>2, <2>4, <2>5, <1>c DEF HandshakesBalance
  <2>7. CASE result[t]
    <3>1. ~(surplus' > surplus) /\ surplus' >= 0
      BY <2>1, <2>3, <2>4, <2>5, <2>7, <1>c DEF surplus
    <3> QED  BY <2>6, <3>1 DEF Settled
  <2>8. CASE ~result[t]
    <3>1. surplus' >= 0
      BY <2>1, <2>4, <2>5, <2>8, <1>c DEF surplus
    <3>2. pc[t] = "woken" /\ pc'[t] = "relock"
      BY <1>8, <1>a, <1>b DEF TypeOK, Acknowledge, StopWaiting, Goto
    <3> QED  BY <2>6, <2>8, <3>1, <3>2 DEF Settled
  <2> QED  BY <2>7, <2>8
<1>9. ASSUME NEW t \in Waiters, Relock(t) PROVE Settled
  <2>1. Counted' = Counted /\ Woken' = Woken /\ Owed' = Owed
    BY <1>9, <1>a, <1>b DEF TypeOK, CallInv, Counted, Woken, Owed, Relock, Goto, units, books, call
  <2>2. UNCHANGED <<sem, handshake, waiting, signals>>
    BY <1>9 DEF Relock, units, books
  <2> QED  BY <2>1, <2>2, <1>c DEF Settled, HandshakesBalance, surplus
<1>10. ASSUME NEW s \in Signallers, Signal(s) PROVE Settled
  <2> DEFINE n == 1
  <2>1. n \in 1..Cardinality(Waiters) /\ pc[s] \in {"in", "out"} /\ Post(s, n, n)
        /\ signals' = signals + n /\ signals + n <= waiting
    BY <1>10, Counts DEF Signal, MaySignal
  <2> HIDE DEF n
  <2>2. n \in Nat
    BY <2>1, Sizes
  <2>3. /\ sem' = sem + n - Handed(n) /\ Handed(n) \in Nat
        /\ IsFiniteSet(Served(n)) /\ Cardinality(Served(n)) = Handed(n)
        /\ Served(n) \subseteq Waiters /\ s \notin Served(n)
        /\ \A t \in Served(n) : pc[t] = "asleep"
    BY <2>1, <2>2, <1>a, PostStep
  <2>4. Counted' = Counted
    BY <2>1, <2>3, <1>a, <1>b DEF Post, TypeOK, Counted
  <2>5. Woken' = Woken \cup Served(n)
    BY <2>1, <2>3, <1>a, <1>b DEF Post, TypeOK, Woken
  <2>6. Cardinality(Woken \cup Served(n)) = Cardinality(Woken) + Handed(n)
    <3>1. Woken \cap Served(n) = {}
      BY <2>3 DEF Woken
    <3> QED  BY <2>3, <3>1, Sizes, Disjoint
  <2>7. Cardinality(Owed') = Cardinality(Owed) + n
    <3>1. need[s] = 0
      BY <2>1, <1>a, Sizes DEF TypeOK, CallInv
    <3>2. Owed' = Owed \cup ({s} \X (1..n)) /\ Owed \cap ({s} \X (1..n)) = {}
      BY <2>1, <2>2, <3>1, <1>a, Sizes DEF Post, TypeOK, Owed
    <3>4. IsFiniteSet({s} \X (1..n)) /\ Cardinality({s} \X (1..n)) = n
      BY <2>2, OwnPairs
    <3>5. Cardinality(Owed \cup ({s} \X (1..n))) = Cardinality(Owed) + n
      BY <3>2, <3>4, Sizes, Disjoint
    <3> QED  BY <3>2, <3>5, <2>2
  <2>8. UNCHANGED <<handshake, waiting>>
    BY <2>1 DEF Post
  <2>9. HandshakesBalance'
    BY <2>1, <2>2, <2>4, <2>7, <2>8, <1>c DEF HandshakesBalance
  <2>10. surplus' = surplus
    BY <2>1, <2>2, <2>3, <2>5, <2>6, <1>c DEF surplus
  <2> QED  BY <2>9, <2>10, <1>c DEF Settled, surplus
<1>11. ASSUME NEW s \in Signallers, Broadcast(s) PROVE Settled
  <2> DEFINE n == waiting - signals
  <2>1. n \in 1..Cardinality(Waiters) /\ pc[s] \in {"in", "out"} /\ Post(s, n, n)
        /\ signals' = signals + n /\ signals + n <= waiting
    BY <1>11, Counts DEF Broadcast, MaySignal
  <2> HIDE DEF n
  <2>2. n \in Nat
    BY <2>1, Sizes
  <2>3. /\ sem' = sem + n - Handed(n) /\ Handed(n) \in Nat
        /\ IsFiniteSet(Served(n)) /\ Cardinality(Served(n)) = Handed(n)
        /\ Served(n) \subseteq Waiters /\ s \notin Served(n)
        /\ \A t \in Served(n) : pc[t] = "asleep"
    BY <2>1, <2>2, <1>a, PostStep
  <2>4. Counted' = Counted
    BY <2>1, <2>3, <1>a, <1>b DEF Post, TypeOK, Counted
  <2>5. Woken' = Woken \cup Served(n)
    BY <2>1, <2>3, <1>a, <1>b DEF Post, TypeOK, Woken
  <2>6. Cardinality(Woken \cup Served(n)) = Cardinality(Woken) + Handed(n)
    <3>1. Woken \cap Served(n) = {}
      BY <2>3 DEF Woken
    <3> QED  BY <2>3, <3>1, Sizes, Disjoint
  <2>7. Cardinality(Owed') = Cardinality(Owed) + n
    <3>1. need[s] = 0
      BY <2>1, <1>a, Sizes DEF TypeOK, CallInv
    <3>2. Owed' = Owed \cup ({s} \X (1..n)) /\ Owed \cap ({s} \X (1..n)) = {}
      BY <2>1, <2>2, <3>1, <1>a, Sizes DEF Post, TypeOK, Owed
    <3>4. IsFiniteSet({s} \X (1..n)) /\ Cardinality({s} \X (1..n)) = n
      BY <2>2, OwnPairs
    <3>5. Cardinality(Owed \cup ({s} \X (1..n))) = Cardinality(Owed) + n
      BY <3>2, <3>4, Sizes, Disjoint
    <3> QED  BY <3>2, <3>5, <2>2
  <2>8. UNCHANGED <<handshake, waiting>>
    BY <2>1 DEF Post
  <2>9. HandshakesBalance'
    BY <2>1, <2>2, <2>4, <2>7, <2>8, <1>c DEF HandshakesBalance
  <2>10. surplus' = surplus
    BY <2>1, <2>2, <2>3, <2>5, <2>6, <1>c DEF surplus
  <2> QED  BY <2>9, <2>10, <1>c DEF Settled, surplus
<1>12. ASSUME NEW s \in Signallers, Collect(s) PROVE Settled
  <2>1. need[s] > 0 /\ need[s] \in 0..Cardinality(Waiters)
    BY <1>12, Counts, <1>a DEF CallInv, Collect
  <2>2. Counted' = Counted /\ Woken' = Woken
    BY <1>12, <1>a, <1>b DEF TypeOK, Counted, Woken, Collect, Goto, call
  <2>3. need' = [need EXCEPT ![s] = need[s] - 1]
    BY <1>12 DEF Collect
  <2>4. Owed' = Owed \ {<<s, need[s]>>} /\ <<s, need[s]>> \in Owed
    BY <2>1, <2>3, <1>a, Sizes DEF TypeOK, Owed
  <2>5. Cardinality(Owed \ {<<s, need[s]>>}) = Cardinality(Owed) - 1
    BY <2>4, Sizes, OneLess
  <2>6. handshake' = handshake - 1 /\ UNCHANGED <<sem, waiting, signals>>
    BY <1>12 DEF Collect, units
  <2> QED  BY <2>2, <2>4, <2>5, <2>6, <1>c DEF Settled, HandshakesBalance, surplus
<1>13. ASSUME UNCHANGED vars PROVE Settled
  <2>1. Counted' = Counted /\ Woken' = Woken /\ Owed' = Owed
    BY <1>13, <1>a, <1>b DEF TypeOK, CallInv, Counted, Woken, Owed, vars, Goto, units, books, call
  <2>2. UNCHANGED <<sem, handshake, waiting, signals>>
    BY <1>13 DEF vars, units, books
  <2> QED  BY <2>1, <2>2, <1>c DEF Settled, HandshakesBalance, surplus
<1> QED
  BY <1>1, <1>2, <1>3, <1>4, <1>5, <1>6, <1>7, <1>8, <1>9, <1>10, <1>11,
      <1>12, <1>13 DEF Next, WaitStep

\* Hence the invariant holds in every state of every behaviour.
LEMMA Invariance == Spec => []Inv
<1>1. Inv /\ [Next]_vars => Inv'
  BY TypeStep, QueueStep, CallStep, BooksStep DEF Inv, Settled, UnitsCoverSignals
<1> QED  BY InvInit, <1>1, PTL DEF Spec

-----------------------------------------------------------------------------
(* What follows from it                                                    *)

\* Every variable keeps its type: no counter goes negative.
THEOREM TypeCorrect == Spec => []TypeOK
<1>1. Inv => TypeOK
  BY DEF Inv
<1> QED  BY <1>1, Invariance, PTL

\* num_waiting is the number of threads that wait, and as many handshakes have
\* been given or will be as all signallers together wait for.
THEOREM SignallersAnswered == Spec => []HandshakesBalance
<1>1. Inv => HandshakesBalance
  BY DEF Inv
<1> QED  BY <1>1, Invariance, PTL

\* A signal that has not been answered can still be taken.
THEOREM SignalsKept == Spec => []UnitsCoverSignals
<1>1. Inv => UnitsCoverSignals
  BY DEF Inv
<1> QED  BY <1>1, Invariance, PTL

\* Only a thread whose wait has timed out leaves a unit over.
THEOREM UnitsMatch == Spec => NoStaleUnit
<1>1. Inv /\ [Next]_vars =>
         [surplus' > surplus =>
             \E t \in Waiters :
                pc[t] = "woken" /\ ~result[t] /\ pc'[t] = "relock"]_vars
  BY BooksStep DEF Settled
<1> QED  BY <1>1, Invariance, PTL DEF Spec, NoStaleUnit
=============================================================================

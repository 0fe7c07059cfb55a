------------------------ MODULE OS3SemaphoreProofs ------------------------
(***************************************************************************)
(* Theorems about the AmigaOS 3 semaphore, for every number of threads,    *)
(* signal bits and units.                                                  *)
(*                                                                         *)
(* Type correctness holds whatever the timeouts.  The hand-over invariants *)
(* are proved for infinite and polling waits: with finite timeouts they    *)
(* are false (run sem_late).                                               *)
(***************************************************************************)
EXTENDS OS3Semaphore, SequenceTheorems, TLAPS

-----------------------------------------------------------------------------
(* Lemmas about the queue                                                  *)

\* Appending a record leaves the earlier ones where they are.
LEMMA AppendQueue ==
    ASSUME queue \in Seq(Waiters), NEW t \in Waiters,
           queue' = Append(queue, t)
    PROVE  /\ queue' \in Seq(Waiters)
           /\ Len(queue') = Len(queue) + 1
           /\ \A i \in 1..Len(queue) : queue'[i] = queue[i]
           /\ queue'[Len(queue) + 1] = t
BY AppendProperties

\* Unlinking the head moves every other record one place forward.
LEMMA TailQueue ==
    ASSUME queue \in Seq(Waiters), queue # <<>>, queue' = Tail(queue)
    PROVE  /\ Head(queue) = queue[1]
           /\ 1 \in 1..Len(queue)
           /\ queue' \in Seq(Waiters)
           /\ Len(queue') = Len(queue) - 1
           /\ \A i \in 1..Len(queue') : queue'[i] = queue[i + 1]
BY HeadTailProperties, EmptySeq

\* OS3_RemoveWaiter adds no record to the queue.
LEMMA RemoveFromQueue ==
    ASSUME queue \in Seq(Waiters), NEW t, RemoveWaiter(t)
    PROVE  /\ queue' \in Seq(Waiters)
           /\ \A j \in 1..Len(queue') : \E i \in 1..Len(queue) :
                 queue'[j] = queue[i]
<1>1. PICK k \in 1..Len(queue) :
         queue' = SubSeq(queue, 1, k - 1) \o SubSeq(queue, k + 1, Len(queue))
  BY LenProperties DEF RemoveWaiter
<1> DEFINE front == SubSeq(queue, 1, k - 1)
           back == SubSeq(queue, k + 1, Len(queue))
<1>2. Len(queue) \in Nat
  BY LenProperties
<1>3. /\ front \in Seq(Waiters)
      /\ Len(front) = k - 1
      /\ \A i \in 1..(k - 1) : front[i] = queue[i]
  <2>1. \A i \in 1..(k - 1) : queue[i] \in Waiters
    BY <1>2, ElementOfSeq
  <2> QED  BY <1>2, <2>1, SubSeqProperties
<1>4. /\ back \in Seq(Waiters)
      /\ Len(back) = Len(queue) - k
      /\ \A i \in 1..(Len(queue) - k) : back[i] = queue[k + i]
  <2>1. \A i \in (k + 1)..Len(queue) : queue[i] \in Waiters
    BY <1>2, ElementOfSeq
  <2> HIDE DEF back
  <2>2. /\ SubSeq(queue, k + 1, Len(queue)) \in Seq(Waiters)
        /\ Len(SubSeq(queue, k + 1, Len(queue))) =
              IF k + 1 <= Len(queue) THEN Len(queue) - (k + 1) + 1 ELSE 0
        /\ \A i \in 1..(Len(queue) - (k + 1) + 1) :
              SubSeq(queue, k + 1, Len(queue))[i] = queue[(k + 1) + i - 1]
    BY <1>2, <2>1, SubSeqProperties
  <2> QED  BY <1>2, <2>2 DEF back
<1> HIDE DEF front, back
<1>5. queue' = front \o back
  BY <1>1 DEF front, back
<1>6. /\ queue' \in Seq(Waiters)
      /\ Len(queue') = Len(front) + Len(back)
      /\ \A i \in 1..(Len(front) + Len(back)) :
            queue'[i] = IF i <= Len(front) THEN front[i]
                        ELSE back[i - Len(front)]
  BY <1>3, <1>4, <1>5, ConcatProperties
<1>7. ASSUME NEW j \in 1..Len(queue')
      PROVE  \E i \in 1..Len(queue) : queue'[j] = queue[i]
  <2>1. CASE j <= k - 1
    BY <1>2, <1>3, <1>4, <1>6, <2>1
  <2>2. CASE j > k - 1
    <3>1. queue'[j] = back[j - (k - 1)]
      BY <1>2, <1>3, <1>4, <1>6, <2>2
    <3>2. j - (k - 1) \in 1..(Len(queue) - k)
      BY <1>2, <1>3, <1>4, <1>6, <2>2
    <3>3. /\ queue'[j] = queue[k + (j - (k - 1))]
          /\ k + (j - (k - 1)) \in 1..Len(queue)
      BY <1>2, <1>4, <3>1, <3>2
    <3> QED  BY <3>3
  <2> QED  BY <2>1, <2>2, <1>6, <1>3, <1>4, <1>2
<1> QED  BY <1>6, <1>7

-----------------------------------------------------------------------------
(* Type correctness, for all timeouts                                      *)

\* A record that somebody may still signal has its signal_bit filled in, and
\* so has the reply port of a timer request that is under way.
Filled ==
    /\ \A t \in Waiters :
          pc[t] \in {"enqueue", "wait", "setup", "twait", "expired", "failed"}
          => bit[t] \in Bits
    /\ \A i \in 1..Len(queue) : bit[queue[i]] \in Bits
    /\ \A t \in Waiters : armed[t] => port[t] \in Bits
    /\ \A p \in Posters : pc[p] = "notify" =>
          target[p] \in Waiters /\ bit[target[p]] \in Bits

TypeInv == TypeOK /\ Filled

USE DEF Threads, Goto, Return, signals

\* A new semaphore has no record of any thread.
LEMMA TypeInit == Init => TypeInv
BY SemaphoreAssumption, EmptySeq DEF Init, TypeInv, TypeOK, Filled, PCs

\* Every step keeps the types.
LEMMA TypeStep == TypeInv /\ [Next]_vars => TypeInv'
<1> SUFFICES ASSUME TypeInv, [Next]_vars PROVE TypeInv'
  OBVIOUS
<1> USE SemaphoreAssumption DEF TypeInv, TypeOK, Filled, PCs
<1>1. CASE UNCHANGED vars
  BY <1>1 DEF vars
<1>2. ASSUME NEW t \in Waiters, NEW w \in Timeouts, BeginWait(t, w)
      PROVE  TypeInv'
  <2>1. timed' \in [Waiters -> 0..MaxTimed]
    BY <1>2 DEF BeginWait
  <2> QED  BY <1>2, <2>1 DEF BeginWait
<1>3. ASSUME NEW t \in Waiters, TryTakeSucceeds(t) PROVE TypeInv'
  BY <1>3 DEF TryTakeSucceeds
<1>4. ASSUME NEW t \in Waiters, TryTakeFails(t) PROVE TypeInv'
  BY <1>4 DEF TryTakeFails
<1>5. ASSUME NEW t \in Waiters, AllocWaiterSignal(t) PROVE TypeInv'
  BY <1>5 DEF AllocWaiterSignal, AllocSignal
<1>6. ASSUME NEW t \in Waiters, NoWaiterSignal(t) PROVE TypeInv'
  BY <1>6 DEF NoWaiterSignal
<1>7. ASSUME NEW t \in Waiters, RecheckTakes(t) PROVE TypeInv'
  BY <1>7 DEF RecheckTakes, FreeWaiterSignal
<1>8. ASSUME NEW t \in Waiters, Enqueue(t) PROVE TypeInv'
  <2>1. /\ queue' \in Seq(Waiters)
        /\ Len(queue') = Len(queue) + 1
        /\ \A i \in 1..Len(queue) : queue'[i] = queue[i]
        /\ queue'[Len(queue) + 1] = t
    BY <1>8, AppendQueue DEF Enqueue
  <2>2. \A i \in 1..Len(queue') : bit'[queue'[i]] \in Bits
    BY <1>8, <2>1, LenProperties DEF Enqueue
  <2> QED  BY <1>8, <2>1, <2>2 DEF Enqueue
<1>9. ASSUME NEW t \in Waiters, WakeForever(t) PROVE TypeInv'
  BY <1>9 DEF WakeForever, FreeWaiterSignal
<1>10. ASSUME NEW t \in Waiters, TimerSetup(t) PROVE TypeInv'
  BY <1>10 DEF TimerSetup, AllocSignal
<1>11. ASSUME NEW t \in Waiters, TimerSetupFails(t) PROVE TypeInv'
  BY <1>11 DEF TimerSetupFails
<1>12. ASSUME NEW t \in Waiters, WokenInTime(t) PROVE TypeInv'
  BY <1>12 DEF WokenInTime, CloseTimer
<1>13. ASSUME NEW t \in Waiters, WokenByTimer(t) PROVE TypeInv'
  BY <1>13 DEF WokenByTimer, CloseTimer
<1>14. ASSUME NEW t \in Waiters, Expire(t) PROVE TypeInv'
  <2>1. /\ queue' \in Seq(Waiters)
        /\ \A j \in 1..Len(queue') : bit'[queue'[j]] \in Bits
    BY <1>14, RemoveFromQueue DEF Expire
  <2> QED  BY <1>14, <2>1 DEF Expire, FreeWaiterSignal
<1>15. ASSUME NEW t \in Waiters, ExpireTooLate(t) PROVE TypeInv'
  BY <1>15 DEF ExpireTooLate, FreeWaiterSignal
<1>16. ASSUME NEW t \in Waiters, GiveUpTimer(t) PROVE TypeInv'
  <2>1. /\ queue' \in Seq(Waiters)
        /\ \A j \in 1..Len(queue') : bit'[queue'[j]] \in Bits
    BY <1>16, RemoveFromQueue DEF GiveUpTimer
  <2> QED  BY <1>16, <2>1 DEF GiveUpTimer, FreeWaiterSignal
<1>17. ASSUME NEW t \in Waiters, TimerFires(t) PROVE TypeInv'
  BY <1>17 DEF TimerFires, Signal
<1>18. ASSUME NEW p \in Posters, PostToWaiter(p) PROVE TypeInv'
  <2>1. /\ Head(queue) \in Waiters
        /\ bit[Head(queue)] \in Bits
        /\ queue' \in Seq(Waiters)
        /\ \A i \in 1..Len(queue') : bit[queue'[i]] \in Bits
    <3>1. Len(queue) \in Nat
      BY LenProperties
    <3>2. \A i \in 1..Len(queue) : queue[i] \in Waiters
      BY ElementOfSeq
    <3> QED  BY <1>18, <3>1, <3>2, TailQueue DEF PostToWaiter
  <2> QED  BY <1>18, <2>1 DEF PostToWaiter
<1>19. ASSUME NEW p \in Posters, PostToCount(p) PROVE TypeInv'
  BY <1>19 DEF PostToCount
<1>20. ASSUME NEW p \in Posters, NotifyWaiter(p) PROVE TypeInv'
  BY <1>20 DEF NotifyWaiter, Signal
<1> QED
  BY <1>1, <1>2, <1>3, <1>4, <1>5, <1>6, <1>7, <1>8, <1>9, <1>10, <1>11,
     <1>12, <1>13, <1>14, <1>15, <1>16, <1>17, <1>18, <1>19, <1>20
     DEF Next, WaitStep

\* Every variable keeps its type, in particular the count never goes below
\* zero and a post never signals through a record that was not filled in
\* (SDL_WaitSemaphoreTimeoutNS, SDL_SignalSemaphore).
THEOREM TypeCorrect == Spec => []TypeOK
<1>1. TypeInv => TypeOK
  BY DEF TypeInv
<1> QED  BY <1>1, TypeInit, TypeStep, PTL DEF Spec

-----------------------------------------------------------------------------
(* The hand-over of units, without finite timeouts                         *)

Untimed == "finite" \notin Timeouts

\* No call uses the timer.
PlainCalls ==
    /\ \A t \in Threads :
          pc[t] \in {"idle", "try", "alloc", "enqueue", "wait", "notify"}
    /\ \A t \in Waiters :
          /\ ~armed[t]
          /\ pc[t] = "try" => timeout[t] \in Timeouts
          /\ pc[t] \in {"alloc", "enqueue"} => timeout[t] = "forever"
          /\ pc[t] = "enqueue" => bit[t] \notin received[t]

\* Queued records belong to sleeping threads nobody has signalled, each is
\* linked once, and none is there while a unit is free.
QueueInv ==
    /\ \A i \in 1..Len(queue) :
          pc[queue[i]] = "wait" /\ bit[queue[i]] \notin received[queue[i]]
    /\ \A i, j \in 1..Len(queue) : queue[i] = queue[j] => i = j
    /\ Len(queue) > 0 => count = 0

\* A poster between the lock and Signal() has a sleeping target of its own.
NotifyInv ==
    /\ \A p \in Posters : pc[p] = "notify" =>
          /\ pc[target[p]] = "wait"
          /\ bit[target[p]] \notin received[target[p]]
          /\ \A i \in 1..Len(queue) : queue[i] # target[p]
    /\ \A p, q \in Posters :
          pc[p] = "notify" /\ pc[q] = "notify" /\ target[p] = target[q]
          => p = q

\* A sleeping thread is queued, targeted or signalled.
WakeInv ==
    \A t \in Waiters : pc[t] = "wait" =>
       \/ \E i \in 1..Len(queue) : queue[i] = t
       \/ \E p \in Posters : pc[p] = "notify" /\ target[p] = t
       \/ bit[t] \in received[t]

HandOver == TypeInv /\ PlainCalls /\ QueueInv /\ NotifyInv /\ WakeInv

\* Nothing is handed over before the first post.
LEMMA HandOverInit == Init => HandOver
<1> SUFFICES ASSUME Init PROVE HandOver
  OBVIOUS
<1>1. TypeInv
  BY TypeInit
<1>2. Len(queue) = 0
  BY DEF Init
<1> QED
  BY <1>1, <1>2 DEF HandOver, PlainCalls, QueueInv, NotifyInv, WakeInv, Init

\* A step hands a unit over together with its signal.
LEMMA HandOverStep ==
    ASSUME Untimed, HandOver, [Next]_vars
    PROVE  HandOver'
<1>t. TypeInv'
  BY TypeStep DEF HandOver
<1>a. /\ PlainCalls
      /\ QueueInv
      /\ NotifyInv
      /\ WakeInv
  BY DEF HandOver
<1>b. /\ pc \in [Threads -> PCs]
      /\ bit \in [Waiters -> Bits \cup {NoBit}]
      /\ received \in [Waiters -> SUBSET Bits]
      /\ armed \in [Waiters -> BOOLEAN]
      /\ timeout \in [Waiters -> Timeouts \cup {"none"}]
      /\ target \in [Posters -> Waiters \cup {NoThread}]
      /\ queue \in Seq(Waiters)
      /\ count \in Nat
      /\ \A p \in Posters : pc[p] = "notify" => target[p] \in Waiters
  BY SemaphoreAssumption DEF HandOver, TypeInv, TypeOK, Filled
<1>q. /\ Len(queue) \in Nat
      /\ \A i \in 1..Len(queue) : queue[i] \in Waiters
  BY <1>b, LenProperties, ElementOfSeq
<1> SUFFICES /\ PlainCalls'
             /\ QueueInv'
             /\ NotifyInv'
             /\ WakeInv'
  BY <1>t DEF HandOver
<1> USE <1>a, <1>b, <1>q
<1>1. CASE UNCHANGED vars
  BY <1>1 DEF vars, PlainCalls, QueueInv, NotifyInv, WakeInv
\* A step of a thread outside the queue that touches nobody else's signals.
<1>2. ASSUME NEW t \in Waiters,
             pc[t] \notin {"wait", "notify"},
             pc'[t] \notin {"wait", "notify"},
             \A u \in Threads : u # t => pc'[u] = pc[u],
             count' <= count, count' \in Nat,
             UNCHANGED <<queue, target>>,
             \A u \in Waiters : u # t =>
                bit'[u] = bit[u] /\ received'[u] = received[u]
      PROVE  QueueInv' /\ NotifyInv' /\ WakeInv'
  <2>1. \A u \in Waiters : pc[u] = "wait" => u # t
    BY <1>2
  <2>2. QueueInv'
    BY <1>2, <2>1 DEF QueueInv
  <2>3. NotifyInv'
    BY <1>2, <2>1 DEF NotifyInv
  <2>4. WakeInv'
    BY <1>2, <2>1 DEF WakeInv
  <2> QED  BY <2>2, <2>3, <2>4
<1>3. ASSUME NEW t \in Waiters, NEW w \in Timeouts, BeginWait(t, w)
      PROVE  PlainCalls' /\ QueueInv' /\ NotifyInv' /\ WakeInv'
  <2>1. PlainCalls'
    BY <1>3 DEF BeginWait, PlainCalls
  <2>2. /\ pc[t] \notin {"wait", "notify"}
        /\ pc'[t] \notin {"wait", "notify"}
        /\ \A u \in Threads : u # t => pc'[u] = pc[u]
        /\ count' <= count /\ count' \in Nat
        /\ UNCHANGED <<queue, target>>
        /\ \A u \in Waiters : u # t =>
              bit'[u] = bit[u] /\ received'[u] = received[u]
    BY <1>3 DEF BeginWait
  <2> QED  BY <1>2, <2>1, <2>2
<1>4. ASSUME NEW t \in Waiters, TryTakeSucceeds(t)
      PROVE  PlainCalls' /\ QueueInv' /\ NotifyInv' /\ WakeInv'
  <2>1. PlainCalls'
    BY <1>4 DEF TryTakeSucceeds, PlainCalls
  <2>2. /\ pc[t] \notin {"wait", "notify"}
        /\ pc'[t] \notin {"wait", "notify"}
        /\ \A u \in Threads : u # t => pc'[u] = pc[u]
        /\ count' <= count /\ count' \in Nat
        /\ UNCHANGED <<queue, target>>
        /\ \A u \in Waiters : u # t =>
              bit'[u] = bit[u] /\ received'[u] = received[u]
    BY <1>4 DEF TryTakeSucceeds
  <2> QED  BY <1>2, <2>1, <2>2
<1>5. ASSUME NEW t \in Waiters, TryTakeFails(t)
      PROVE  PlainCalls' /\ QueueInv' /\ NotifyInv' /\ WakeInv'
  <2>1. PlainCalls'
    BY <1>5, SemaphoreAssumption DEF TryTakeFails, PlainCalls, Untimed
  <2>2. /\ pc[t] \notin {"wait", "notify"}
        /\ pc'[t] \notin {"wait", "notify"}
        /\ \A u \in Threads : u # t => pc'[u] = pc[u]
        /\ count' <= count /\ count' \in Nat
        /\ UNCHANGED <<queue, target>>
        /\ \A u \in Waiters : u # t =>
              bit'[u] = bit[u] /\ received'[u] = received[u]
    BY <1>5 DEF TryTakeFails
  <2> QED  BY <1>2, <2>1, <2>2
<1>6. ASSUME NEW t \in Waiters, AllocWaiterSignal(t)
      PROVE  PlainCalls' /\ QueueInv' /\ NotifyInv' /\ WakeInv'
  <2>1. PlainCalls'
    BY <1>6 DEF AllocWaiterSignal, AllocSignal, PlainCalls
  <2>2. /\ pc[t] \notin {"wait", "notify"}
        /\ pc'[t] \notin {"wait", "notify"}
        /\ \A u \in Threads : u # t => pc'[u] = pc[u]
        /\ count' <= count /\ count' \in Nat
        /\ UNCHANGED <<queue, target>>
        /\ \A u \in Waiters : u # t =>
              bit'[u] = bit[u] /\ received'[u] = received[u]
    BY <1>6 DEF AllocWaiterSignal, AllocSignal
  <2> QED  BY <1>2, <2>1, <2>2
<1>7. ASSUME NEW t \in Waiters, NoWaiterSignal(t)
      PROVE  PlainCalls' /\ QueueInv' /\ NotifyInv' /\ WakeInv'
  <2>1. PlainCalls'
    BY <1>7 DEF NoWaiterSignal, PlainCalls
  <2>2. /\ pc[t] \notin {"wait", "notify"}
        /\ pc'[t] \notin {"wait", "notify"}
        /\ \A u \in Threads : u # t => pc'[u] = pc[u]
        /\ count' <= count /\ count' \in Nat
        /\ UNCHANGED <<queue, target>>
        /\ \A u \in Waiters : u # t =>
              bit'[u] = bit[u] /\ received'[u] = received[u]
    BY <1>7 DEF NoWaiterSignal
  <2> QED  BY <1>2, <2>1, <2>2
<1>8. ASSUME NEW t \in Waiters, RecheckTakes(t)
      PROVE  PlainCalls' /\ QueueInv' /\ NotifyInv' /\ WakeInv'
  <2>1. PlainCalls'
    BY <1>8 DEF RecheckTakes, PlainCalls
  <2>2. /\ pc[t] \notin {"wait", "notify"}
        /\ pc'[t] \notin {"wait", "notify"}
        /\ \A u \in Threads : u # t => pc'[u] = pc[u]
        /\ count' <= count /\ count' \in Nat
        /\ UNCHANGED <<queue, target>>
        /\ \A u \in Waiters : u # t =>
              bit'[u] = bit[u] /\ received'[u] = received[u]
    BY <1>8 DEF RecheckTakes
  <2> QED  BY <1>2, <2>1, <2>2
<1>9. ASSUME NEW t \in Waiters, Enqueue(t)
      PROVE  PlainCalls' /\ QueueInv' /\ NotifyInv' /\ WakeInv'
  <2>1. /\ Len(queue') = Len(queue) + 1
        /\ \A i \in 1..Len(queue) : queue'[i] = queue[i]
        /\ queue'[Len(queue) + 1] = t
    BY <1>9, AppendQueue DEF Enqueue
  <2>2. /\ pc[t] = "enqueue"
        /\ count' = 0
        /\ pc' = [pc EXCEPT ![t] = "wait"]
        /\ bit[t] \notin received[t]
        /\ UNCHANGED <<bit, received, armed, timeout, target>>
    BY <1>9 DEF Enqueue, PlainCalls
  <2>3. PlainCalls'
    BY <2>2 DEF PlainCalls
  <2>4. QueueInv'
    <3>1. \A i \in 1..Len(queue) : queue[i] # t
      BY <2>2 DEF QueueInv
    <3>2. \A i \in 1..Len(queue') :
             \/ i \in 1..Len(queue) /\ queue'[i] = queue[i]
             \/ i = Len(queue) + 1 /\ queue'[i] = t
      BY <2>1
    <3>3. \A i \in 1..Len(queue') :
             /\ pc'[queue'[i]] = "wait"
             /\ bit'[queue'[i]] \notin received'[queue'[i]]
      BY <2>2, <3>1, <3>2 DEF QueueInv
    <3>4. \A i, j \in 1..Len(queue') : queue'[i] = queue'[j] => i = j
      BY <3>1, <3>2 DEF QueueInv
    <3> QED  BY <2>2, <3>3, <3>4 DEF QueueInv
  <2>5. NotifyInv'
    <3>1. ASSUME NEW p \in Posters, pc'[p] = "notify"
          PROVE  /\ pc'[target'[p]] = "wait"
                 /\ bit'[target'[p]] \notin received'[target'[p]]
                 /\ \A i \in 1..Len(queue') : queue'[i] # target'[p]
      <4>1. pc[p] = "notify" /\ pc[target[p]] = "wait" /\ target[p] # t
        BY <2>2, <3>1 DEF NotifyInv
      <4> QED  BY <2>1, <2>2, <4>1 DEF NotifyInv
    <3>2. \A p, q \in Posters :
             pc'[p] = "notify" /\ pc'[q] = "notify" /\ target'[p] = target'[q]
             => p = q
      BY <2>2 DEF NotifyInv
    <3> QED  BY <3>1, <3>2 DEF NotifyInv
  <2>6. WakeInv'
    <3>1. \E i \in 1..Len(queue') : queue'[i] = t
      BY <2>1
    <3>2. ASSUME NEW u \in Waiters, u # t, pc'[u] = "wait"
          PROVE  \/ \E i \in 1..Len(queue') : queue'[i] = u
                 \/ \E p \in Posters : pc'[p] = "notify" /\ target'[p] = u
                 \/ bit'[u] \in received'[u]
      <4>1. 1..Len(queue) \subseteq 1..Len(queue')
        BY <2>1
      <4>2. pc[u] = "wait"
        BY <2>2, <3>2
      <4> QED  BY <2>1, <2>2, <3>2, <4>1, <4>2 DEF WakeInv
    <3> QED  BY <3>1, <3>2 DEF WakeInv
  <2> QED  BY <2>3, <2>4, <2>5, <2>6
<1>10. ASSUME NEW t \in Waiters, WakeForever(t)
       PROVE  PlainCalls' /\ QueueInv' /\ NotifyInv' /\ WakeInv'
  <2>1. /\ pc[t] = "wait"
        /\ bit[t] \in received[t]
        /\ pc' = [pc EXCEPT ![t] = "idle"]
        /\ received' = [received EXCEPT ![t] = @ \ {bit[t]}]
        /\ timeout' = [timeout EXCEPT ![t] = "none"]
        /\ UNCHANGED <<count, queue, bit, armed, target>>
    BY <1>10 DEF WakeForever
  <2>2. \A i \in 1..Len(queue) : queue[i] # t
    BY <2>1 DEF QueueInv
  <2>3. \A p \in Posters : pc[p] = "notify" => target[p] # t
    BY <2>1 DEF NotifyInv
  <2>4. PlainCalls'
    BY <2>1 DEF PlainCalls
  <2>5. QueueInv'
    BY <2>1, <2>2 DEF QueueInv
  <2>6. NotifyInv'
    BY <2>1, <2>3 DEF NotifyInv
  <2>7. WakeInv'
    BY <2>1 DEF WakeInv
  <2> QED  BY <2>4, <2>5, <2>6, <2>7
<1>11. \A t \in Waiters :
          ~ \/ TimerSetup(t) \/ TimerSetupFails(t) \/ WokenInTime(t)
            \/ WokenByTimer(t) \/ Expire(t) \/ ExpireTooLate(t)
            \/ GiveUpTimer(t) \/ TimerFires(t)
  BY DEF PlainCalls, TimerSetup, TimerSetupFails, WokenInTime, WokenByTimer,
         Expire, ExpireTooLate, GiveUpTimer, TimerFires
<1>12. ASSUME NEW p \in Posters, PostToWaiter(p)
       PROVE  PlainCalls' /\ QueueInv' /\ NotifyInv' /\ WakeInv'
  <2>1. /\ Head(queue) = queue[1]
        /\ 1 \in 1..Len(queue)
        /\ Len(queue') = Len(queue) - 1
        /\ \A i \in 1..Len(queue') : queue'[i] = queue[i + 1]
    BY <1>12, TailQueue DEF PostToWaiter
  <2>2. /\ pc[p] = "idle"
        /\ target' = [target EXCEPT ![p] = queue[1]]
        /\ pc' = [pc EXCEPT ![p] = "notify"]
        /\ UNCHANGED <<count, bit, received, armed, timeout>>
    BY <1>12, <2>1 DEF PostToWaiter
  <2>3. \A i \in 1..Len(queue') :
           i + 1 \in 1..Len(queue) /\ i + 1 # 1 /\ queue'[i] = queue[i + 1]
    BY <2>1
  <2>4. /\ queue[1] \in Waiters
        /\ pc[queue[1]] = "wait"
        /\ bit[queue[1]] \notin received[queue[1]]
        /\ queue[1] # p
    BY <2>1, <2>2 DEF QueueInv
  <2>5. PlainCalls'
    BY <2>2 DEF PlainCalls
  <2>6. QueueInv'
    <3>1. \A i \in 1..Len(queue') :
             /\ pc'[queue'[i]] = "wait"
             /\ bit'[queue'[i]] \notin received'[queue'[i]]
      BY <2>2, <2>3 DEF QueueInv
    <3>2. \A i, j \in 1..Len(queue') : queue'[i] = queue'[j] => i = j
      BY <2>3 DEF QueueInv
    <3>3. count' = 0
      BY <2>1, <2>2 DEF QueueInv
    <3> QED  BY <3>1, <3>2, <3>3 DEF QueueInv
  <2>7. NotifyInv'
    <3>1. ASSUME NEW q \in Posters, pc'[q] = "notify"
          PROVE  /\ pc'[target'[q]] = "wait"
                 /\ bit'[target'[q]] \notin received'[target'[q]]
                 /\ \A i \in 1..Len(queue') : queue'[i] # target'[q]
      <4>1. CASE q = p
        BY <2>2, <2>3, <2>4, <4>1, <2>1 DEF QueueInv
      <4>2. CASE q # p
        <5>1. pc[q] = "notify" /\ target'[q] = target[q] /\ target[q] # p
          BY <2>2, <3>1, <4>2 DEF NotifyInv
        <5> QED  BY <2>2, <2>3, <5>1 DEF NotifyInv
      <4> QED  BY <4>1, <4>2
    <3>2. \A q \in Posters : q # p /\ pc'[q] = "notify" => target'[q] # queue[1]
      BY <2>1, <2>2 DEF NotifyInv
    <3>3. \A q, r \in Posters :
             pc'[q] = "notify" /\ pc'[r] = "notify" /\ target'[q] = target'[r]
             => q = r
      BY <2>2, <3>2 DEF NotifyInv
    <3> QED  BY <3>1, <3>3 DEF NotifyInv
  <2>8. WakeInv'
    <3>1. ASSUME NEW u \in Waiters, pc'[u] = "wait"
          PROVE  \/ \E i \in 1..Len(queue') : queue'[i] = u
                 \/ \E q \in Posters : pc'[q] = "notify" /\ target'[q] = u
                 \/ bit'[u] \in received'[u]
      <4>1. pc[u] = "wait" /\ u # p
        BY <2>2, <3>1
      <4>2. CASE u = queue[1]
        BY <2>2, <4>2
      <4>3. CASE \E q \in Posters : pc[q] = "notify" /\ target[q] = u
        BY <2>2, <4>3
      <4>4. CASE bit[u] \in received[u]
        BY <2>2, <4>4
      <4>5. ASSUME NEW i \in 1..Len(queue), queue[i] = u, u # queue[1]
            PROVE  \E j \in 1..Len(queue') : queue'[j] = u
        <5>1. i - 1 \in 1..Len(queue') /\ queue'[i - 1] = u
          BY <2>1, <4>5
        <5> QED  BY <5>1
      <4> QED  BY <4>1, <4>2, <4>3, <4>4, <4>5 DEF WakeInv
    <3> QED  BY <3>1 DEF WakeInv
  <2> QED  BY <2>5, <2>6, <2>7, <2>8
<1>13. ASSUME NEW p \in Posters, PostToCount(p)
       PROVE  PlainCalls' /\ QueueInv' /\ NotifyInv' /\ WakeInv'
  <2>1. Len(queue) = 0
    BY <1>13 DEF PostToCount
  <2> QED
    BY <1>13, <2>1
       DEF PostToCount, PlainCalls, QueueInv, NotifyInv, WakeInv
<1>14. ASSUME NEW p \in Posters, NotifyWaiter(p)
       PROVE  PlainCalls' /\ QueueInv' /\ NotifyInv' /\ WakeInv'
  <2> DEFINE w == target[p]
  <2>1. /\ pc[p] = "notify"
        /\ w \in Waiters
        /\ pc[w] = "wait"
        /\ w # p
        /\ \A i \in 1..Len(queue) : queue[i] # w
        /\ \A q \in Posters : q # p /\ pc[q] = "notify" => target[q] # w
    BY <1>14 DEF NotifyWaiter, NotifyInv
  <2>2. /\ received' = [received EXCEPT ![w] = @ \cup {bit[w]}]
        /\ target' = [target EXCEPT ![p] = NoThread]
        /\ pc' = [pc EXCEPT ![p] = "idle"]
        /\ UNCHANGED <<count, queue, bit, armed, timeout>>
    BY <1>14 DEF NotifyWaiter, Signal
  <2> HIDE DEF w
  <2>3. PlainCalls'
    BY <2>1, <2>2 DEF PlainCalls
  <2>4. QueueInv'
    BY <2>1, <2>2 DEF QueueInv
  <2>5. NotifyInv'
    BY <2>1, <2>2 DEF NotifyInv
  <2>6. WakeInv'
    <3>1. ASSUME NEW u \in Waiters, pc'[u] = "wait"
          PROVE  \/ \E i \in 1..Len(queue') : queue'[i] = u
                 \/ \E q \in Posters : pc'[q] = "notify" /\ target'[q] = u
                 \/ bit'[u] \in received'[u]
      <4>1. pc[u] = "wait" /\ u # p
        BY <2>2, <3>1
      <4>2. CASE u = w
        BY <2>1, <2>2, <4>2
      <4>3. CASE u # w
        <5>1. received'[u] = received[u]
          BY <2>2, <4>3
        <5>2. \A q \in Posters : target[q] = u /\ pc[q] = "notify" =>
                 target'[q] = u /\ pc'[q] = "notify"
          BY <2>2, <4>3 DEF w
        <5> QED  BY <2>2, <4>1, <5>1, <5>2 DEF WakeInv
      <4> QED  BY <4>2, <4>3
    <3> QED  BY <3>1 DEF WakeInv
  <2> QED  BY <2>3, <2>4, <2>5, <2>6
<1> QED
  BY <1>1, <1>3, <1>4, <1>5, <1>6, <1>7, <1>8, <1>9, <1>10, <1>11, <1>12,
     <1>13, <1>14 DEF Next, WaitStep

\* Hence, without finite timeouts, units and signals always agree.
LEMMA HandOverAlways == Untimed => (Spec => []HandOver)
<1> SUFFICES ASSUME Untimed PROVE Spec => []HandOver
  OBVIOUS
<1> QED  BY HandOverInit, HandOverStep, PTL DEF Spec

\* The recheck and the hand-over leave no window in which a unit stays on the
\* count of a semaphore somebody sleeps on.
THEOREM NoUnitIdle == Untimed => (Spec => []NoIdleUnit)
<1> SUFFICES ASSUME Untimed PROVE Spec => []NoIdleUnit
  OBVIOUS
<1>1. HandOver => NoIdleUnit
  BY EmptySeq DEF HandOver, QueueInv, NoIdleUnit, TypeInv, TypeOK
<1> QED  BY <1>1, HandOverAlways, PTL

\* The semaphore's queue never points into a stack frame that is gone.
THEOREM RecordsLive == Untimed => (Spec => []NoDanglingRecord)
<1> SUFFICES ASSUME Untimed PROVE Spec => []NoDanglingRecord
  OBVIOUS
<1>1. ASSUME HandOver PROVE NoDanglingRecord
  <2>1. queue \in Seq(Waiters) /\ DOMAIN queue = 1..Len(queue)
    BY <1>1, LenProperties DEF HandOver, TypeInv, TypeOK
  <2> QED
    BY <1>1, <2>1, ElementOfSeq
       DEF HandOver, QueueInv, NoDanglingRecord, Blocked, Range, IsInjective
<1> QED  BY <1>1, HandOverAlways, PTL

\* SDL_SignalSemaphore finds a queue it can trust, whenever it looks at it.
THEOREM QueueTrusted == Untimed => (Spec => []QueueIsSound)
<1> SUFFICES ASSUME Untimed PROVE Spec => []QueueIsSound
  OBVIOUS
<1>1. Spec => []NoIdleUnit
  BY NoUnitIdle
<1>2. Spec => []NoDanglingRecord
  BY RecordsLive
<1> QED  BY <1>1, <1>2, PTL DEF QueueIsSound

\* Every thread asleep in SDL_WaitSemaphore is queued, targeted by one poster
\* or signalled, and never two of these: no wakeup is lost or doubled.
THEOREM WakeupsKept == Untimed => (Spec => []NoLostWakeup)
<1> SUFFICES ASSUME Untimed PROVE Spec => []NoLostWakeup
  OBVIOUS
<1>1. ASSUME HandOver PROVE NoLostWakeup
  <2> SUFFICES ASSUME NEW t \in Waiters, pc[t] = "wait"
               PROVE  NoLostWakeup!(t)!2
    BY DEF NoLostWakeup
  <2>1. queue \in Seq(Waiters) /\ DOMAIN queue = 1..Len(queue)
    BY <1>1, LenProperties DEF HandOver, TypeInv, TypeOK
  <2>2. CASE t \in Range(queue)
    BY <1>1, <2>1, <2>2
       DEF HandOver, QueueInv, NotifyInv, Notifiers, Range
  <2>3. CASE t \notin Range(queue) /\ bit[t] \in received[t]
    BY <1>1, <2>3 DEF HandOver, NotifyInv, Notifiers
  <2>4. CASE t \notin Range(queue) /\ bit[t] \notin received[t]
    <3>1. PICK p \in Posters : pc[p] = "notify" /\ target[p] = t
      BY <1>1, <2>1, <2>4 DEF HandOver, WakeInv, Range
    <3>2. Notifiers(t) = {p}
      BY <1>1, <3>1 DEF HandOver, NotifyInv, Notifiers
    <3> QED  BY <2>4, <3>1, <3>2
  <2> QED  BY <2>2, <2>3, <2>4
<1> QED  BY <1>1, HandOverAlways, PTL
=============================================================================

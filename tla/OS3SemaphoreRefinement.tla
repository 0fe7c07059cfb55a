---------------------- MODULE OS3SemaphoreRefinement ----------------------
(***************************************************************************)
(* The AmigaOS 3 semaphore implements CountingSemaphore, for any number of *)
(* threads and units, as long as nobody passes a finite timeout.           *)
(*                                                                         *)
(* The abstract value is the count plus the units that have been handed to *)
(* sleeping threads.  A post raises it, whichever of its two places it     *)
(* goes to; a hand-over completed by the sleeper lowers it, as taking one  *)
(* from the count does; everything else leaves it alone.                   *)
(***************************************************************************)
EXTENDS OS3SemaphoreProofs, FiniteSetTheorems

\* The argument of a call is there from its first step to its return.
CallInv ==
    \A t \in Waiters : timeout[t] = "none" <=> pc[t] \in {"idle", "notify"}

RefInv == HandOver /\ CallInv

-----------------------------------------------------------------------------
(* The calls                                                               *)

USE DEF Threads, Goto, Return, signals

\* A step of a call leaves the argument in place until the call returns.
LEMMA CallStep ==
    ASSUME HandOver, CallInv, [Next]_vars
    PROVE  CallInv'
<1>a. /\ PlainCalls
      /\ timeout \in [Waiters -> Timeouts \cup {"none"}]
      /\ pc \in [Threads -> PCs]
      /\ "none" \notin Timeouts
  BY SemaphoreAssumption DEF HandOver, TypeInv, TypeOK
<1> USE <1>a DEF CallInv
<1>1. CASE UNCHANGED vars
  BY <1>1 DEF vars
<1>2. ASSUME NEW t \in Waiters, NEW w \in Timeouts, BeginWait(t, w)
      PROVE  CallInv'
  BY <1>2 DEF BeginWait
<1>3. ASSUME NEW t \in Waiters, TryTakeSucceeds(t) \/ TryTakeFails(t)
      PROVE  CallInv'
  BY <1>3 DEF TryTakeSucceeds, TryTakeFails
<1>4. ASSUME NEW t \in Waiters, AllocWaiterSignal(t) \/ NoWaiterSignal(t)
      PROVE  CallInv'
  BY <1>4 DEF AllocWaiterSignal, NoWaiterSignal
<1>5. ASSUME NEW t \in Waiters, RecheckTakes(t) \/ Enqueue(t)
      PROVE  CallInv'
  BY <1>5 DEF RecheckTakes, Enqueue
<1>6. ASSUME NEW t \in Waiters, WakeForever(t)  PROVE CallInv'
  BY <1>6 DEF WakeForever
<1>7. ASSUME NEW t \in Waiters,
             \/ TimerSetup(t) \/ TimerSetupFails(t) \/ TimerFires(t)
             \/ WokenInTime(t) \/ WokenByTimer(t) \/ Expire(t)
             \/ ExpireTooLate(t) \/ GiveUpTimer(t)
      PROVE  FALSE
  BY <1>7 DEF TimerSetup, TimerSetupFails, TimerFires, WokenInTime,
     WokenByTimer, Expire, ExpireTooLate, GiveUpTimer, PlainCalls
<1>8. ASSUME NEW p \in Posters,
             PostToWaiter(p) \/ PostToCount(p) \/ NotifyWaiter(p)
      PROVE  CallInv'
  BY <1>8 DEF PostToWaiter, PostToCount, NotifyWaiter
<1> QED
  BY <1>1, <1>2, <1>3, <1>4, <1>5, <1>6, <1>7, <1>8 DEF Next, WaitStep

\* Both invariants together hold in all reachable states.
LEMMA RefInvAlways == Untimed => (Spec => []RefInv)
<1> SUFFICES ASSUME Untimed PROVE Spec => []RefInv
  OBVIOUS
<1>1. Init => CallInv
  BY DEF Init, CallInv
<1>2. HandOver /\ CallInv /\ [Next]_vars => CallInv'
  BY CallStep
<1> QED  BY <1>1, <1>2, HandOverAlways, PTL DEF Spec, RefInv

-----------------------------------------------------------------------------
(* The units handed over                                                   *)

\* The sleeping threads whose record has been unlinked.
Handed ==
    {t \in Waiters : pc[t] = "wait" /\ \A i \in 1..Len(queue) : queue[i] # t}

\* Without timeouts these are the threads that have been granted a unit.
LEMMA GrantedIsHanded ==
    ASSUME HandOver
    PROVE  /\ Granted = Handed
           /\ IsFiniteSet(Handed)
           /\ Cardinality(Handed) \in Nat
<1>1. DOMAIN queue = 1..Len(queue)
  BY LenProperties DEF HandOver, TypeInv, TypeOK
<1>2. Blocked = {t \in Waiters : pc[t] = "wait"}
  BY DEF HandOver, PlainCalls, Blocked
<1>3. Granted = Handed
  BY <1>1, <1>2 DEF Granted, Handed, Range
<1>4. IsFiniteSet(Handed)
  BY SemaphoreAssumption, FS_Subset DEF Handed
<1> QED  BY <1>3, <1>4, FS_CardinalityType

\* The same of the state a step leads to.
LEMMA GrantedIsHandedNext == HandOver' => Granted' = Handed'
<1>1. HandOver => Granted = Handed
  BY GrantedIsHanded
<1>2. (HandOver => Granted = Handed)'
  BY <1>1, PTL
<1> QED  BY <1>2

\* A post that finds a queue hands one unit more.
LEMMA HandedMore ==
    ASSUME HandOver, NEW p \in Posters, PostToWaiter(p)
    PROVE  Cardinality(Handed') = Cardinality(Handed) + 1
<1>a. /\ queue \in Seq(Waiters)
      /\ Len(queue) \in Nat
      /\ \A i \in 1..Len(queue) : queue[i] \in Waiters
      /\ pc \in [Threads -> PCs]
  BY LenProperties, ElementOfSeq DEF HandOver, TypeInv, TypeOK
<1>b. /\ Head(queue) = queue[1]
      /\ 1 \in 1..Len(queue)
      /\ Len(queue') = Len(queue) - 1
      /\ \A i \in 1..Len(queue') : queue'[i] = queue[i + 1]
  BY <1>a, TailQueue DEF PostToWaiter
<1>c. /\ \A i \in 1..Len(queue) : pc[queue[i]] = "wait"
      /\ \A i, j \in 1..Len(queue) : queue[i] = queue[j] => i = j
  BY DEF HandOver, QueueInv
<1>1. queue[1] \notin Handed
  BY <1>b DEF Handed
<1>2. \A t \in Waiters : pc'[t] = "wait" <=> pc[t] = "wait"
  BY <1>a DEF PostToWaiter
<1>3. ASSUME NEW t \in Waiters
      PROVE  (\A i \in 1..Len(queue') : queue'[i] # t)
             <=> t = queue[1] \/ \A i \in 1..Len(queue) : queue[i] # t
  <2>1. CASE t = queue[1]
    BY <1>a, <1>b, <1>c, <2>1
  <2>2. ASSUME t # queue[1], NEW i \in 1..Len(queue), queue[i] = t
        PROVE  \E j \in 1..Len(queue') : queue'[j] = t
    <3>1. i - 1 \in 1..Len(queue') /\ (i - 1) + 1 = i
      BY <1>a, <1>b, <2>2
    <3> QED  BY <1>b, <2>2, <3>1
  <2>3. ASSUME NEW j \in 1..Len(queue'), queue'[j] = t
        PROVE  \E i \in 1..Len(queue) : queue[i] = t
    <3>1. j + 1 \in 1..Len(queue)
      BY <1>a, <1>b, <2>3
    <3> QED  BY <1>b, <2>3, <3>1
  <2> QED  BY <2>1, <2>2, <2>3
<1>4. Handed' = Handed \cup {queue[1]}
  BY <1>a, <1>b, <1>c, <1>2, <1>3 DEF Handed
<1> QED  BY <1>1, <1>4, GrantedIsHanded, FS_AddElement

\* The thread that wakes up takes the unit it was handed.
LEMMA HandedLess ==
    ASSUME HandOver, NEW t \in Waiters, WakeForever(t)
    PROVE  /\ Cardinality(Handed) > 0
           /\ Cardinality(Handed') = Cardinality(Handed) - 1
<1>1. t \in Handed
  BY DEF HandOver, QueueInv, WakeForever, Handed
<1>2. Handed' = Handed \ {t}
  BY DEF HandOver, TypeInv, TypeOK, WakeForever, Handed
<1>3. Cardinality(Handed) # 0
  BY <1>1, GrantedIsHanded, FS_EmptySet
<1> QED  BY <1>1, <1>2, <1>3, GrantedIsHanded, FS_RemoveElement

\* A thread that queues itself has not been handed anything yet.
LEMMA HandedSameEnqueue ==
    ASSUME HandOver, NEW t \in Waiters, Enqueue(t)
    PROVE  Handed' = Handed
<1>a. /\ queue \in Seq(Waiters)
      /\ Len(queue) \in Nat
      /\ pc \in [Threads -> PCs]
      /\ timeout[t] = "forever"
  BY LenProperties DEF HandOver, TypeInv, TypeOK, PlainCalls, Enqueue
<1>b. /\ Len(queue') = Len(queue) + 1
      /\ \A i \in 1..Len(queue) : queue'[i] = queue[i]
      /\ queue'[Len(queue) + 1] = t
  BY <1>a, AppendQueue DEF Enqueue
<1>1. ASSUME NEW u \in Waiters
      PROVE  (\A i \in 1..Len(queue') : queue'[i] # u)
             <=> u # t /\ \A i \in 1..Len(queue) : queue[i] # u
  <2>1. Len(queue') \in 1..Len(queue')
    BY <1>a, <1>b
  <2>2. \A i \in 1..Len(queue') : i = Len(queue') \/ i \in 1..Len(queue)
    BY <1>a, <1>b
  <2>3. \A i \in 1..Len(queue) : i \in 1..Len(queue')
    BY <1>a, <1>b
  <2> QED  BY <1>b, <2>1, <2>2, <2>3
<1>2. \A u \in Waiters : pc'[u] = IF u = t THEN "wait" ELSE pc[u]
  BY <1>a DEF Enqueue
<1>3. pc[t] # "wait"
  BY DEF Enqueue
<1> QED  BY <1>1, <1>2, <1>3 DEF Handed

-----------------------------------------------------------------------------
(* The refinement                                                          *)

\* A call meets an error only where it finds no signal bit, and that changes
\* with no step but its own.
LEMMA RefusedStep ==
    ASSUME NEW t \in Threads,
           \A u \in Waiters \ {t} :
              pc'[u] = pc[u] /\ allocated'[u] = allocated[u],
           pc'[t] \notin {"alloc", "failed"}
    PROVE  Refused' = Refused \ {t}
BY DEF Refused, NoFreeSignal

\* A step of a call that has met no error leaves the others as they are.
LEMMA RefusedSame ==
    ASSUME NEW t \in Threads, t \notin Refused,
           \A u \in Waiters \ {t} :
              pc'[u] = pc[u] /\ allocated'[u] = allocated[u],
           pc'[t] \notin {"alloc", "failed"}
    PROVE  Refused' = Refused
BY DEF Refused, NoFreeSignal

\* Every step of the semaphore is a step of CountingSemaphore or none.
LEMMA RefinementStep ==
    ASSUME Untimed, RefInv, RefInv', [Next]_vars
    PROVE  [Counting!Next]_(Counting!vars)
<1> DEFINE value == count + Cardinality(Granted)
           refused == Refused
<1>a. /\ HandOver
      /\ PlainCalls
      /\ CallInv
      /\ count \in Nat
      /\ count' \in Nat
      /\ pc \in [Threads -> PCs]
      /\ allocated \in [Waiters -> SUBSET Bits]
      /\ timeout \in [Waiters -> Timeouts \cup {"none"}]
      /\ result \in [Waiters -> BOOLEAN]
      /\ "none" \notin Timeouts
  BY SemaphoreAssumption DEF RefInv, HandOver, TypeInv, TypeOK
<1>b. /\ Granted = Handed
      /\ Cardinality(Handed) \in Nat
      /\ Cardinality(Granted) = Cardinality(Handed)
  BY <1>a, GrantedIsHanded
<1>c. HandOver'
  BY DEF RefInv
<1>d. Granted' = Handed'
  BY <1>c, GrantedIsHandedNext
<1>e. value = count + Cardinality(Handed)
  BY <1>b
<1>f. value' = count' + Cardinality(Handed')
  BY <1>d
<1>s. \A t : pc[t] \notin {"alloc", "failed"} => t \notin Refused
  BY DEF Refused
<1> HIDE DEF value, refused
<1>g. Counting!vars = <<value, timeout, result, refused>>
  BY DEF Counting!vars, value, refused
<1>h. ASSUME value' = value, UNCHANGED <<timeout, result>>, refused' = refused
      PROVE  UNCHANGED Counting!vars
  BY <1>g, <1>h DEF Counting!vars, value, refused
<1>i. ASSUME NEW t \in Waiters, timeout[t] # "none",
             value > 0, value' = value - 1,
             timeout' = [timeout EXCEPT ![t] = "none"],
             result' = [result EXCEPT ![t] = TRUE],
             refused' = refused \ {t}
      PROVE  Counting!Next
  BY <1>i DEF Counting!Next, Counting!Acquire, Counting!Take, Counting!Finish, value,
     refused
<1>j. ASSUME NEW t \in Waiters, timeout[t] # "none", value' = value,
             timeout[t] # "forever" \/ t \in refused,
             timeout' = [timeout EXCEPT ![t] = "none"],
             result' = [result EXCEPT ![t] = FALSE],
             refused' = refused \ {t}
      PROVE  Counting!Next
  BY <1>j DEF Counting!Next, Counting!GiveUp, Counting!Finish, value, refused
<1>1. CASE UNCHANGED vars
  <2>1. Handed' = Handed /\ Refused' = Refused
    BY <1>1 DEF vars, Handed, Refused, NoFreeSignal
  <2> QED  BY <1>1, <2>1, <1>e, <1>f, <1>h DEF vars, refused
<1>2. ASSUME NEW t \in Waiters, NEW w \in Timeouts, BeginWait(t, w)
      PROVE  Counting!Next
  <2>1. Handed' = Handed
    BY <1>2, <1>a DEF BeginWait, Handed
  <2>2. timeout[t] = "none"
    BY <1>2, <1>a DEF BeginWait, CallInv
  <2>3. value' = value
    BY <1>2, <2>1, <1>e, <1>f DEF BeginWait
  <2>4. Refused' = Refused
    BY <1>2, <1>a, <1>s, RefusedSame DEF BeginWait
  <2> QED
    BY <1>2, <2>2, <2>3, <2>4 DEF BeginWait, Counting!Next, Counting!Begin, value
<1>3. ASSUME NEW t \in Waiters, TryTakeSucceeds(t)
      PROVE  Counting!Next
  <2>1. Handed' = Handed
    BY <1>3, <1>a DEF TryTakeSucceeds, Handed
  <2>2. value > 0 /\ value' = value - 1
    BY <1>3, <2>1, <1>a, <1>b, <1>e, <1>f DEF TryTakeSucceeds
  <2>3. timeout[t] # "none"
    BY <1>3, <1>a DEF TryTakeSucceeds, CallInv
  <2>4. refused' = refused \ {t}
    BY <1>3, <1>a, RefusedStep DEF TryTakeSucceeds, refused
  <2> QED  BY <1>3, <1>i, <2>2, <2>3, <2>4 DEF TryTakeSucceeds
<1>4. ASSUME NEW t \in Waiters, TryTakeFails(t)
      PROVE  Counting!Next \/ UNCHANGED Counting!vars
  <2>1. Handed' = Handed
    BY <1>4, <1>a DEF TryTakeFails, Handed
  <2>2. value' = value
    BY <1>4, <2>1, <1>e, <1>f DEF TryTakeFails
  <2>3. timeout[t] # "none"
    BY <1>4, <1>a DEF TryTakeFails, CallInv
  <2>4. CASE timeout[t] = "zero"
    <3>1. /\ timeout' = [timeout EXCEPT ![t] = "none"]
          /\ result' = [result EXCEPT ![t] = FALSE]
      BY <1>4, <2>4 DEF TryTakeFails
    <3>2. refused' = refused \ {t}
      BY <1>4, <2>4, <1>a, RefusedStep DEF TryTakeFails, refused
    <3> QED  BY <1>j, <2>2, <2>3, <2>4, <3>1, <3>2
  <2>5. CASE timeout[t] # "zero"
    <3>1. /\ UNCHANGED <<timeout, result, allocated>>
          /\ pc' = [pc EXCEPT ![t] = "alloc"]
      BY <1>4, <2>5 DEF TryTakeFails
    <3>2. Refused' \in {Refused, Refused \cup {t}}
      BY <1>4, <3>1, <1>a DEF Refused, NoFreeSignal, TryTakeFails
    <3>3. CASE Refused' = Refused
      BY <1>h, <2>2, <3>1, <3>3 DEF refused
    <3>4. CASE Refused' = Refused \cup {t}
      BY <2>2, <2>3, <3>1, <3>4 DEF Counting!Next, Counting!Refuse, value
    <3> QED  BY <3>2, <3>3, <3>4
  <2> QED  BY <2>4, <2>5
<1>5. ASSUME NEW t \in Waiters, AllocWaiterSignal(t)
      PROVE  UNCHANGED Counting!vars
  <2>1. Handed' = Handed
    BY <1>5, <1>a DEF AllocWaiterSignal, Handed
  <2>2. t \notin Refused
    BY <1>5 DEF AllocWaiterSignal, AllocSignal, Refused, NoFreeSignal
  <2>3. refused' = refused
    BY <1>5, <1>a, <2>2, RefusedSame
    DEF AllocWaiterSignal, AllocSignal, refused
  <2> QED  BY <1>5, <2>1, <2>3, <1>e, <1>f, <1>h DEF AllocWaiterSignal
<1>6. ASSUME NEW t \in Waiters, NoWaiterSignal(t)
      PROVE  Counting!Next
  <2>1. Handed' = Handed
    BY <1>6, <1>a DEF NoWaiterSignal, Handed
  <2>2. value' = value
    BY <1>6, <2>1, <1>e, <1>f DEF NoWaiterSignal
  <2>3. timeout[t] # "none" /\ t \in refused
    BY <1>6, <1>a DEF NoWaiterSignal, CallInv, Refused, refused
  <2>4. refused' = refused \ {t}
    BY <1>6, <1>a, RefusedStep DEF NoWaiterSignal, refused
  <2> QED  BY <1>6, <1>j, <2>2, <2>3, <2>4 DEF NoWaiterSignal
<1>7. ASSUME NEW t \in Waiters, RecheckTakes(t)
      PROVE  Counting!Next
  <2>1. Handed' = Handed
    BY <1>7, <1>a DEF RecheckTakes, Handed
  <2>2. value > 0 /\ value' = value - 1
    BY <1>7, <2>1, <1>a, <1>b, <1>e, <1>f DEF RecheckTakes
  <2>3. timeout[t] # "none"
    BY <1>7, <1>a DEF RecheckTakes, CallInv
  <2>4. refused' = refused \ {t}
    BY <1>7, <1>a, RefusedStep
    DEF RecheckTakes, FreeWaiterSignal, refused
  <2> QED  BY <1>7, <1>i, <2>2, <2>3, <2>4 DEF RecheckTakes
<1>8. ASSUME NEW t \in Waiters, Enqueue(t)
      PROVE  UNCHANGED Counting!vars
  <2>1. Handed' = Handed
    BY <1>8, <1>a, HandedSameEnqueue
  <2>2. timeout[t] = "forever"
    BY <1>8, <1>a DEF Enqueue, PlainCalls
  <2>3. refused' = refused
    BY <1>8, <1>a, <1>s, <2>2, RefusedSame DEF Enqueue, refused
  <2> QED  BY <1>8, <2>1, <2>3, <1>e, <1>f, <1>h DEF Enqueue
<1>9. ASSUME NEW t \in Waiters, WakeForever(t)
      PROVE  Counting!Next
  <2>1. /\ Cardinality(Handed) > 0
        /\ Cardinality(Handed') = Cardinality(Handed) - 1
    BY <1>9, <1>a, HandedLess
  <2>2. value > 0 /\ value' = value - 1
    BY <1>9, <2>1, <1>a, <1>b, <1>e, <1>f DEF WakeForever
  <2>3. timeout[t] # "none"
    BY <1>9, <1>a DEF WakeForever, CallInv
  <2>4. refused' = refused \ {t}
    BY <1>9, <1>a, RefusedStep
    DEF WakeForever, FreeWaiterSignal, refused
  <2> QED  BY <1>9, <1>i, <2>2, <2>3, <2>4 DEF WakeForever
<1>10. ASSUME NEW t \in Waiters,
              \/ TimerSetup(t) \/ TimerSetupFails(t) \/ TimerFires(t)
              \/ WokenInTime(t) \/ WokenByTimer(t) \/ Expire(t)
              \/ ExpireTooLate(t) \/ GiveUpTimer(t)
       PROVE  FALSE
  BY <1>10, <1>a DEF TimerSetup, TimerSetupFails, TimerFires, WokenInTime,
     WokenByTimer, Expire, ExpireTooLate, GiveUpTimer, PlainCalls
<1>11. ASSUME NEW p \in Posters, PostToWaiter(p)
       PROVE  Counting!Next
  <2>1. Cardinality(Handed') = Cardinality(Handed) + 1
    BY <1>11, <1>a, HandedMore
  <2>2. value' = value + 1
    BY <1>11, <2>1, <1>a, <1>b, <1>e, <1>f DEF PostToWaiter
  <2>3. Refused' = Refused
    BY <1>11, <1>a, <1>s, RefusedSame DEF PostToWaiter
  <2> QED
    BY <1>11, <2>2, <2>3 DEF PostToWaiter, Counting!Next, Counting!Post, value
<1>12. ASSUME NEW p \in Posters, PostToCount(p)
       PROVE  Counting!Next
  <2>1. Handed' = Handed /\ Refused' = Refused
    BY <1>12 DEF PostToCount, Handed, Refused, NoFreeSignal
  <2>2. value' = value + 1
    BY <1>12, <2>1, <1>a, <1>b, <1>e, <1>f DEF PostToCount
  <2> QED
    BY <1>12, <2>1, <2>2 DEF PostToCount, Counting!Next, Counting!Post, value
<1>13. ASSUME NEW p \in Posters, NotifyWaiter(p)
       PROVE  UNCHANGED Counting!vars
  <2>1. Handed' = Handed
    BY <1>13, <1>a DEF NotifyWaiter, Handed
  <2>2. refused' = refused
    BY <1>13, <1>a, <1>s, RefusedSame DEF NotifyWaiter, refused
  <2> QED  BY <1>13, <2>1, <2>2, <1>e, <1>f, <1>h DEF NotifyWaiter
<1> QED
  BY <1>1, <1>2, <1>3, <1>4, <1>5, <1>6, <1>7, <1>8, <1>9, <1>10, <1>11,
     <1>12, <1>13 DEF Next, WaitStep

\* The semaphore of SDL_syssem.c answers TRUE for exactly one unit, FALSE for
\* none, and gives up an infinite wait only when the task has no signal bit
\* left: it implements what SDL_mutex.h promises, for any number of threads,
\* when no call has a finite timeout.
THEOREM CountsExactly == Untimed => (Spec => CountsUnits)
<1> SUFFICES ASSUME Untimed PROVE Spec => CountsUnits
  OBVIOUS
<1>1. Init => Counting!Init
  <2> SUFFICES ASSUME Init PROVE Counting!Init
    OBVIOUS
  <2>1. Granted = Handed /\ Cardinality(Handed) \in Nat
    BY HandOverInit, GrantedIsHanded
  <2>2. count \in Nat
    BY SemaphoreAssumption DEF Init
  <2>3. Refused = {}
    BY DEF Init, Refused
  <2> QED  BY <2>1, <2>2, <2>3 DEF Init, Counting!Init
<1>2. RefInv /\ RefInv' /\ [Next]_vars => [Counting!Next]_(Counting!vars)
  BY RefinementStep
<1> QED  BY <1>1, <1>2, RefInvAlways, PTL DEF Spec, CountsUnits, Counting!Spec
=============================================================================

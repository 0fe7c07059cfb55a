--------------------------- MODULE OS3Semaphore ---------------------------
(***************************************************************************)
(* The counting semaphore of the AmigaOS 3 port,                           *)
(* SDL3/src/thread/amigaos3/SDL_syssem.c.                                  *)
(*                                                                         *)
(* A waiter that finds no unit allocates an Exec signal bit, links a       *)
(* record that lives on its own stack into the semaphore's queue and       *)
(* sleeps in Wait().  SDL_SignalSemaphore hands the unit over directly: it *)
(* unlinks the first waiter under the lock, and only after releasing the   *)
(* lock reads the waiter's record to Signal() it.                          *)
(*                                                                         *)
(* Each section under sem->lock is one action: the data it touches is      *)
(* accessed nowhere else.  Everything outside the lock is a step of its    *)
(* own.  The stack record of a thread is always at the same place, so the  *)
(* record is identified with the thread: `bit' is its signal_bit field and *)
(* keeps its last content when the call has returned.                      *)
(***************************************************************************)
EXTENDS Naturals, Sequences, FiniteSets, Functions

CONSTANTS
    Waiters,        \* threads that call SDL_WaitSemaphoreTimeoutNS
    Posters,        \* threads that call SDL_SignalSemaphore (may overlap)
    Bits,           \* Exec signal bits of a task
    HeldBits,       \* those the rest of the program may have allocated
    NoBit,          \* content of a record that was never filled in
    NoThread,       \* "no waiter was unlinked"
    InitialValue,   \* SDL_CreateSemaphore's argument
    MaxCount,       \* bound: no post raises the count above this
    Timeouts,       \* the timeouts passed: "zero", "finite", "forever"
    MaxTimed,       \* bound: finite waits per thread, nothing sleeps after
    TimerCanFail    \* whether timer.device can refuse to be opened

Threads == Waiters \cup Posters

ASSUME SemaphoreAssumption ==
    /\ IsFiniteSet(Waiters)
    /\ InitialValue \in Nat
    /\ MaxCount \in Nat
    /\ InitialValue <= MaxCount
    /\ Timeouts \subseteq {"zero", "finite", "forever"}
    /\ MaxTimed \in Nat
    /\ HeldBits \subseteq Bits
    /\ NoBit \notin Bits
    /\ NoThread \notin Threads
    /\ TimerCanFail \in BOOLEAN

VARIABLES
    count,          \* sem->count
    queue,          \* sem->head .. sem->tail, as a sequence of threads
    bit,            \* bit[t]: waiter.signal_bit on t's stack
    allocated,      \* allocated[t]: tc_SigAlloc of task t
    received,       \* received[t]: tc_SigRecvd of task t
    port,           \* port[t]: mp_SigBit of the timer reply port, or NoBit
    armed,          \* armed[t]: t's timerequest is with timer.device
    pc,             \* where each thread is
    timeout,        \* timeout[t]: the argument of t's current wait
    target,         \* target[p]: the waiter SDL_SignalSemaphore unlinked
    timed,          \* finite waits t has made
    result          \* result[t]: what t's last wait returned

vars == <<count, queue, bit, allocated, received, port, armed, pc, timeout,
          target, timed, result>>

signals == <<allocated, received, port, armed>>

PCs == {"idle", "try", "alloc", "enqueue", "wait", "setup", "twait",
        "expired", "failed", "notify"}

TypeOK ==
    /\ count \in 0..MaxCount
    /\ queue \in Seq(Waiters)
    /\ bit \in [Waiters -> Bits \cup {NoBit}]
    /\ allocated \in [Waiters -> SUBSET Bits]
    /\ received \in [Waiters -> SUBSET Bits]
    /\ port \in [Waiters -> Bits \cup {NoBit}]
    /\ armed \in [Waiters -> BOOLEAN]
    /\ pc \in [Threads -> PCs]
    /\ timeout \in [Waiters -> Timeouts \cup {"none"}]
    /\ target \in [Posters -> Waiters \cup {NoThread}]
    /\ timed \in [Waiters -> 0..MaxTimed]
    /\ result \in [Waiters -> BOOLEAN]

Init ==
    /\ count = InitialValue
    /\ queue = <<>>
    /\ bit = [t \in Waiters |-> NoBit]
    /\ allocated \in [Waiters -> SUBSET HeldBits]
    /\ received = [t \in Waiters |-> {}]
    /\ port = [t \in Waiters |-> NoBit]
    /\ armed = [t \in Waiters |-> FALSE]
    /\ pc = [t \in Threads |-> "idle"]
    /\ timeout = [t \in Waiters |-> "none"]
    /\ target = [p \in Posters |-> NoThread]
    /\ timed = [t \in Waiters |-> 0]
    /\ result = [t \in Waiters |-> FALSE]

Goto(t, label) == pc' = [pc EXCEPT ![t] = label]

Return(t, answer) ==
    /\ Goto(t, "idle")
    /\ timeout' = [timeout EXCEPT ![t] = "none"]
    /\ result' = [result EXCEPT ![t] = answer]

-----------------------------------------------------------------------------
(* Exec                                                                    *)

\* AllocSignal(-1): any free bit; whatever it had received is forgotten.
AllocSignal(t, b) ==
    /\ b \in Bits \ allocated[t]
    /\ allocated' = [allocated EXCEPT ![t] = @ \cup {b}]
    /\ received' = [received EXCEPT ![t] = @ \ {b}]

NoFreeSignal(t) == Bits \subseteq allocated[t]

\* Signal(): the bit is set whether or not anybody has it allocated.
Signal(t, b) == received' = [received EXCEPT ![t] = @ \cup {b}]

FreeWaiterSignal(t) == allocated' = [allocated EXCEPT ![t] = @ \ {bit[t]}]

\* OS3_RemoveWaiter: unlink the record if it is still in the queue.
RemoveWaiter(t) ==
    \E i \in DOMAIN queue :
       /\ queue[i] = t
       /\ queue' = SubSeq(queue, 1, i - 1) \o SubSeq(queue, i + 1, Len(queue))

-----------------------------------------------------------------------------
(* Slips a change of the code could introduce, each a variant of an action *)
(* below; no behaviour of Spec takes one.                                  *)

\* The count is not tested before it is decremented.
TryTakeUnchecked(t) ==
    /\ pc[t] = "try"
    /\ count' = count - 1
    /\ Return(t, TRUE)
    /\ UNCHANGED <<queue, bit, signals, target, timed>>

\* The timer request is filled in but never sent.
TimerSetupUnsent(t) ==
    /\ pc[t] = "setup"
    /\ \E b \in Bits :
          /\ AllocSignal(t, b)
          /\ port' = [port EXCEPT ![t] = b]
    /\ Goto(t, "twait")
    /\ UNCHANGED <<count, queue, bit, armed, timeout, target, timed, result>>

\* The timeout wins over a post that came first.
ExpireAnyway(t) ==
    /\ pc[t] = "expired"
    /\ t \notin Range(queue)
    /\ FreeWaiterSignal(t)
    /\ Return(t, FALSE)
    /\ UNCHANGED <<count, queue, bit, received, port, armed, target, timed>>

\* A failed timer setup returns without unlinking the record.
GiveUpTimerLinked(t) ==
    /\ pc[t] = "failed"
    /\ FreeWaiterSignal(t)
    /\ Return(t, FALSE)
    /\ UNCHANGED <<count, queue, bit, received, port, armed, target, timed>>

\* A post unlinks the last waiter and signals the first.
PostUnlinksTail(p) ==
    /\ pc[p] = "idle"
    /\ queue # <<>>
    /\ target' = [target EXCEPT ![p] = Head(queue)]
    /\ queue' = SubSeq(queue, 1, Len(queue) - 1)
    /\ Goto(p, "notify")
    /\ UNCHANGED <<count, bit, signals, timeout, timed, result>>

\* A post serves the newest waiter first.
PostToNewest(p) ==
    /\ pc[p] = "idle"
    /\ queue # <<>>
    /\ target' = [target EXCEPT ![p] = queue[Len(queue)]]
    /\ queue' = SubSeq(queue, 1, Len(queue) - 1)
    /\ Goto(p, "notify")
    /\ UNCHANGED <<count, bit, signals, timeout, timed, result>>

-----------------------------------------------------------------------------
(* SDL_WaitSemaphoreTimeoutNS                                              *)

\* A thread that has used up its finite waits only polls from then on.
BeginWait(t, w) ==
    /\ pc[t] = "idle"
    /\ timed[t] < MaxTimed \/ w = "zero" \/ "finite" \notin Timeouts
    /\ Goto(t, "try")
    /\ timeout' = [timeout EXCEPT ![t] = w]
    /\ timed' = IF w = "finite" THEN [timed EXCEPT ![t] = @ + 1] ELSE timed
    /\ result' = [result EXCEPT ![t] = FALSE]
    /\ UNCHANGED <<count, queue, bit, signals, target>>

TryTakeSucceeds(t) ==
    /\ pc[t] = "try"
    /\ count > 0
    /\ count' = count - 1
    /\ Return(t, TRUE)
    /\ UNCHANGED <<queue, bit, signals, target, timed>>

TryTakeFails(t) ==
    /\ pc[t] = "try"
    /\ count = 0
    /\ \/ /\ timeout[t] = "zero"
          /\ Return(t, FALSE)
       \/ /\ timeout[t] # "zero"
          /\ Goto(t, "alloc")
          /\ UNCHANGED <<timeout, result>>
    /\ UNCHANGED <<count, queue, bit, signals, target, timed>>

AllocWaiterSignal(t) ==
    /\ pc[t] = "alloc"
    /\ \E b \in Bits :
          /\ AllocSignal(t, b)
          /\ bit' = [bit EXCEPT ![t] = b]
    /\ Goto(t, "enqueue")
    /\ UNCHANGED <<count, queue, port, armed, timeout, target, timed, result>>

NoWaiterSignal(t) ==
    /\ pc[t] = "alloc"
    /\ NoFreeSignal(t)
    /\ Return(t, FALSE)
    /\ UNCHANGED <<count, queue, bit, signals, target, timed>>

\* The recheck under the queue lock found a unit after all.
RecheckTakes(t) ==
    /\ pc[t] = "enqueue"
    /\ count > 0
    /\ count' = count - 1
    /\ FreeWaiterSignal(t)
    /\ Return(t, TRUE)
    /\ UNCHANGED <<queue, bit, received, port, armed, target, timed>>

Enqueue(t) ==
    /\ pc[t] = "enqueue"
    /\ count = 0
    /\ queue' = Append(queue, t)
    /\ Goto(t, IF timeout[t] = "forever" THEN "wait" ELSE "setup")
    /\ UNCHANGED <<count, bit, signals, timeout, target, timed, result>>

\* Wait(1 << sig) returns: the infinite wait trusts the bit alone.
WakeForever(t) ==
    /\ pc[t] = "wait"
    /\ bit[t] \in received[t]
    /\ received' = [received EXCEPT ![t] = @ \ {bit[t]}]
    /\ FreeWaiterSignal(t)
    /\ Return(t, TRUE)
    /\ UNCHANGED <<count, queue, bit, port, armed, target, timed>>

\* OS3_TimerWait up to SendIO: the reply port takes a second signal bit.
TimerSetup(t) ==
    /\ pc[t] = "setup"
    /\ \E b \in Bits :
          /\ AllocSignal(t, b)
          /\ port' = [port EXCEPT ![t] = b]
    /\ armed' = [armed EXCEPT ![t] = TRUE]
    /\ Goto(t, "twait")
    /\ UNCHANGED <<count, queue, bit, timeout, target, timed, result>>

TimerSetupFails(t) ==
    /\ pc[t] = "setup"
    /\ TimerCanFail \/ NoFreeSignal(t)
    /\ Goto(t, "failed")
    /\ UNCHANGED <<count, queue, bit, signals, timeout, target, timed, result>>

\* timer.device replies.
TimerFires(t) ==
    /\ armed[t]
    /\ armed' = [armed EXCEPT ![t] = FALSE]
    /\ Signal(t, port[t])
    /\ UNCHANGED <<count, queue, bit, allocated, port, pc, timeout, target,
                   timed, result>>

\* What Wait() found, AbortIO/WaitIO and DeleteMsgPort: the request is gone
\* and the port's bit is free again.
CloseTimer(t) ==
    /\ armed' = [armed EXCEPT ![t] = FALSE]
    /\ port' = [port EXCEPT ![t] = NoBit]
    /\ received' = [received EXCEPT ![t] = @ \ {bit[t], port[t]}]

\* Wait(sem_mask | port_mask) returns with the semaphore's bit set, the
\* timer's reply ignored if it is there too.
WokenInTime(t) ==
    /\ pc[t] = "twait"
    /\ bit[t] \in received[t]
    /\ CloseTimer(t)
    /\ allocated' = [allocated EXCEPT ![t] = @ \ {bit[t], port[t]}]
    /\ Return(t, TRUE)
    /\ UNCHANGED <<count, queue, bit, target, timed>>

WokenByTimer(t) ==
    /\ pc[t] = "twait"
    /\ bit[t] \notin received[t]
    /\ port[t] \in received[t]
    /\ CloseTimer(t)
    /\ allocated' = [allocated EXCEPT ![t] = @ \ {port[t]}]
    /\ Goto(t, "expired")
    /\ UNCHANGED <<count, queue, bit, timeout, target, timed, result>>

\* Still queued: the timeout wins.
Expire(t) ==
    /\ pc[t] = "expired"
    /\ RemoveWaiter(t)
    /\ FreeWaiterSignal(t)
    /\ Return(t, FALSE)
    /\ UNCHANGED <<count, bit, received, port, armed, target, timed>>

\* Already unlinked by SDL_SignalSemaphore: the semaphore wins, and the call
\* returns although the signal may not have been sent yet.
ExpireTooLate(t) ==
    /\ pc[t] = "expired"
    /\ t \notin Range(queue)
    /\ FreeWaiterSignal(t)
    /\ Return(t, TRUE)
    /\ UNCHANGED <<count, queue, bit, received, port, armed, target, timed>>

\* Timer setup failed: whether the record was still queued is not looked at.
GiveUpTimer(t) ==
    /\ pc[t] = "failed"
    /\ \/ RemoveWaiter(t)
       \/ t \notin Range(queue) /\ UNCHANGED queue
    /\ FreeWaiterSignal(t)
    /\ Return(t, FALSE)
    /\ UNCHANGED <<count, bit, received, port, armed, target, timed>>

-----------------------------------------------------------------------------
(* SDL_SignalSemaphore                                                     *)

PostToWaiter(p) ==
    /\ pc[p] = "idle"
    /\ queue # <<>>
    /\ target' = [target EXCEPT ![p] = Head(queue)]
    /\ queue' = Tail(queue)
    /\ Goto(p, "notify")
    /\ UNCHANGED <<count, bit, signals, timeout, timed, result>>

PostToCount(p) ==
    /\ pc[p] = "idle"
    /\ queue = <<>>
    /\ count < MaxCount
    /\ count' = count + 1
    /\ UNCHANGED <<queue, bit, signals, pc, timeout, target, timed, result>>

\* Outside the lock: the record is read where it lies, whatever its owner
\* has done in the meantime.
NotifyWaiter(p) ==
    /\ pc[p] = "notify"
    /\ Signal(target[p], bit[target[p]])
    /\ target' = [target EXCEPT ![p] = NoThread]
    /\ Goto(p, "idle")
    /\ UNCHANGED <<count, queue, bit, allocated, port, armed, timeout, timed,
                   result>>

-----------------------------------------------------------------------------

WaitStep(t) ==
    \/ TryTakeSucceeds(t)
    \/ TryTakeFails(t)
    \/ AllocWaiterSignal(t)
    \/ NoWaiterSignal(t)
    \/ RecheckTakes(t)
    \/ Enqueue(t)
    \/ WakeForever(t)
    \/ TimerSetup(t)
    \/ TimerSetupFails(t)
    \/ WokenInTime(t)
    \/ WokenByTimer(t)
    \/ Expire(t)
    \/ ExpireTooLate(t)
    \/ GiveUpTimer(t)

Next ==
    \/ \E t \in Waiters :
          \/ \E w \in Timeouts : BeginWait(t, w)
          \/ WaitStep(t)
          \/ TimerFires(t)
    \/ \E p \in Posters :
          \/ PostToWaiter(p)
          \/ PostToCount(p)
          \/ NotifyWaiter(p)

Spec == Init /\ [][Next]_vars

(* Exec runs every ready task in turn and timer.device answers, so a call  *)
(* that has begun goes on as long as it can.  Nothing obliges a thread to  *)
(* begin a wait or a post.                                                 *)
Fairness ==
    /\ \A t \in Waiters : WF_vars(WaitStep(t)) /\ WF_vars(TimerFires(t))
    /\ \A p \in Posters : WF_vars(NotifyWaiter(p))

FairSpec == Spec /\ Fairness

-----------------------------------------------------------------------------
(* Properties                                                              *)

\* Threads whose record has been linked and whose call has not returned.
Blocked ==
    {t \in Waiters : pc[t] \in {"wait", "setup", "twait", "expired", "failed"}}

\* Threads that have been handed a unit they have not yet returned with.
Granted == Blocked \ Range(queue)

Notifiers(t) == {p \in Posters : pc[p] = "notify" /\ target[p] = t}

\* A unit is never left lying on the count while a thread sleeps for one: the
\* recheck in SDL_WaitSemaphoreTimeoutNS and the hand-over in
\* SDL_SignalSemaphore leave no window between them.
NoIdleUnit == queue # <<>> => count = 0

\* The queue holds only records of calls in progress, each once: no pointer to
\* a stack frame that is gone.
NoDanglingRecord ==
    /\ Range(queue) \subseteq Blocked
    /\ IsInjective(queue)

\* The queue of waiters can be trusted by the thread that posts next: both of
\* the above.
QueueIsSound == NoIdleUnit /\ NoDanglingRecord

\* Every thread asleep in an infinite wait is in exactly one of three places:
\* still in the queue, about to be signalled by exactly one poster, or
\* signalled.  In none of them its wakeup is lost; in two of them it would
\* answer for the same unit twice.
NoLostWakeup ==
    \A t \in Waiters : pc[t] = "wait" =>
       \/ /\ t \in Range(queue)
          /\ Notifiers(t) = {}
          /\ bit[t] \notin received[t]
       \/ /\ t \notin Range(queue)
          /\ bit[t] \notin received[t]
          /\ \E p \in Posters : Notifiers(t) = {p}
       \/ /\ t \notin Range(queue)
          /\ bit[t] \in received[t]
          /\ Notifiers(t) = {}

\* The calls that meet an error: no signal bit to be had, or no timer.
Refused ==
    {t \in Waiters : \/ pc[t] = "failed"
                     \/ pc[t] = "alloc" /\ NoFreeSignal(t)}

\* The semaphore does what SDL_mutex.h says: TRUE is answered for exactly one
\* unit, FALSE for none, and an infinite wait never gives up.  Only a call
\* that ran out of signal bits or could not open timer.device may fail
\* whatever its timeout and take a unit with it.
Counting == INSTANCE CountingSemaphore WITH
    Callers <- Waiters, value <- count + Cardinality(Granted),
    call <- timeout, answer <- result, refused <- Refused
CountsUnits == Counting!Spec

\* A thread that was handed a unit returns, and a wait with a timeout returns
\* even if nobody ever posts, whatever the others do.
WaitsReturn ==
    \A t \in Waiters :
       \/ t \in Granted
       \/ timeout[t] \in {"zero", "finite"}
       ~> timeout[t] = "none"

\* The queue is served in order and a polling thread cannot overtake it: as
\* long as posts keep coming, every infinite wait returns.
NoStarvation ==
    (\E p \in Posters : []<><<PostToWaiter(p) \/ PostToCount(p)>>_vars)
    => \A t \in Waiters : timeout[t] = "forever" ~> timeout[t] = "none"
=============================================================================

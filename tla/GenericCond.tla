---------------------------- MODULE GenericCond ----------------------------
(***************************************************************************)
(* The condition variable the AmigaOS 3 port uses,                         *)
(* SDL3/src/thread/generic/SDL_syscond.c: two counters and three           *)
(* semaphores.                                                             *)
(*                                                                         *)
(* signal_sem is a binary semaphore around the counters; a section between *)
(* waiting for it and signalling it never blocks, so it is one action and  *)
(* signal_sem itself is not represented.  cond->sem behaves as             *)
(* OS3Semaphore does: units that nobody sleeps for, and a queue of         *)
(* sleeping threads to which a post hands its unit, the oldest first.      *)
(* handshake_sem is the counting semaphore of CountingSemaphore.  That the *)
(* semaphore keeps this contract through one finite wait after another is  *)
(* assumed: OS3Semaphore shows it for one finite wait per thread only.     *)
(***************************************************************************)
EXTENDS Integers, Sequences, FiniteSets

CONSTANTS
    Waiters,        \* threads that wait on the condition
    Signallers,     \* threads that signal or broadcast it (may overlap)
    Nobody,         \* owner of a free mutex
    Timeouts,       \* what waiters pass: "forever", "finite"
    Habits          \* may signallers come without the mutex? (a BOOLEAN set)

Threads == Waiters \cup Signallers

ASSUME CondAssumption ==
    /\ IsFiniteSet(Threads)
    /\ Nobody \notin Threads
    /\ Timeouts \subseteq {"forever", "finite"}
    /\ Habits \subseteq BOOLEAN

VARIABLES
    mutex,          \* owner of the application's mutex
    sem,            \* value of cond->sem
    queue,          \* the threads asleep on cond->sem, in order
    handshake,      \* value of cond->handshake_sem
    waiting,        \* cond->num_waiting
    signals,        \* cond->num_signals
    pc,             \* where each thread is
    timeout,        \* timeout[t]: the argument of t's current wait
    need,           \* need[s]: handshakes signaller s still waits for
    result,         \* result[t]: what t's last wait returns
    called,         \* the waiting threads a broadcast was meant for (ghost)
    unlocked        \* whether this program signals without the mutex

vars == <<mutex, sem, queue, handshake, waiting, signals, pc, timeout, need,
          result, called, unlocked>>

units == <<sem, queue>>

books == <<handshake, waiting, signals, need>>

call == <<timeout, result, called>>

TypeOK ==
    /\ mutex \in Threads \cup {Nobody}
    /\ sem \in Nat
    /\ queue \in Seq(Waiters)
    /\ handshake \in Nat
    /\ waiting \in 0..Cardinality(Waiters)
    /\ signals \in 0..Cardinality(Waiters)
    /\ pc \in [Threads -> {"out", "in", "counted", "unlocked", "asleep",
                           "woken", "relock", "collect"}]
    /\ timeout \in [Waiters -> Timeouts \cup {"none"}]
    /\ need \in [Signallers -> 0..Cardinality(Waiters)]
    /\ result \in [Waiters -> BOOLEAN]
    /\ called \in SUBSET Waiters
    /\ unlocked \in Habits

Init ==
    /\ mutex = Nobody
    /\ sem = 0
    /\ queue = <<>>
    /\ handshake = 0
    /\ waiting = 0
    /\ signals = 0
    /\ pc = [t \in Threads |-> "out"]
    /\ timeout = [t \in Waiters |-> "none"]
    /\ need = [s \in Signallers |-> 0]
    /\ result = [t \in Waiters |-> FALSE]
    /\ called = {}
    /\ unlocked \in Habits

Goto(t, label) == pc' = [pc EXCEPT ![t] = label]

\* Threads that num_waiting counts.
Counted ==
    {t \in Waiters : pc[t] \in {"counted", "unlocked", "asleep", "woken"}}

-----------------------------------------------------------------------------
(* The application around the condition                                    *)

Lock(t) ==
    /\ pc[t] = "out"
    /\ mutex = Nobody
    /\ mutex' = t
    /\ Goto(t, "in")
    /\ UNCHANGED <<units, books, call, unlocked>>

Unlock(t) ==
    /\ pc[t] = "in"
    /\ mutex' = Nobody
    /\ Goto(t, "out")
    /\ UNCHANGED <<units, books, call, unlocked>>

-----------------------------------------------------------------------------
(* SDL_WaitConditionTimeoutNS_generic                                      *)

BeginWait(t, w) ==
    /\ pc[t] = "in"
    /\ waiting' = waiting + 1
    /\ timeout' = [timeout EXCEPT ![t] = w]
    /\ result' = [result EXCEPT ![t] = FALSE]
    /\ Goto(t, "counted")
    /\ UNCHANGED <<mutex, units, handshake, signals, need, called, unlocked>>

ReleaseMutex(t) ==
    /\ pc[t] = "counted"
    /\ mutex' = Nobody
    /\ Goto(t, "unlocked")
    /\ UNCHANGED <<units, books, call, unlocked>>

\* SDL_WaitSemaphoreTimeoutNS(cond->sem) finds a unit ...
TakeUnit(t) ==
    /\ pc[t] = "unlocked"
    /\ sem > 0
    /\ sem' = sem - 1
    /\ result' = [result EXCEPT ![t] = TRUE]
    /\ called' = called \ {t}
    /\ Goto(t, "woken")
    /\ UNCHANGED <<mutex, queue, books, timeout, unlocked>>

\* ... or sleeps until a post hands it one ...
Sleep(t) ==
    /\ pc[t] = "unlocked"
    /\ sem = 0
    /\ queue' = Append(queue, t)
    /\ Goto(t, "asleep")
    /\ UNCHANGED <<mutex, sem, books, call, unlocked>>

\* ... or its timeout is over.
TimeOut(t) ==
    /\ pc[t] = "asleep"
    /\ timeout[t] = "finite"
    /\ \E i \in 1..Len(queue) :
          /\ queue[i] = t
          /\ queue' = SubSeq(queue, 1, i - 1) \o SubSeq(queue, i + 1, Len(queue))
    /\ called' = called \ {t}
    /\ Goto(t, "woken")
    /\ UNCHANGED <<mutex, sem, books, timeout, result, unlocked>>

\* The end of the wait once the books are settled.
StopWaiting(t) ==
    /\ pc[t] = "woken"
    /\ Goto(t, "relock")
    /\ UNCHANGED <<mutex, units, need, call, unlocked>>

\* Slip: a waiter that timed out takes no part in the handshake.
AcknowledgeIfWoken(t) ==
    /\ StopWaiting(t)
    /\ IF signals > 0 /\ result[t]
       THEN handshake' = handshake + 1 /\ signals' = signals - 1
       ELSE UNCHANGED <<handshake, signals>>
    /\ waiting' = waiting - 1

\* Slip: the signal is answered and stays counted.
AcknowledgeTwice(t) ==
    /\ StopWaiting(t)
    /\ handshake' = IF signals > 0 THEN handshake + 1 ELSE handshake
    /\ waiting' = waiting - 1
    /\ UNCHANGED signals

\* Slip: num_waiting is not decremented.
AcknowledgeStillWaiting(t) ==
    /\ StopWaiting(t)
    /\ IF signals > 0
       THEN handshake' = handshake + 1 /\ signals' = signals - 1
       ELSE UNCHANGED <<handshake, signals>>
    /\ UNCHANGED waiting

\* Answer a signaller, whoever this thread was woken by, and stop waiting.
Acknowledge(t) ==
    /\ StopWaiting(t)
    /\ IF signals > 0
       THEN handshake' = handshake + 1 /\ signals' = signals - 1
       ELSE UNCHANGED <<handshake, signals>>
    /\ waiting' = waiting - 1

Relock(t) ==
    /\ pc[t] = "relock"
    /\ mutex = Nobody
    /\ mutex' = t
    /\ timeout' = [timeout EXCEPT ![t] = "none"]
    /\ Goto(t, "in")
    /\ UNCHANGED <<units, books, result, called, unlocked>>

-----------------------------------------------------------------------------
(* SDL_SignalCondition_generic, SDL_BroadcastCondition_generic.  With no   *)
(* waiter left to signal they change nothing.                              *)

MaySignal(s) ==
    /\ \/ pc[s] = "in"
       \/ pc[s] = "out" /\ unlocked
    /\ waiting > signals

\* The sleeping threads n posts of cond->sem hand a unit to, oldest first.
Handed(n) == IF n < Len(queue) THEN n ELSE Len(queue)
Served(n) == {queue[i] : i \in 1..Handed(n)}

\* SDL_SignalSemaphore(cond->sem), n times, by a thread that then waits for
\* m handshakes.
Post(s, n, m) ==
    /\ sem' = sem + (n - Handed(n))
    /\ queue' = SubSeq(queue, Handed(n) + 1, Len(queue))
    /\ result' = [t \in Waiters |-> t \in Served(n) \/ result[t]]
    /\ need' = [need EXCEPT ![s] = m]
    /\ pc' = [t \in Threads |-> IF t \in Served(n) THEN "woken"
                                ELSE IF t = s THEN "collect" ELSE pc[t]]
    /\ UNCHANGED <<mutex, handshake, waiting, timeout, unlocked>>

Signal(s) ==
    /\ MaySignal(s)
    /\ signals' = signals + 1
    /\ Post(s, 1, 1)
    /\ called' = called \ Served(1)

\* Slip: one unit short.
BroadcastShort(s) ==
    /\ MaySignal(s)
    /\ signals' = waiting
    /\ Post(s, waiting - signals - 1, waiting - signals)
    /\ called' = Counted \ ({t \in Waiters : pc[t] = "woken"}
                            \cup Served(waiting - signals - 1))

\* Slip: the units are posted first and the signals counted anew.
BroadcastOverbooks(s) ==
    /\ MaySignal(s)
    /\ signals' = waiting
    /\ Post(s, waiting, waiting - signals)
    /\ called' = Counted \ ({t \in Waiters : pc[t] = "woken"}
                            \cup Served(waiting))

Broadcast(s) ==
    /\ MaySignal(s)
    /\ signals' = waiting
    /\ Post(s, waiting - signals, waiting - signals)
    /\ called' = Counted \ ({t \in Waiters : pc[t] = "woken"}
                            \cup Served(waiting - signals))

\* Slip: the handshakes are left to others, the hazard the code's comment
\* names.
CollectNothing(s) ==
    /\ pc[s] = "collect"
    /\ need' = [need EXCEPT ![s] = 0]
    /\ Goto(s, IF mutex = s THEN "in" ELSE "out")
    /\ UNCHANGED <<mutex, units, handshake, waiting, signals, call, unlocked>>

\* One round of waiting for handshake_sem.
Collect(s) ==
    /\ pc[s] = "collect"
    /\ handshake > 0
    /\ handshake' = handshake - 1
    /\ need' = [need EXCEPT ![s] = @ - 1]
    /\ IF need[s] = 1
       THEN Goto(s, IF mutex = s THEN "in" ELSE "out")
       ELSE UNCHANGED pc
    /\ UNCHANGED <<mutex, units, waiting, signals, call, unlocked>>

-----------------------------------------------------------------------------

WaitStep(t) ==
    \/ ReleaseMutex(t)
    \/ TakeUnit(t)
    \/ Sleep(t)
    \/ TimeOut(t)
    \/ Acknowledge(t)
    \/ Relock(t)

Next ==
    \/ \E t \in Threads : Lock(t) \/ Unlock(t)
    \/ \E t \in Waiters :
          \/ \E w \in Timeouts : BeginWait(t, w)
          \/ WaitStep(t)
    \/ \E s \in Signallers : Signal(s) \/ Broadcast(s) \/ Collect(s)

Spec == Init /\ [][Next]_vars

(* Exec keeps running a thread inside the condition's code.  Signallers    *)
(* may be passed over by others for the units of handshake_sem, but it     *)
(* serves sleeping threads in order, so not for ever.                      *)
Fairness ==
    /\ \A t \in Waiters :
          WF_vars(ReleaseMutex(t) \/ TakeUnit(t) \/ Sleep(t) \/ Acknowledge(t))
    /\ \A s \in Signallers : SF_vars(Collect(s))

FairSpec == Spec /\ Fairness

-----------------------------------------------------------------------------
(* Properties                                                              *)

\* The handshakes that signallers wait for, each as a pair: which of them,
\* and how many it waits for with this one.
Owed == {o \in Signallers \X (1..Cardinality(Waiters)) : o[2] <= need[o[1]]}

\* As many handshakes have been given or will be as all signallers together
\* still wait for, so none is left behind for want of one.  Whose they are is
\* not said: handshake_sem is anonymous, and one signaller may collect the
\* acknowledgement meant for another.
HandshakesBalance ==
    /\ waiting = Cardinality(Counted)
    /\ signals <= waiting
    /\ handshake + signals = Cardinality(Owed)

Woken == {t \in Waiters : pc[t] = "woken" /\ result[t]}

\* The units of cond->sem and the threads that have taken one, beyond the
\* signals not yet answered.
surplus == sem + Cardinality(Woken) - signals

\* Units may be left over, but there is never one too few: a signal that has
\* not been answered can still be taken.
UnitsCoverSignals == surplus >= 0

\* A unit is left over for a later wait only when a thread whose wait timed
\* out answers a signal that woke another.
NoStaleUnit ==
    [][surplus' > surplus =>
          \E t \in Waiters :
             pc[t] = "woken" /\ ~result[t] /\ pc'[t] = "relock"]_vars

\* The mutex is not needed to answer a signal, so the signaller returns even
\* when it holds it.
SignallerReturns ==
    \A s \in Signallers : pc[s] = "collect" ~> pc[s] # "collect"

\* A broadcast made with the mutex held wakes every thread that is waiting,
\* those included that have released the mutex and are not yet asleep.
BroadcastWakesAll ==
    \A t \in Waiters : ~unlocked /\ t \in called ~> t \notin called

=============================================================================

--------------------------- MODULE GenericRWLock ---------------------------
(***************************************************************************)
(* The read/write lock the AmigaOS 3 port uses,                            *)
(* SDL3/src/thread/generic/SDL_sysrwlock.c: a recursive mutex that a       *)
(* writer keeps for as long as it holds the lock, two counters, and a      *)
(* condition on which writers wait for the readers to leave.               *)
(*                                                                         *)
(* Users follow the rules of SDL_mutex.h: no write lock on top of another  *)
(* lock, no read lock under a write lock, no unlock without a lock.        *)
(* SDL_BroadcastCondition is called with the mutex held and wakes every    *)
(* writer that waits (GenericCond!BroadcastWakesAll and WokenBySignal).    *)
(***************************************************************************)
EXTENDS Naturals, FiniteSets

CONSTANTS
    Users,          \* threads
    Nobody,         \* owner of a free mutex
    MaxReads        \* bound: read locks one thread holds at a time

ASSUME RWLockAssumption ==
    /\ IsFiniteSet(Users)
    /\ Nobody \notin Users
    /\ MaxReads \in Nat \ {0}

VARIABLES
    lock,           \* owner of rwlock->lock
    depth,          \* how often the owner has obtained it
    reader_count,
    writer_count,
    pc,             \* where each thread is
    held,           \* held[t]: read locks t has been granted (ghost)
    writes          \* writes[t]: t has been granted the write lock (ghost)

vars == <<lock, depth, reader_count, writer_count, pc, held, writes>>

TypeOK ==
    /\ lock \in Users \cup {Nobody}
    /\ depth \in 0..2
    /\ reader_count \in Nat
    /\ writer_count \in 0..1
    /\ pc \in [Users -> {"out", "read", "reading", "write", "writing",
                         "trying", "asleep", "woken", "unlock", "unlocking",
                         "leaving"}]
    /\ held \in [Users -> 0..MaxReads]
    /\ writes \in [Users -> BOOLEAN]

Init ==
    /\ lock = Nobody
    /\ depth = 0
    /\ reader_count = 0
    /\ writer_count = 0
    /\ pc = [t \in Users |-> "out"]
    /\ held = [t \in Users |-> 0]
    /\ writes = [t \in Users |-> FALSE]

Goto(t, label) == pc' = [pc EXCEPT ![t] = label]

-----------------------------------------------------------------------------
(* SDL_Mutex: an Exec SignalSemaphore, free for its owner.                 *)

Free(t) == lock \in {Nobody, t}

Obtain(t) ==
    /\ Free(t)
    /\ lock' = t
    /\ depth' = depth + 1

Release(t) ==
    /\ depth' = depth - 1
    /\ lock' = IF depth = 1 THEN Nobody ELSE t

-----------------------------------------------------------------------------
(* SDL_LockRWLockForReading, SDL_TryLockRWLockForReading                   *)

StartRead(t) ==
    /\ pc[t] = "out"
    /\ ~writes[t]
    /\ held[t] < MaxReads
    /\ Goto(t, "read")
    /\ UNCHANGED <<lock, depth, reader_count, writer_count, held, writes>>

ReadObtains(t) ==
    /\ pc[t] = "read"
    /\ Obtain(t)
    /\ Goto(t, "reading")
    /\ UNCHANGED <<reader_count, writer_count, held, writes>>

\* A try that finds the mutex taken returns false and changes nothing.
TryRead(t) ==
    /\ pc[t] = "out"
    /\ ~writes[t]
    /\ held[t] < MaxReads
    /\ Obtain(t)
    /\ Goto(t, "reading")
    /\ UNCHANGED <<reader_count, writer_count, held, writes>>

\* Slip: the reader keeps the mutex.
ReadEntersKeeping(t) ==
    /\ pc[t] = "reading"
    /\ reader_count' = reader_count + 1
    /\ held' = [held EXCEPT ![t] = @ + 1]
    /\ Goto(t, "out")
    /\ UNCHANGED <<lock, depth, writer_count, writes>>

ReadEnters(t) ==
    /\ pc[t] = "reading"
    /\ reader_count' = reader_count + 1
    /\ held' = [held EXCEPT ![t] = @ + 1]
    /\ Release(t)
    /\ Goto(t, "out")
    /\ UNCHANGED <<writer_count, writes>>

-----------------------------------------------------------------------------
(* SDL_LockRWLockForWriting, SDL_TryLockRWLockForWriting                   *)

StartWrite(t) ==
    /\ pc[t] = "out"
    /\ ~writes[t]
    /\ held[t] = 0
    /\ Goto(t, "write")
    /\ UNCHANGED <<lock, depth, reader_count, writer_count, held, writes>>

\* The mutex, taken the first time or back after SDL_WaitCondition.
WriteObtains(t) ==
    /\ pc[t] \in {"write", "woken"}
    /\ Obtain(t)
    /\ Goto(t, "writing")
    /\ UNCHANGED <<reader_count, writer_count, held, writes>>

\* SDL_WaitCondition gives the mutex up.
WriteWaits(t) ==
    /\ pc[t] = "writing"
    /\ reader_count > 0
    /\ Release(t)
    /\ Goto(t, "asleep")
    /\ UNCHANGED <<reader_count, writer_count, held, writes>>

\* Slip: "if" instead of "while" around the wait.
WriteEntersAfterOneWait(t) ==
    /\ \/ pc[t] = "writing" /\ reader_count = 0
       \/ pc[t] = "woken" /\ Free(t)
    /\ lock' = t
    /\ depth' = 1
    /\ writer_count' = writer_count + 1
    /\ writes' = [writes EXCEPT ![t] = TRUE]
    /\ Goto(t, "out")
    /\ UNCHANGED <<reader_count, held>>

\* Slip: the mutex is given back while the write lock is held.
WriteEntersReleasing(t) ==
    /\ pc[t] \in {"writing", "trying"}
    /\ reader_count = 0
    /\ writer_count' = writer_count + 1
    /\ writes' = [writes EXCEPT ![t] = TRUE]
    /\ Release(t)
    /\ Goto(t, "out")
    /\ UNCHANGED <<reader_count, held>>

\* The write lock is granted; the mutex stays obtained.
WriteEnters(t) ==
    /\ pc[t] \in {"writing", "trying"}
    /\ reader_count = 0
    /\ writer_count' = writer_count + 1
    /\ writes' = [writes EXCEPT ![t] = TRUE]
    /\ Goto(t, "out")
    /\ UNCHANGED <<lock, depth, reader_count, held>>

TryWrite(t) ==
    /\ pc[t] = "out"
    /\ ~writes[t]
    /\ held[t] = 0
    /\ Obtain(t)
    /\ Goto(t, "trying")
    /\ UNCHANGED <<reader_count, writer_count, held, writes>>

TryWriteFails(t) ==
    /\ pc[t] = "trying"
    /\ reader_count > 0
    /\ Release(t)
    /\ Goto(t, "out")
    /\ UNCHANGED <<reader_count, writer_count, held, writes>>

-----------------------------------------------------------------------------
(* SDL_UnlockRWLock                                                        *)

StartUnlock(t) ==
    /\ pc[t] = "out"
    /\ writes[t] \/ held[t] > 0
    /\ Goto(t, "unlock")
    /\ UNCHANGED <<lock, depth, reader_count, writer_count, held, writes>>

UnlockObtains(t) ==
    /\ pc[t] = "unlock"
    /\ Obtain(t)
    /\ Goto(t, "unlocking")
    /\ UNCHANGED <<reader_count, writer_count, held, writes>>

\* SDL_BroadcastCondition: every waiting writer is on its way.
WakeWriters(t) ==
    pc' = [u \in Users |-> IF u = t THEN "leaving"
                           ELSE IF pc[u] = "asleep" THEN "woken" ELSE pc[u]]

\* Slip: the waiting writers are not told.
UnlockReaderSilently(t) ==
    /\ pc[t] = "unlocking"
    /\ reader_count > 0
    /\ reader_count' = reader_count - 1
    /\ held' = [held EXCEPT ![t] = @ - 1]
    /\ Goto(t, "leaving")
    /\ UNCHANGED <<lock, depth, writer_count, writes>>

\* Which lock is being released is told from the reader count alone.
UnlockReader(t) ==
    /\ pc[t] = "unlocking"
    /\ reader_count > 0
    /\ reader_count' = reader_count - 1
    /\ held' = [held EXCEPT ![t] = @ - 1]
    /\ WakeWriters(t)
    /\ UNCHANGED <<lock, depth, writer_count, writes>>

UnlockWriter(t) ==
    /\ pc[t] = "unlocking"
    /\ reader_count = 0
    /\ writer_count > 0
    /\ writer_count' = writer_count - 1
    /\ writes' = [writes EXCEPT ![t] = FALSE]
    /\ Release(t)
    /\ Goto(t, "leaving")
    /\ UNCHANGED <<reader_count, held>>

UnlockReturns(t) ==
    /\ pc[t] = "leaving"
    /\ Release(t)
    /\ Goto(t, "out")
    /\ UNCHANGED <<reader_count, writer_count, held, writes>>

-----------------------------------------------------------------------------

InCall(t) ==
    \/ ReadObtains(t)
    \/ ReadEnters(t)
    \/ WriteObtains(t)
    \/ WriteWaits(t)
    \/ WriteEnters(t)
    \/ TryWriteFails(t)
    \/ UnlockObtains(t)
    \/ UnlockReader(t)
    \/ UnlockWriter(t)
    \/ UnlockReturns(t)

Asks(t) ==
    \/ StartRead(t)
    \/ TryRead(t)
    \/ StartWrite(t)
    \/ TryWrite(t)

Next == \E t \in Users :
    \/ Asks(t)
    \/ StartUnlock(t)
    \/ InCall(t)

Spec == Init /\ [][Next]_vars

(* A SignalSemaphore is granted in the order of the requests, so a thread  *)
(* that asks for the mutex again and again free gets it; and whoever holds *)
(* a lock releases it in the end.                                          *)
Fairness == \A t \in Users : SF_vars(InCall(t)) /\ SF_vars(StartUnlock(t))

FairSpec == Spec /\ Fairness

-----------------------------------------------------------------------------
(* Properties                                                              *)

\* The lock behaves as SDL_mutex.h says: readers share, a writer excludes
\* everybody else.
Abstract == INSTANCE ReadWriteLock WITH
    reads <- held,
    writer <- IF \E t \in Users : writes[t]
              THEN CHOOSE t \in Users : writes[t] ELSE Nobody
SharesOrExcludes == Abstract!Spec

\* SDL_assert(writer_count == 0) in SDL_LockRWLockForReading: a reader never
\* obtains the mutex while a writer has the lock.
AssertionHolds == \A t \in Users : pc[t] = "reading" => writer_count = 0

\* A writer sleeps on the condition only while some reader is inside, so the
\* reader that has to wake it is still to come.
NoForgottenWriter ==
    (\E t \in Users : pc[t] = "asleep") => reader_count > 0

\* Once nobody asks for the lock any more, every call under way is served and
\* every lock goes back: no writer sleeps on the condition for ever, and no two
\* threads wait for each other.
CallsDrain ==
    <>[][\A t \in Users : ~Asks(t)]_vars =>
       <>[](\A t \in Users : pc[t] = "out" /\ ~writes[t] /\ held[t] = 0)

\* The mutex is never left obtained: with no lock held and no call in
\* progress it is free.
NothingLeftLocked ==
    (\A t \in Users : pc[t] = "out" /\ ~writes[t]) => lock = Nobody

\* The recursive mutex stands for the write lock: both of the above.
MutexMeansWriter == AssertionHolds /\ NothingLeftLocked
=============================================================================

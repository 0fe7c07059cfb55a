--------------------------- MODULE ReadWriteLock ---------------------------
(***************************************************************************)
(* What SDL_mutex.h promises of an SDL_RWLock: any number of read locks,   *)
(* several of them by one thread, or one write lock.                       *)
(***************************************************************************)
EXTENDS Naturals

CONSTANTS Users, Nobody

VARIABLES
    reads,          \* reads[t]: read locks thread t holds
    writer          \* the thread that holds the write lock

vars == <<reads, writer>>

Init ==
    /\ reads = [t \in Users |-> 0]
    /\ writer = Nobody

Read(t) ==
    /\ writer = Nobody
    /\ reads' = [reads EXCEPT ![t] = @ + 1]
    /\ UNCHANGED writer

Write(t) ==
    /\ writer = Nobody
    /\ \A u \in Users : reads[u] = 0
    /\ writer' = t
    /\ UNCHANGED reads

UnlockRead(t) ==
    /\ reads[t] > 0
    /\ reads' = [reads EXCEPT ![t] = @ - 1]
    /\ UNCHANGED writer

UnlockWrite(t) ==
    /\ writer = t
    /\ writer' = Nobody
    /\ UNCHANGED reads

Next == \E t \in Users : Read(t) \/ Write(t) \/ UnlockRead(t) \/ UnlockWrite(t)

Spec == Init /\ [][Next]_vars
=============================================================================

------------------------- MODULE CountingSemaphore -------------------------
(***************************************************************************)
(* What SDL_mutex.h promises of a counting semaphore, without saying how a *)
(* waiting thread sleeps or is woken.                                      *)
(*                                                                         *)
(*   "Once created, a thread can wait on the semaphore (suspending the     *)
(*   thread until the semaphore has a positive value), then decrement it." *)
(*                                                                         *)
(* A call of SDL_WaitSemaphoreTimeoutNS is pending from Begin until it     *)
(* answers: TRUE after it has consumed one unit of the value, FALSE        *)
(* without having consumed any, and that only if its timeout permits.  A   *)
(* call the system has refused something it needs may fail whatever its    *)
(* timeout, and only such a call may take a unit with it.                  *)
(***************************************************************************)
EXTENDS Naturals

CONSTANTS
    Callers,        \* the threads that wait
    Timeouts        \* the kinds of timeout they pass

VARIABLES
    value,          \* units available
    call,           \* call[t]: the timeout t is waiting with, or "none"
    answer,         \* answer[t]: what the last finished wait of t returned
    refused         \* the callers the system has refused something

vars == <<value, call, answer, refused>>

Finish(t, result) ==
    /\ call[t] # "none"
    /\ call' = [call EXCEPT ![t] = "none"]
    /\ answer' = [answer EXCEPT ![t] = result]
    /\ refused' = refused \ {t}

Begin(t, timeout) ==
    /\ call[t] = "none"
    /\ call' = [call EXCEPT ![t] = timeout]
    /\ answer' = [answer EXCEPT ![t] = FALSE]
    /\ UNCHANGED <<value, refused>>

Refuse(t) ==
    /\ call[t] # "none"
    /\ refused' = refused \cup {t}
    /\ UNCHANGED <<value, call, answer>>

Take ==
    /\ value > 0
    /\ value' = value - 1

Acquire(t) == Take /\ Finish(t, TRUE)

GiveUp(t) ==
    /\ call[t] # "forever" \/ t \in refused
    /\ Finish(t, FALSE)
    /\ UNCHANGED value

Lose(t) ==
    /\ t \in refused
    /\ Take
    /\ Finish(t, FALSE)

Post ==
    /\ value' = value + 1
    /\ UNCHANGED <<call, answer, refused>>

Init ==
    /\ value \in Nat
    /\ call = [t \in Callers |-> "none"]
    /\ answer = [t \in Callers |-> FALSE]
    /\ refused = {}

Next ==
    \/ Post
    \/ \E t \in Callers :
          \/ \E timeout \in Timeouts : Begin(t, timeout)
          \/ Refuse(t)
          \/ Acquire(t)
          \/ GiveUp(t)
          \/ Lose(t)

Spec == Init /\ [][Next]_vars
=============================================================================

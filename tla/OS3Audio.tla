------------------------------ MODULE OS3Audio ------------------------------
(***************************************************************************)
(* The AHI back end, SDL3/src/audio/amigaos3/SDL_os3audio.c: two write     *)
(* requests, each with its buffer, played in turn.  One is filled while    *)
(* AHI plays the other; the second is linked to the first, so that no gap  *)
(* is heard between them.                                                  *)
(*                                                                         *)
(* The operators are the calls the audio core makes.  They have no control *)
(* state of their own: module AudioDevice says who calls which of them and *)
(* when.  What AHI does with a request is external: it plays it, or keeps  *)
(* it until the one it is linked to has ended, and replies to it.          *)
(***************************************************************************)
EXTENDS Naturals

Slots == {0, 1}

VARIABLES
    hidden,             \* device->hidden and the two buffers are allocated
    device_open,        \* AHI is open and both requests are allocated
    thread_open_failed,
    current,            \* the slot that is filled next
    in_flight,          \* in_flight[s]: sent and not yet waited for
    io                  \* io[s]: what AHI has done with the request

ahi == <<hidden, device_open, thread_open_failed, current, in_flight, io>>

AHITypeOK ==
    /\ hidden \in BOOLEAN
    /\ device_open \in BOOLEAN
    /\ thread_open_failed \in BOOLEAN
    /\ current \in Slots
    /\ in_flight \in [Slots -> BOOLEAN]
    /\ io \in [Slots -> {"idle", "queued", "playing", "replied"}]

AHIInit ==
    /\ hidden = FALSE
    /\ device_open = FALSE
    /\ thread_open_failed = FALSE
    /\ current = 0
    /\ in_flight = [s \in Slots |-> FALSE]
    /\ io = [s \in Slots |-> "idle"]

Other(s) == 1 - s

WithAHI(s) == io[s] \in {"queued", "playing"}

-----------------------------------------------------------------------------
(* Calls from the thread that opens and closes the device                  *)

\* OS3_OpenDevice: SDL_calloc and the buffers.  The OS3AudioData is all 0.
OpenDevice ==
    /\ hidden' = TRUE
    /\ device_open' = FALSE
    /\ thread_open_failed' = FALSE
    /\ current' = 0
    /\ in_flight' = [s \in Slots |-> FALSE]
    /\ UNCHANGED io

\* OS3_FinishRequest for both slots, then the rest of OS3_CloseAHI.  Only a
\* request that was sent is aborted and waited for: WaitIO ends when AHI has
\* replied, which it does at once to AbortIO.
Finished(s) == in_flight[s] /\ io[s] # "idle"

CloseAHI ==
    /\ \A s \in Slots : in_flight[s] => Finished(s)
    /\ io' = [s \in Slots |-> IF Finished(s) THEN "idle" ELSE io[s]]
    /\ in_flight' = [s \in Slots |-> FALSE]
    /\ current' = 0
    /\ device_open' = FALSE

\* OS3_CloseDevice, by the thread that has joined the audio thread.  It does
\* nothing when the device data was never made.
CloseDevice ==
    /\ hidden' = FALSE
    /\ thread_open_failed' = FALSE
    /\ IF hidden THEN CloseAHI ELSE UNCHANGED <<device_open, current, in_flight, io>>

-----------------------------------------------------------------------------
(* Calls from the audio thread                                             *)

\* OS3_ThreadInit, as far as it is the back end's: OS3_OpenAHI.
OpenAHI ==
    /\ device_open' = TRUE
    /\ current' = 0
    /\ in_flight' = [s \in Slots |-> FALSE]
    /\ UNCHANGED <<hidden, thread_open_failed, io>>

OpenAHIFails ==
    /\ thread_open_failed' = TRUE
    /\ UNCHANGED <<hidden, device_open, current, in_flight, io>>

\* OS3_ThreadDeinit.
ThreadDeinit == CloseAHI /\ UNCHANGED <<hidden, thread_open_failed>>

Usable == device_open /\ ~thread_open_failed

\* OS3_WaitDevice: does it have to wait for the buffer that is next?
Busy == in_flight[current]

\* WaitIO in OS3_WaitDevice, once AHI has replied.
Collect ==
    /\ io[current] = "replied"
    /\ io' = [io EXCEPT ![current] = "idle"]
    /\ in_flight' = [in_flight EXCEPT ![current] = FALSE]
    /\ UNCHANGED <<hidden, device_open, thread_open_failed, current>>

\* ahir_Link in OS3_PlayDevice: is there a request to link this one to?
Links == in_flight[Other(current)]

\* OS3_PlayDevice succeeds.
Playable == Usable /\ ~in_flight[current]

\* SendIO.  A request linked to one that AHI still has waits for its end.
Send ==
    /\ io' = [io EXCEPT ![current] =
                 IF Links /\ WithAHI(Other(current)) THEN "queued" ELSE "playing"]
    /\ in_flight' = [in_flight EXCEPT ![current] = TRUE]
    /\ current' = Other(current)
    /\ UNCHANGED <<hidden, device_open, thread_open_failed>>

-----------------------------------------------------------------------------
(* AHI                                                                     *)

\* The end of a buffer: AHI replies and goes on with the one linked to it.
PlaysOut(s) ==
    /\ io[s] = "playing"
    /\ io' = [r \in Slots |-> IF r = s THEN "replied"
                              ELSE IF io[r] = "queued" THEN "playing" ELSE io[r]]
    /\ UNCHANGED <<hidden, device_open, thread_open_failed, current, in_flight>>
=============================================================================

---------------------------- MODULE AudioDevice ----------------------------
(***************************************************************************)
(* A playback device of the audio core, SDL3/src/audio/SDL_audio.c, over   *)
(* the AHI back end of module OS3Audio: threads open and close logical     *)
(* devices on it, the audio thread plays, and when the device is lost the  *)
(* audio thread says so and the main thread hears of it in a callback.     *)
(*                                                                         *)
(* The port has one playback device, the default one, which lives until    *)
(* SDL_QuitAudio.  The reference it starts with for being the default is   *)
(* never given up, as no other device can become the default.              *)
(*                                                                         *)
(* A section under device->lock is one action.  The lock is dropped, and   *)
(* another action begins, where the code joins the audio thread and where  *)
(* it waits for close_cond.  A joining thread is taken to have a signal    *)
(* bit left (OS3Thread says what happens otherwise).  Each thread opens at most one logical device  *)
(* at a time and closes it itself.  A logical device that cannot be put    *)
(* into the hash of ids stays in the device's list as an orphan, for no    *)
(* thread can name it.                                                     *)
(***************************************************************************)
EXTENDS OS3Audio, Integers, FiniteSets

CONSTANTS
    Callers,        \* threads that open and close the device
    Main,           \* the one that runs the main thread's callbacks
    MaxCallbacks,   \* bound: disconnect callbacks that wait to be run
    MaxOrphans      \* bound: insertions into the hash that fail

ASSUME AudioAssumption ==
    /\ Main \in Callers
    /\ IsFiniteSet(Callers)
    /\ MaxCallbacks \in Nat \ {0}
    /\ MaxOrphans \in Nat

VARIABLES
    pc,             \* where each caller is
    goal,           \* goal[c]: why it closes the physical device
    wants,          \* wants[c]: the kind of logical device it asks for
    logical,        \* logical[c]: the logical device it has open
    served,         \* those opened while the device had its thread (ghost)
    late,           \* those opened when the events of the loss were out (ghost)
    orphans,        \* logical devices in the list that are not in the hash
    told,           \* the logical devices a REMOVED event was queued for
    refcount,       \* device->refcount
    zombie,         \* device->zombie
    shutdown,       \* device->shutdown
    currently_opened,
    functions,      \* whose WaitDevice, GetDeviceBuf and PlayDevice are set
    thread,         \* the audio thread; "none" when device->thread is NULL
    callbacks,      \* SDL_AudioDeviceDisconnected_OnMainThread calls queued
    alive           \* SDL_QuitAudio has not freed the device

calls == <<pc, goal, wants>>
ghosts == <<served, late>>
core == <<logical, ghosts, orphans, told, refcount, zombie, shutdown,
          currently_opened, functions>>
vars == <<calls, core, thread, callbacks, alive, ahi>>

\* A logical device opened by its physical device's id is explicit.
Kinds == {"default", "explicit"}

TypeOK ==
    /\ AHITypeOK
    /\ pc \in [Callers -> {"idle", "open", "asleep", "woken", "close", "join",
                           "finish", "callback"}]
    /\ goal \in [Callers -> {"close", "fail", "quit"}]
    /\ wants \in [Callers -> Kinds]
    /\ logical \in [Callers -> {"no"} \cup Kinds]
    /\ served \subseteq Callers
    /\ late \subseteq Callers
    /\ orphans \in 0..MaxOrphans
    /\ told \subseteq Callers
    /\ refcount \in Int
    /\ zombie \in 0..2
    /\ shutdown \in BOOLEAN
    /\ currently_opened \in BOOLEAN
    /\ functions \in {"none", "backend", "zombie"}
    /\ thread \in {"none", "init", "unopened", "iterate", "report", "wait",
                   "waitio", "drain", "ended"}
    /\ callbacks \in 0..MaxCallbacks
    /\ alive \in BOOLEAN

Init ==
    /\ AHIInit
    /\ pc = [c \in Callers |-> "idle"]
    /\ goal = [c \in Callers |-> "close"]
    /\ wants = [c \in Callers |-> "default"]
    /\ logical = [c \in Callers |-> "no"]
    /\ served = {}
    /\ late = {}
    /\ orphans = 0
    /\ told = {}
    /\ refcount = 2
    /\ zombie = 0
    /\ shutdown = FALSE
    /\ currently_opened = FALSE
    /\ functions = "none"
    /\ thread = "none"
    /\ callbacks = 0
    /\ alive = TRUE

Open == {c \in Callers : logical[c] # "no"}

At(c, label) == [pc EXCEPT ![c] = label]

Closing(why) == {c \in Callers : pc[c] \in {"join", "finish"} /\ goal[c] = why}

\* The device is found by its id: SDL_QuitAudio empties the hash first.
Known == alive /\ Closing("quit") = {}

-----------------------------------------------------------------------------
(* SDL_OpenAudioDevice                                                     *)

\* The device is found and referenced; the call then waits for its lock.
StartOpen(c, kind) ==
    /\ pc[c] = "idle"
    /\ logical[c] = "no"
    /\ Known
    /\ refcount' = refcount + 1
    /\ pc' = At(c, "open")
    /\ wants' = [wants EXCEPT ![c] = kind]
    /\ UNCHANGED <<goal, logical, ghosts, orphans, told, zombie, shutdown,
                   currently_opened, functions, thread, callbacks, alive, ahi>>

\* "uhoh, this device is undead": only those who ask for the default device
\* may still have it.
Undead(c) == wants[c] = "explicit" /\ zombie # 0

Refuse(c) ==
    /\ pc[c] = "open"
    /\ Undead(c)
    /\ refcount' = refcount - 1
    /\ pc' = At(c, "idle")
    /\ wants' = [wants EXCEPT ![c] = "default"]
    /\ UNCHANGED <<goal, logical, ghosts, orphans, told, zombie, shutdown,
                   currently_opened, functions, thread, callbacks, alive, ahi>>

\* Slip: the close of another thread is not waited for.
NeverWait == FALSE

\* SerializePhysicalDeviceClose, at the start of OpenPhysicalAudioDevice.
MustWait == shutdown

Opening(c) == pc[c] = "woken" \/ (pc[c] = "open" /\ ~Undead(c))

Sleep(c) ==
    /\ Opening(c)
    /\ MustWait
    /\ pc' = At(c, "asleep")
    /\ UNCHANGED <<goal, wants, core, thread, callbacks, alive, ahi>>

\* The new logical device.  It takes over the reference of the call.  If there
\* is no memory for its place in the hash, the SDL_CloseAudioDevice that should
\* take it back does not find it.
AddLogical(c) ==
    /\ \/ /\ logical' = [logical EXCEPT ![c] = wants[c]]
          /\ served' = IF currently_opened' THEN served \cup {c} ELSE served
          /\ late' = IF zombie = 2 THEN late \cup {c} ELSE late
          /\ UNCHANGED orphans
       \/ /\ orphans < MaxOrphans
          /\ orphans' = orphans + 1
          /\ UNCHANGED <<logical, ghosts>>
    /\ pc' = At(c, "idle")
    /\ wants' = [wants EXCEPT ![c] = "default"]
    /\ UNCHANGED <<goal, told, refcount, zombie, callbacks, alive>>

\* OpenPhysicalAudioDevice has nothing to do: the device is open, or it is a
\* zombie, which it only pretends to open.
Share(c) ==
    /\ Opening(c)
    /\ ~MustWait
    /\ currently_opened \/ zombie # 0
    /\ UNCHANGED <<shutdown, currently_opened, functions, thread, ahi>>
    /\ AddLogical(c)

Fresh(c) == Opening(c) /\ ~MustWait /\ ~currently_opened /\ zombie = 0

OpenPhysical(c) ==
    /\ Fresh(c)
    /\ functions' = "backend"
    /\ currently_opened' = TRUE
    /\ OpenDevice
    /\ thread' = "init"
    /\ AddLogical(c)
    /\ UNCHANGED shutdown

\* The back end refuses, or there is no memory, or no thread: what was set up
\* is closed again by ClosePhysicalAudioDevice.
OpenFails(c) ==
    /\ Fresh(c)
    /\ functions' = "backend"
    /\ currently_opened' = TRUE
    /\ OpenDevice \/ UNCHANGED ahi
    /\ shutdown' = TRUE
    /\ pc' = At(c, "join")
    /\ wants' = [wants EXCEPT ![c] = "default"]
    /\ goal' = [goal EXCEPT ![c] = "fail"]
    /\ UNCHANGED <<logical, ghosts, orphans, told, refcount, zombie, thread,
                   callbacks, alive>>

-----------------------------------------------------------------------------
(* SDL_CloseAudioDevice, ClosePhysicalAudioDevice and SDL_QuitAudio        *)

StartClose(c) ==
    /\ pc[c] = "idle"
    /\ logical[c] # "no"
    /\ refcount' = refcount + 1
    /\ pc' = At(c, "close")
    /\ UNCHANGED <<goal, wants, logical, ghosts, orphans, told, zombie,
                   shutdown, currently_opened, functions, thread, callbacks,
                   alive, ahi>>

\* DestroyLogicalAudioDevice.
DropLogical(c) ==
    /\ logical' = [logical EXCEPT ![c] = "no"]
    /\ told' = told \ {c}
    /\ served' = served \ {c}
    /\ late' = late \ {c}
    /\ UNCHANGED orphans

\* There are other logical devices left.
CloseLogical(c) ==
    /\ pc[c] = "close"
    /\ Open # {c} \/ orphans > 0
    /\ DropLogical(c)
    /\ refcount' = refcount - 2
    /\ pc' = At(c, "idle")
    /\ UNCHANGED <<goal, wants, zombie, shutdown, currently_opened,
                   functions, thread, callbacks, alive, ahi>>

\* ClosePhysicalAudioDevice up to where it drops the lock.  (It begins with
\* SerializePhysicalDeviceClose as well.)
BeginClose(c, why) ==
    /\ ~MustWait
    /\ shutdown' = TRUE
    /\ pc' = At(c, "join")
    /\ goal' = [goal EXCEPT ![c] = why]

CloseLast(c) ==
    /\ pc[c] = "close"
    /\ Open = {c} /\ orphans = 0
    /\ DropLogical(c)
    /\ BeginClose(c, "close")
    /\ UNCHANGED <<wants, refcount, zombie, currently_opened, functions,
                   thread, callbacks, alive, ahi>>

\* SDL_QuitAudio, once the application makes no other call: the device is
\* destroyed with the logical devices it has left.
Quit ==
    /\ alive
    /\ \A c \in Callers : pc[c] = "idle"
    /\ logical' = [c \in Callers |-> "no"]
    /\ orphans' = 0
    /\ told' = {}
    /\ served' = {}
    /\ late' = {}
    /\ BeginClose(Main, "quit")
    /\ UNCHANGED <<wants, refcount, zombie, currently_opened, functions,
                   thread, callbacks, alive, ahi>>

Joined == thread \in {"none", "ended"}

\* SDL_WaitThread has returned; the back end is closed without the lock.
Join(c) ==
    /\ pc[c] = "join"
    /\ Joined
    /\ thread' = "none"
    /\ currently_opened' = FALSE
    /\ IF currently_opened THEN CloseDevice ELSE UNCHANGED ahi
    /\ pc' = At(c, "finish")
    /\ UNCHANGED <<goal, wants, logical, ghosts, orphans, told, refcount,
                   zombie, shutdown, functions, callbacks, alive>>

\* The references a call gives back after ClosePhysicalAudioDevice: its own
\* and, if it has closed a logical device, that one's.
Unrefs == [close |-> 2, fail |-> 1, quit |-> 0]

\* SDL_BroadcastCondition(device->close_cond), for one caller.  Slip: left out.
Unheard(label) == label
Awake(label) == IF label = "asleep" THEN "woken" ELSE label

\* ClosePhysicalAudioDevice from where it has the lock again, to the end of
\* the call.
Finish(c) ==
    /\ pc[c] = "finish"
    /\ shutdown' = FALSE
    /\ pc' = [d \in Callers |-> IF d = c THEN "idle" ELSE Awake(pc[d])]
    /\ goal' = [goal EXCEPT ![c] = "close"]
    /\ refcount' = refcount - Unrefs[goal[c]]
    /\ alive' = (alive /\ goal[c] # "quit")
    /\ UNCHANGED <<wants, logical, ghosts, orphans, told, zombie,
                   currently_opened, functions, thread, callbacks, ahi>>

-----------------------------------------------------------------------------
(* The audio thread                                                        *)

\* Slip: zombie is counted up instead of compared and swapped.
DisconnectedAgain ==
    refcount' = refcount + 1 /\ zombie' = zombie + 1 /\ callbacks' = callbacks + 1

\* Slip: the report holds no reference.
DisconnectedUnheld ==
    /\ zombie' = IF zombie = 0 THEN 1 ELSE zombie
    /\ callbacks' = callbacks + 1 /\ UNCHANGED refcount

\* SDL_AudioDeviceDisconnected: the audio thread says that the device is
\* lost, and leaves the rest to the main thread.
Disconnected ==
    /\ refcount' = refcount + 1
    /\ zombie' = IF zombie = 0 THEN 1 ELSE zombie
    /\ callbacks' = callbacks + 1

Idly == UNCHANGED <<calls, logical, ghosts, orphans, told, shutdown,
                    currently_opened, alive>>

ThreadInit ==
    /\ thread = "init"
    /\ \/ OpenAHI /\ thread' = "iterate"
       \/ OpenAHIFails /\ thread' = "unopened"
    /\ Idly
    /\ UNCHANGED <<refcount, zombie, functions, callbacks>>

Report ==
    /\ thread \in {"unopened", "report"}
    /\ thread' = IF thread = "report" THEN "wait" ELSE "iterate"
    /\ Disconnected
    /\ Idly
    /\ UNCHANGED <<functions, ahi>>

\* SDL_PlaybackAudioThreadIterate up to the test of device->shutdown.
Leave ==
    /\ thread = "iterate"
    /\ shutdown
    /\ thread' = "drain"
    /\ Idly
    /\ UNCHANGED <<refcount, zombie, functions, callbacks, ahi>>

\* Slip: the back end is still asked after the device was found dead.
CallsAnyway == functions

\* Whose functions the iteration will call.
Calls == IF zombie = 1 THEN "zombie" ELSE functions

\* The rest of it: the buffer is filled and passed to PlayDevice.  A stream
\* that cannot deliver for want of memory, or PlayDevice, makes it fail; the
\* zombie functions throw the buffer away.  Bound: MaxCallbacks.
Iterate ==
    /\ thread = "iterate"
    /\ ~shutdown
    /\ functions' = Calls
    /\ IF Calls = "backend" /\ Playable THEN Send ELSE UNCHANGED ahi
    /\ \E starved \in BOOLEAN :
          /\ starved => callbacks < MaxCallbacks
          /\ thread' = IF starved \/ (Calls = "backend" /\ ~Playable)
                       THEN "report" ELSE "wait"
    /\ Idly
    /\ UNCHANGED <<refcount, zombie, callbacks>>

\* WaitDevice up to where the back end waits for AHI.  If it fails the
\* device is reported lost before the next iteration.
Wait ==
    /\ thread = "wait"
    /\ thread' = IF functions = "zombie" THEN "iterate"
                 ELSE IF ~Usable THEN "unopened"
                 ELSE IF Busy THEN "waitio" ELSE "iterate"
    /\ Idly
    /\ UNCHANGED <<refcount, zombie, functions, callbacks, ahi>>

WaitIO ==
    /\ thread = "waitio"
    /\ Collect
    /\ thread' = "iterate"
    /\ Idly
    /\ UNCHANGED <<refcount, zombie, functions, callbacks>>

\* SDL_PlaybackAudioThreadShutdown and the end of the thread.
Drain ==
    /\ thread = "drain"
    /\ ThreadDeinit
    /\ thread' = "ended"
    /\ Idly
    /\ UNCHANGED <<refcount, zombie, functions, callbacks>>

AudioStep ==
    ThreadInit \/ Report \/ Leave \/ Iterate \/ Wait \/ WaitIO \/ Drain

AHIStep == (\E s \in Slots : PlaysOut(s)) /\ UNCHANGED <<calls, core, thread,
                                                         callbacks, alive>>

-----------------------------------------------------------------------------
(* SDL_AudioDeviceDisconnected_OnMainThread                                *)

\* The callback looks the device up by its id, and references it.
StartCallback ==
    /\ pc[Main] = "idle"
    /\ callbacks > 0
    /\ alive
    /\ refcount' = refcount + 1
    /\ pc' = At(Main, "callback")
    /\ UNCHANGED <<goal, wants, logical, ghosts, orphans, told, zombie,
                   shutdown, currently_opened, functions, thread, callbacks,
                   alive, ahi>>

\* "apparently it went away already": after SDL_QuitAudio there is no device.
CallbackTooLate ==
    /\ pc[Main] = "idle"
    /\ callbacks > 0
    /\ ~alive
    /\ callbacks' = callbacks - 1
    /\ UNCHANGED <<calls, core, thread, alive, ahi>>

\* Slip: a device the audio thread has marked counts as handled.
UnmarkedDisconnect == zombie = 0

\* Only the first callback sends events and gives up the reference the device
\* was made with.  Each gives back its own and the one of its report.
FirstDisconnect == zombie # 2

Disconnect ==
    /\ pc[Main] = "callback"
    /\ zombie' = 2
    /\ functions' = IF FirstDisconnect THEN "zombie" ELSE functions
    /\ told' = IF FirstDisconnect
               THEN told \cup {c \in Callers : logical[c] = "explicit"}
               ELSE told
    /\ refcount' = refcount - (IF FirstDisconnect THEN 3 ELSE 2)
    /\ callbacks' = callbacks - 1
    /\ pc' = At(Main, "idle")
    /\ UNCHANGED <<goal, wants, logical, ghosts, orphans, shutdown,
                   currently_opened, thread, alive, ahi>>

CallbackStep == StartCallback \/ CallbackTooLate

-----------------------------------------------------------------------------
(* The whole                                                               *)

\* The application makes a call.
Asks(c) == \/ \E kind \in Kinds : StartOpen(c, kind)
           \/ StartClose(c)
           \/ c = Main /\ Quit

\* A call goes on.
CallStep(c) ==
    \/ Refuse(c) \/ Sleep(c) \/ Share(c) \/ OpenPhysical(c) \/ OpenFails(c)
    \/ CloseLogical(c) \/ CloseLast(c) \/ Join(c) \/ Finish(c)
    \/ c = Main /\ Disconnect

Next ==
    \/ \E c \in Callers : Asks(c) \/ CallStep(c)
    \/ CallbackStep
    \/ AudioStep
    \/ AHIStep

Spec == Init /\ [][Next]_vars

\* Every thread runs when it can and AHI plays what it is given.  The
\* application pumps its events again and again, whatever else it does.
Fairness ==
    /\ \A c \in Callers : WF_vars(CallStep(c))
    /\ SF_vars(CallbackStep)
    /\ WF_vars(AudioStep)
    /\ WF_vars(AHIStep)

FairSpec == Spec /\ Fairness

-----------------------------------------------------------------------------
(* Properties                                                              *)

\* Calls that hold a reference of their own, and those that still hold the
\* one of the logical device they have closed.
Holders == {c \in Callers : pc[c] # "idle"}
Releasers == Closing("close")

\* No reference is lost and none is given back twice: the device, the default
\* device and each logical device have one, and each call and each report
\* under way has one.
RefsBalance ==
    Known =>
       refcount = 1 + (IF zombie = 2 THEN 0 ELSE 1) + callbacks + orphans
                    + Cardinality(Open) + Cardinality(Releasers)
                    + Cardinality(Holders)

\* What is opened while the device has its audio thread keeps that until it is
\* closed, though the device be lost meanwhile, and only a device already lost
\* is opened without one: a zombie "only pretends".  No logical device is ever
\* on a device that is being closed, and the audio thread never outlives the
\* back end's data.
OpenIsServed ==
    /\ served # {} => currently_opened /\ thread \notin {"none", "drain", "ended"}
    /\ zombie = 0 => Open \subseteq served
    /\ zombie = 0 /\ orphans > 0 => currently_opened
    /\ Open # {} \/ orphans > 0 => ~shutdown
    /\ thread # "none" => currently_opened /\ hidden

\* A buffer is filled only when AHI is through with it and its request has
\* been waited for, a request is waited for only when it was sent, AHI is
\* never left with the request of a device that was closed, and never plays
\* both at a time.
BuffersAlternate ==
    /\ thread = "iterate" /\ ~shutdown /\ Calls = "backend" =>
          device_open /\ io[current] = "idle"
    /\ thread = "waitio" => io[current] # "idle"
    /\ \A s \in Slots : io[s] # "idle" => device_open /\ in_flight[s]
    /\ ~(io[0] = "playing" /\ io[1] = "playing")

\* Once the application stops asking, every call returns: a close joins the
\* audio thread whatever it was waiting for, and nobody sleeps on close_cond
\* for ever.
CallsReturn ==
    <>[][\A c \in Callers : ~Asks(c)]_vars =>
       <>[](\A c \in Callers : pc[c] \in {"idle", "callback"})

\* Those opened by the device's id before the events of its loss were out: a
\* late one is on the zombie though it was asked for by id, because its open
\* slept in OpenPhysicalAudioDevice, past the test of zombie.
Untold ==
    {c \in Callers \ late : logical[c] = "explicit" /\ c \notin told}

\* Whoever has opened the device by its id before the events of its loss are
\* sent gets one, unless the device is closed first.
LossIsTold == zombie # 0 /\ Untold # {} ~> Untold = {}
=============================================================================

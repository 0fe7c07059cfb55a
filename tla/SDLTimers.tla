----------------------------- MODULE SDLTimers -----------------------------
(***************************************************************************)
(* The timer subsystem, SDL3/src/timer/SDL_timer.c.                        *)
(*                                                                         *)
(* Any thread adds and removes timers; one thread runs them.  A timer      *)
(* block travels from its creator to data->pending, from there through the *)
(* timer thread's hands into the sorted list data->timers, through a       *)
(* callback, onto the thread's local list of expired timers and to         *)
(* data->freelist, where the next SDL_CreateTimer takes it.  A second      *)
(* structure, the timer map, leads from an id to the block.                *)
(*                                                                         *)
(* Critical sections (data->lock, timermap_lock) are one action each.  The *)
(* model starts when SDL_InitTimers has returned.  The timer thread makes  *)
(* finite waits on data->sem again and again, and is taken to be right in  *)
(* each: OS3Semaphore shows that for one finite wait per thread only.      *)
(***************************************************************************)
EXTENDS Naturals, Sequences, Functions

CONSTANTS
    Callers,        \* application threads that add and remove timers
    TimerThread,    \* the timer thread, in a callback, when it does so
    Blocks,         \* SDL_Timer blocks that malloc may return
    NoBlock,        \* a NULL SDL_Timer pointer
    Intervals,      \* intervals asked for, and returned by callbacks
    MaxId,          \* bound: timers created in a run
    MaxTime,        \* bound: where the clock stops
    MallocFails     \* whether the timer map entry may fail to be allocated

ASSUME TimersAssumption ==
    /\ TimerThread \notin Callers
    /\ NoBlock \notin Blocks
    /\ Intervals \subseteq Nat
    /\ MaxId \in Nat
    /\ MaxTime \in Nat
    /\ MallocFails \in BOOLEAN

Actors == Callers \cup {TimerThread}

Ids == 1..MaxId

VARIABLES
    pending,        \* data->pending
    sorting,        \* the timer thread's local `pending'
    timers,         \* data->timers
    expired,        \* freelist_head .. freelist_tail of the timer thread
    freelist,       \* data->freelist
    allocated,      \* blocks that malloc has handed out
    id,             \* timer->timerID
    due,            \* timer->scheduled
    canceled,       \* timer->canceled
    map,            \* ids in data->timermap
    entries,        \* ids whose SDL_TimerMap block is allocated
    owner,          \* entry->timer
    nextId,         \* what SDL_GetNextObjectID returns next
    sem,            \* value of data->sem
    active,         \* data->active
    thread,         \* where the timer thread is
    current,        \* its local `current'
    tick,           \* its local `tick'
    now,            \* SDL_GetTicksNS()
    pc,             \* where each actor is in a call
    block,          \* block[c]: `timer' in SDL_CreateTimer
    arg,            \* arg[c]: the id c removes or has just created
    known,          \* ids the application has been told (ghost)
    called,         \* ids whose callback has run (ghost)
    removed,        \* ids that SDL_RemoveTimer removed with success (ghost)
    late            \* those whose callback was started after that (ghost)

lists == <<pending, sorting, timers, expired, freelist>>
objects == <<allocated, id, due, canceled>>
mapping == <<map, entries, owner, nextId>>
dispatcher == <<thread, current, tick>>
calls == <<pc, block, arg>>
ghosts == <<known, called, removed, late>>

vars == <<lists, objects, mapping, sem, active, dispatcher, now, calls, ghosts>>

TypeOK ==
    /\ {pending, sorting, timers, expired, freelist} \subseteq Seq(Blocks)
    /\ allocated \subseteq Blocks
    /\ id \in [Blocks -> 0..MaxId]
    /\ due \in [Blocks -> 0..MaxTime]
    /\ canceled \in [Blocks -> BOOLEAN]
    /\ map \subseteq entries
    /\ entries \subseteq Ids
    /\ owner \in [Ids -> Blocks \cup {NoBlock}]
    /\ nextId \in 1..(MaxId + 1)
    /\ sem \in Nat
    /\ active \in BOOLEAN
    /\ thread \in {"maintain", "sort", "dispatch", "call", "callback", "wait",
                   "exited"}
    /\ current \in Blocks \cup {NoBlock}
    /\ tick \in 0..MaxTime
    /\ now \in 0..MaxTime
    /\ pc \in [Actors -> {"out", "recycle", "setup", "map", "push", "signal",
                          "return", "look", "cancel", "quit", "join", "done",
                          "spin"}]
    /\ block \in [Actors -> Blocks \cup {NoBlock}]
    /\ arg \in [Actors -> 0..MaxId]
    /\ known \subseteq Ids
    /\ called \subseteq Ids
    /\ removed \subseteq Ids
    /\ late \subseteq Ids

Init ==
    /\ pending = <<>>
    /\ sorting = <<>>
    /\ timers = <<>>
    /\ expired = <<>>
    /\ freelist = <<>>
    /\ allocated = {}
    /\ id = [b \in Blocks |-> 0]
    /\ due = [b \in Blocks |-> 0]
    /\ canceled = [b \in Blocks |-> FALSE]
    /\ map = {}
    /\ entries = {}
    /\ owner = [i \in Ids |-> NoBlock]
    /\ nextId = 1
    /\ sem = 0
    /\ active = TRUE
    /\ thread = "maintain"
    /\ current = NoBlock
    /\ tick = 0
    /\ now = 0
    /\ pc = [c \in Actors |-> "out"]
    /\ block = [c \in Actors |-> NoBlock]
    /\ arg = [c \in Actors |-> 0]
    /\ known = {}
    /\ called = {}
    /\ removed = {}
    /\ late = {}

Goto(c, label) == pc' = [pc EXCEPT ![c] = label]

\* The timer thread makes calls from inside a callback only, and nobody does
\* once the application quits.
MayCall(c) ==
    /\ pc[c] = "out"
    /\ active
    /\ c = TimerThread => thread = "callback"

-----------------------------------------------------------------------------
(* SDL_TimerThread                                                         *)

\* SDL_AddTimerInternal: before the first timer that is due later.
Insert(b, when) ==
    \E k \in 1..(Len(timers) + 1) :
       /\ \A i \in 1..(k - 1) : due[timers[i]] <= when
       /\ k <= Len(timers) => due[timers[k]] > when
       /\ timers' = SubSeq(timers, 1, k - 1) \o <<b>>
                       \o SubSeq(timers, k, Len(timers))

\* Slip: freelist_head is not reset, and published again the next time.
MaintainAgain ==
    /\ thread = "maintain"
    /\ sorting' = pending
    /\ pending' = <<>>
    /\ freelist' = expired \o freelist
    /\ thread' = "sort"
    /\ UNCHANGED <<timers, expired, objects, mapping, sem, active, current, tick,
                   now, calls, ghosts>>

\* Under data->lock: take the pending timers and publish the expired ones.
Maintain ==
    /\ thread = "maintain"
    /\ sorting' = pending
    /\ pending' = <<>>
    /\ freelist' = expired \o freelist
    /\ expired' = <<>>
    /\ thread' = "sort"
    /\ UNCHANGED <<timers, objects, mapping, sem, active, current, tick, now,
                   calls, ghosts>>

\* Slip: only the first of the pending timers is sorted in.
SortOne ==
    /\ thread = "sort"
    /\ sorting # <<>>
    /\ Insert(Head(sorting), due[Head(sorting)])
    /\ sorting' = <<>>
    /\ UNCHANGED <<pending, expired, freelist, objects, mapping, sem, active,
                   dispatcher, now, calls, ghosts>>

\* The next pending timer is sorted into the list.
Sort ==
    /\ thread = "sort"
    /\ sorting # <<>>
    /\ Insert(Head(sorting), due[Head(sorting)])
    /\ sorting' = Tail(sorting)
    /\ UNCHANGED <<pending, expired, freelist, objects, mapping, sem, active,
                   dispatcher, now, calls, ghosts>>

StillRunning ==
    /\ thread = "sort" /\ sorting = <<>>
    /\ active
    /\ tick' = now
    /\ thread' = "dispatch"
    /\ UNCHANGED <<lists, objects, mapping, sem, active, current, now, calls,
                   ghosts>>

LeaveLoop ==
    /\ thread = "sort" /\ sorting = <<>>
    /\ ~active
    /\ thread' = "exited"
    /\ UNCHANGED <<lists, objects, mapping, sem, active, current, tick, now,
                   calls, ghosts>>

\* Expired or canceled: onto the local freelist, with the flag set.
Retire(b) ==
    /\ expired' = Append(expired, b)
    /\ canceled' = [canceled EXCEPT ![b] = TRUE]

FirstDue == timers # <<>> /\ due[Head(timers)] <= tick

DispatchCanceled ==
    /\ thread = "dispatch"
    /\ FirstDue
    /\ canceled[Head(timers)]
    /\ Retire(Head(timers))
    /\ timers' = Tail(timers)
    /\ UNCHANGED <<pending, sorting, freelist, allocated, id, due, mapping, sem,
                   active, dispatcher, now, calls, ghosts>>

\* Slip: the flag is not looked at.
DispatchAnyway ==
    /\ thread = "dispatch"
    /\ FirstDue
    /\ current' = Head(timers)
    /\ timers' = Tail(timers)
    /\ thread' = "call"
    /\ UNCHANGED <<pending, sorting, expired, freelist, objects, mapping, sem,
                   active, tick, now, calls, ghosts>>

\* Slip: the first timer is run without asking whether it is due.
DispatchEarly ==
    /\ thread = "dispatch"
    /\ timers # <<>>
    /\ ~canceled[Head(timers)]
    /\ current' = Head(timers)
    /\ timers' = Tail(timers)
    /\ thread' = "call"
    /\ UNCHANGED <<pending, sorting, expired, freelist, objects, mapping, sem,
                   active, tick, now, calls, ghosts>>

\* The flag is looked at, and is not set.
Dispatch ==
    /\ thread = "dispatch"
    /\ FirstDue
    /\ ~canceled[Head(timers)]
    /\ current' = Head(timers)
    /\ timers' = Tail(timers)
    /\ thread' = "call"
    /\ UNCHANGED <<pending, sorting, expired, freelist, objects, mapping, sem,
                   active, tick, now, calls, ghosts>>

\* No lock is held since: the callback is started with the timer's id, whether
\* or not somebody has set the flag by now.
StartCallback ==
    /\ thread = "call"
    /\ thread' = "callback"
    /\ known' = known \cup {id[current]}
    /\ called' = called \cup {id[current]}
    /\ late' = late \cup ({id[current]} \cap removed)
    /\ UNCHANGED <<lists, objects, mapping, sem, active, current, tick, now, calls,
                   removed>>

\* The callback returns a new interval: scheduled again from this tick.
Reschedule(interval) ==
    /\ thread = "callback"
    /\ pc[TimerThread] = "out"
    /\ interval > 0
    /\ tick + interval <= MaxTime
    /\ due' = [due EXCEPT ![current] = tick + interval]
    /\ Insert(current, tick + interval)
    /\ current' = NoBlock
    /\ thread' = "dispatch"
    /\ UNCHANGED <<pending, sorting, expired, freelist, allocated, id, canceled,
                   mapping, sem, active, tick, now, calls, ghosts>>

\* The callback returns 0.
Expire ==
    /\ thread = "callback"
    /\ pc[TimerThread] = "out"
    /\ Retire(current)
    /\ current' = NoBlock
    /\ thread' = "dispatch"
    /\ UNCHANGED <<pending, sorting, timers, freelist, allocated, id, due, mapping,
                   sem, active, tick, now, calls, ghosts>>

\* The delay is counted from the current time, so the wait ends at the first
\* timer's schedule whatever the callbacks took.
StartWait ==
    /\ thread = "dispatch"
    /\ ~FirstDue
    /\ thread' = "wait"
    /\ UNCHANGED <<lists, objects, mapping, sem, active, current, tick, now,
                   calls, ghosts>>

WokenBySem ==
    /\ thread = "wait"
    /\ sem > 0
    /\ sem' = sem - 1
    /\ thread' = "maintain"
    /\ UNCHANGED <<lists, objects, mapping, active, current, tick, now, calls,
                   ghosts>>

WokenByTime ==
    /\ thread = "wait"
    /\ timers # <<>>
    /\ due[Head(timers)] <= now
    /\ thread' = "maintain"
    /\ UNCHANGED <<lists, objects, mapping, sem, active, current, tick, now,
                   calls, ghosts>>

Tick ==
    /\ now < MaxTime
    /\ now' = now + 1
    /\ UNCHANGED <<lists, objects, mapping, sem, active, dispatcher, calls,
                   ghosts>>

-----------------------------------------------------------------------------
(* SDL_AddTimer, SDL_AddTimerNS: SDL_CreateTimer                           *)

AllocateTimer(c, b) ==
    /\ MayCall(c)
    /\ nextId <= MaxId
    /\ freelist = <<>>
    /\ b \notin allocated
    /\ allocated' = allocated \cup {b}
    /\ block' = [block EXCEPT ![c] = b]
    /\ Goto(c, "setup")
    /\ UNCHANGED <<lists, id, due, canceled, mapping, sem, active, dispatcher,
                   now, arg, ghosts>>

\* A callback adds a timer while SDL_QuitTimers waits for it: SDL_ShouldInit
\* spins until data->init is settled, which the quitting thread will not do.
SpinInInit ==
    /\ thread = "callback"
    /\ ~active
    /\ pc[TimerThread] = "out"
    /\ Goto(TimerThread, "spin")
    /\ UNCHANGED <<lists, objects, mapping, sem, active, dispatcher, now, block,
                   arg, ghosts>>

\* Under data->lock.
TakeFree(c) ==
    /\ MayCall(c)
    /\ nextId <= MaxId
    /\ freelist # <<>>
    /\ freelist' = Tail(freelist)
    /\ block' = [block EXCEPT ![c] = Head(freelist)]
    /\ Goto(c, "recycle")
    /\ UNCHANGED <<pending, sorting, timers, expired, objects, mapping, sem, active,
                   dispatcher, now, arg, ghosts>>

\* SDL_RemoveTimer(timer->timerID): drop what the map says of the old timer.
Recycle(c) ==
    LET b == block[c] IN
    /\ pc[c] = "recycle"
    /\ map' = map \ {id[b]}
    /\ entries' = entries \ (map \cap {id[b]})
    /\ canceled' = [canceled EXCEPT ![b] = @ \/ id[b] \in map]
    /\ Goto(c, "setup")
    /\ UNCHANGED <<lists, allocated, id, due, owner, nextId, sem, active,
                   dispatcher, now, block, arg, ghosts>>

Setup(c, interval) ==
    LET b == block[c] IN
    /\ pc[c] = "setup"
    /\ nextId <= MaxId
    /\ now + interval <= MaxTime
    /\ id' = [id EXCEPT ![b] = nextId]
    /\ due' = [due EXCEPT ![b] = now + interval]
    /\ canceled' = [canceled EXCEPT ![b] = FALSE]
    /\ entries' = entries \cup {nextId}
    /\ owner' = [owner EXCEPT ![nextId] = b]
    /\ arg' = [arg EXCEPT ![c] = nextId]
    /\ nextId' = nextId + 1
    /\ Goto(c, "map")
    /\ UNCHANGED <<lists, allocated, map, sem, active, dispatcher, now, block,
                   ghosts>>

\* No memory for the map entry: the timer is freed.
SetupFails(c) ==
    LET b == block[c] IN
    /\ MallocFails
    /\ pc[c] = "setup"
    /\ nextId <= MaxId
    /\ allocated' = allocated \ {b}
    /\ nextId' = nextId + 1
    /\ block' = [block EXCEPT ![c] = NoBlock]
    /\ Goto(c, "out")
    /\ UNCHANGED <<lists, id, due, canceled, map, entries, owner, sem, active,
                   dispatcher, now, arg, ghosts>>

Map(c) ==
    /\ pc[c] = "map"
    /\ map' = map \cup {arg[c]}
    /\ Goto(c, "push")
    /\ UNCHANGED <<lists, objects, entries, owner, nextId, sem, active,
                   dispatcher, now, block, arg, ghosts>>

\* Under data->lock.
Push(c) ==
    /\ pc[c] = "push"
    /\ pending' = <<block[c]>> \o pending
    /\ block' = [block EXCEPT ![c] = NoBlock]
    /\ Goto(c, "signal")
    /\ UNCHANGED <<sorting, timers, expired, freelist, objects, mapping, sem,
                   active, dispatcher, now, arg, ghosts>>

\* Slip: the timer thread is not woken.
WakeNobody(c) ==
    /\ pc[c] = "signal"
    /\ Goto(c, "return")
    /\ UNCHANGED <<lists, objects, mapping, sem, active, dispatcher, now, block,
                   arg, ghosts>>

WakeThread(c) ==
    /\ pc[c] = "signal"
    /\ sem' = sem + 1
    /\ Goto(c, "return")
    /\ UNCHANGED <<lists, objects, mapping, active, dispatcher, now, block, arg,
                   ghosts>>

\* return entry->timerID.
ReturnId(c) ==
    /\ pc[c] = "return"
    /\ known' = known \cup {arg[c]}
    /\ arg' = [arg EXCEPT ![c] = 0]
    /\ Goto(c, "out")
    /\ UNCHANGED <<lists, objects, mapping, sem, active, dispatcher, now, block,
                   called, removed, late>>

-----------------------------------------------------------------------------
(* SDL_RemoveTimer                                                         *)

\* Slip: the entry is found but not unlinked.
FindOnly(c, i) ==
    /\ MayCall(c)
    /\ i \in known \cap map
    /\ arg' = [arg EXCEPT ![c] = i]
    /\ Goto(c, "look")
    /\ UNCHANGED <<lists, objects, mapping, sem, active, dispatcher, now, block,
                   ghosts>>

\* Under timermap_lock.  An id that is not in the map changes nothing.
Unlink(c, i) ==
    /\ MayCall(c)
    /\ i \in known \cap map
    /\ map' = map \ {i}
    /\ arg' = [arg EXCEPT ![c] = i]
    /\ Goto(c, "look")
    /\ UNCHANGED <<lists, objects, entries, owner, nextId, sem, active,
                   dispatcher, now, block, ghosts>>

FreeEntry(c) ==
    /\ entries' = entries \ {arg[c]}
    /\ arg' = [arg EXCEPT ![c] = 0]
    /\ Goto(c, "out")

LookCanceled(c) ==
    /\ pc[c] = "look"
    /\ canceled[owner[arg[c]]]
    /\ FreeEntry(c)
    /\ UNCHANGED <<lists, objects, map, owner, nextId, sem, active, dispatcher,
                   now, block, ghosts>>

LookRunning(c) ==
    /\ pc[c] = "look"
    /\ ~canceled[owner[arg[c]]]
    /\ Goto(c, "cancel")
    /\ UNCHANGED <<lists, objects, mapping, sem, active, dispatcher, now, block,
                   arg, ghosts>>

Cancel(c) ==
    /\ pc[c] = "cancel"
    /\ canceled' = [canceled EXCEPT ![owner[arg[c]]] = TRUE]
    /\ removed' = removed \cup {arg[c]}
    /\ FreeEntry(c)
    /\ UNCHANGED <<lists, allocated, id, due, map, owner, nextId, sem, active,
                   dispatcher, now, block, known, called, late>>

-----------------------------------------------------------------------------
(* SDL_QuitTimers, by the last application thread to use timers            *)

Quit(c) ==
    /\ MayCall(c)
    /\ c # TimerThread
    /\ \A d \in Callers : pc[d] = "out"
    /\ active' = FALSE
    /\ Goto(c, "quit")
    /\ UNCHANGED <<lists, objects, mapping, sem, dispatcher, now, block, arg,
                   ghosts>>

QuitWakes(c) ==
    /\ pc[c] = "quit"
    /\ sem' = sem + 1
    /\ Goto(c, "join")
    /\ UNCHANGED <<lists, objects, mapping, active, dispatcher, now, block, arg,
                   ghosts>>

\* SDL_WaitThread; then both lists of timers and the map are freed.
QuitFrees(c) ==
    /\ pc[c] = "join"
    /\ thread = "exited"
    /\ allocated' = allocated \ (Range(timers) \cup Range(freelist))
    /\ timers' = <<>>
    /\ freelist' = <<>>
    /\ entries' = entries \ map
    /\ map' = {}
    /\ Goto(c, "done")
    /\ UNCHANGED <<pending, sorting, expired, id, due, canceled, owner, nextId, sem,
                   active, dispatcher, now, block, arg, ghosts>>
-----------------------------------------------------------------------------

ThreadStep ==
    \/ Maintain
    \/ Sort
    \/ StillRunning
    \/ LeaveLoop
    \/ DispatchCanceled
    \/ Dispatch
    \/ StartCallback
    \/ Expire
    \/ StartWait
    \/ WokenBySem
    \/ WokenByTime

InCall(c) ==
    \/ Recycle(c)
    \/ \E interval \in Intervals : Setup(c, interval)
    \/ Map(c)
    \/ Push(c)
    \/ WakeThread(c)
    \/ ReturnId(c)
    \/ LookCanceled(c)
    \/ LookRunning(c)
    \/ Cancel(c)
    \/ QuitWakes(c)
    \/ QuitFrees(c)

Next ==
    \/ ThreadStep
    \/ \E interval \in Intervals : Reschedule(interval)
    \/ Tick
    \/ SpinInInit
    \/ \E c \in Actors :
          \/ InCall(c)
          \/ \E b \in Blocks : AllocateTimer(c, b)
          \/ TakeFree(c)
          \/ SetupFails(c)
          \/ \E i \in Ids : Unlink(c, i)
          \/ Quit(c)

Spec == Init /\ [][Next]_vars

(* Exec runs every ready task, the clock goes on, and a callback returns.  *)
(* (A callback that keeps returning intervals runs into MaxTime and then   *)
(* returns 0.)                                                             *)
Fairness ==
    /\ WF_vars(ThreadStep)
    /\ WF_vars(Tick)
    /\ \A c \in Actors : WF_vars(InCall(c))

FairSpec == Spec /\ Fairness

-----------------------------------------------------------------------------
(* Properties                                                              *)

Held == {block[c] : c \in Actors} \cup {current}

(* A timer block is in one place: one list, the callback, or the hands of  *)
(* the thread that sets it up; and no block in use has been given back.    *)
OnePlace ==
    LET places == pending \o sorting \o timers \o expired \o freelist IN
    /\ IsInjective(places)
    /\ Range(places) \cap Held = {}
    /\ \A c, d \in Actors : c # d /\ block[c] = block[d] => block[c] = NoBlock
    /\ \A c \in Actors : block[c] = current => current = NoBlock
    /\ allocated = Range(places) \cup (Held \ {NoBlock})

(* "The timers are kept in a sorted list" (SDL_timer.c:49), which is what  *)
(* lets the loop stop at the first timer that is not due.                  *)
Sorted ==
    \A m, n \in 1..Len(timers) : m < n => due[timers[m]] <= due[timers[n]]

(* No callback runs before the interval it was asked for has elapsed.      *)
NeverEarly ==
    thread \in {"call", "callback"} => due[current] <= tick /\ tick <= now

(* Both: the timers come due in the order of the list, and not before.     *)
InDueOrder == Sorted /\ NeverEarly

(* Once SDL_RemoveTimer has returned true for a timer, the timer thread    *)
(* does not decide to run it any more, whatever became of the block since. *)
(* So its callback may be started after that, but once and no more: if the *)
(* timer thread had looked at the flag before (SDL_timer.c:162) and was on *)
(* its way to the call (:166, :168).                                       *)
RemovedStaysQuiet ==
    [][/\ thread = "dispatch" /\ thread' = "call" => id[current'] \notin removed
       /\ thread = "call" /\ thread' = "callback" => id[current] \notin late]_vars

(* A timer that was handed to the timer thread runs or is canceled: no     *)
(* wakeup is lost and no list forgets it, unless the subsystem quits.      *)
TimersRun ==
    \A i \in Ids :
       (\E b \in Range(pending) : id[b] = i) ~>
          (i \in called \/ ~active \/ \A b \in Blocks : id[b] = i => canceled[b])

(* Once the subsystem has quit, every entry and every timer is free but    *)
(* those in data->pending, which SDL_QuitTimers does not look at.          *)
OnlyPendingLeft ==
    \A c \in Callers :
       pc[c] = "done" => entries = {} /\ allocated = Range(pending)

(* SDL_QuitTimers ends, unless a callback adds a timer just then, and when *)
(* it ends it has freed the rest.                                          *)
QuitFreesTheRest ==
    \A c \in Callers :
       pc[c] = "quit" ~>
          \/ pc[c] = "done" /\ OnlyPendingLeft
          \/ pc[TimerThread] = "spin"

(* SDL_AddTimer and SDL_RemoveTimer are safe to call from any thread       *)
(* (SDL_timer.h:361, :439), callbacks included, and SDL_QuitTimers ends    *)
(* whatever the callbacks do.                                              *)
QuitEnds == \A c \in Callers : pc[c] = "quit" ~> pc[c] = "done"

(* SDL_RemoveTimer(id) cancels the timer with that id and no other.        *)
CancelsItsOwn ==
    \A c \in Actors :
       pc[c] \in {"look", "cancel"} => id[owner[arg[c]]] = arg[c]
=============================================================================

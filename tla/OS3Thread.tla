----------------------------- MODULE OS3Thread -----------------------------
(***************************************************************************)
(* The life of an SDL_Thread on AmigaOS 3: SDL3/src/thread/SDL_thread.c    *)
(* and SDL3/src/thread/amigaos3/SDL_systhread.c.                           *)
(*                                                                         *)
(* Two blocks of memory belong to a thread: the SDL_Thread and the port's  *)
(* OS3_ThreadData.  Who frees which is settled between the thread's own    *)
(* exit path and the task that joins or detaches it, by a compare-and-swap *)
(* on thread->state and by flags written under Forbid().                   *)
(*                                                                         *)
(* A Forbid()/Permit() section is one action.  Each thread is joined or    *)
(* detached at most once, as SDL_thread.h demands.                         *)
(***************************************************************************)
EXTENDS Naturals, FiniteSets

CONSTANTS
    Tasks,          \* application tasks that create, join and detach threads
    Threads,        \* threads created in a run
    NoTask,         \* "nobody joins"
    NoThread,       \* argument of a task outside the calls
    Starved         \* tasks whose AllocSignal may fail

ASSUME ThreadAssumption ==
    /\ NoTask \notin Tasks
    /\ NoThread \notin Threads
    /\ Starved \subseteq Tasks

VARIABLES
    object,         \* object[h]: the SDL_Thread block: "none", "live", "freed"
    data,           \* data[h]: the OS3_ThreadData block, likewise
    state,          \* thread->state
    handle,         \* thread->handle is set
    complete,       \* td->complete
    detached,       \* td->detached
    joiner,         \* td->join_task
    joinSignal,     \* td->join_signal >= 0
    run,            \* where the thread itself is
    sawDetached,    \* the local `detached' of OS3_ThreadEntry
    pc,             \* where each task is
    arg,            \* arg[k]: the thread task k is joining or detaching
    signalled,      \* signalled[k]: k's join signal bit is set
    claimed         \* threads that have been passed to join or detach (ghost)

vars == <<object, data, state, handle, complete, detached, joiner,
          joinSignal, run, sawDetached, pc, arg, signalled, claimed>>

block == <<object, data>>
registration == <<joiner, joinSignal>>
fields == <<handle, complete, detached, registration>>
child == <<run, sawDetached>>

Memory == {"none", "live", "freed"}

TypeOK ==
    /\ object \in [Threads -> Memory]
    /\ data \in [Threads -> Memory]
    /\ state \in [Threads -> {"alive", "detached", "complete"}]
    /\ handle \in [Threads -> BOOLEAN]
    /\ complete \in [Threads -> BOOLEAN]
    /\ detached \in [Threads -> BOOLEAN]
    /\ joiner \in [Threads -> Tasks \cup {NoTask}]
    /\ joinSignal = [h \in Threads |-> joiner[h] # NoTask]
    /\ run \in [Threads -> {"none", "user", "exit", "entry", "free", "gone"}]
    /\ sawDetached \in [Threads -> BOOLEAN]
    /\ pc \in [Tasks -> {"idle", "join", "alloc", "register", "sleep",
                         "unregister", "poll", "break", "finish", "invalid",
                         "sysdetach", "unhandle"}]
    /\ arg \in [Tasks -> Threads \cup {NoThread}]
    /\ signalled \in [Tasks -> BOOLEAN]
    /\ claimed \subseteq Threads

Init ==
    /\ object = [h \in Threads |-> "none"]
    /\ data = [h \in Threads |-> "none"]
    /\ state = [h \in Threads |-> "alive"]
    /\ handle = [h \in Threads |-> FALSE]
    /\ complete = [h \in Threads |-> FALSE]
    /\ detached = [h \in Threads |-> FALSE]
    /\ joiner = [h \in Threads |-> NoTask]
    /\ joinSignal = [h \in Threads |-> FALSE]
    /\ run = [h \in Threads |-> "none"]
    /\ sawDetached = [h \in Threads |-> FALSE]
    /\ pc = [k \in Tasks |-> "idle"]
    /\ arg = [k \in Tasks |-> NoThread]
    /\ signalled = [k \in Tasks |-> FALSE]
    /\ claimed = {}

Goto(k, label) == pc' = [pc EXCEPT ![k] = label]

Leave(k) ==
    /\ Goto(k, "idle")
    /\ arg' = [arg EXCEPT ![k] = NoThread]

-----------------------------------------------------------------------------
(* SDL_CreateThread: the new process cannot run before it is set up.       *)

Create(k, h) ==
    /\ pc[k] = "idle"
    /\ object[h] = "none"
    /\ object' = [object EXCEPT ![h] = "live"]
    /\ data' = [data EXCEPT ![h] = "live"]
    /\ handle' = [handle EXCEPT ![h] = TRUE]
    /\ run' = [run EXCEPT ![h] = "user"]
    /\ UNCHANGED <<state, complete, detached, registration, sawDetached, pc,
                   arg, signalled, claimed>>

\* CreateNewProcTags fails: everything is given back at once.
CreateFails(k, h) ==
    /\ pc[k] = "idle"
    /\ object[h] = "none"
    /\ object' = [object EXCEPT ![h] = "freed"]
    /\ data' = [data EXCEPT ![h] = "freed"]
    /\ run' = [run EXCEPT ![h] = "gone"]
    /\ claimed' = claimed \cup {h}
    /\ UNCHANGED <<state, fields, sawDetached, pc, arg, signalled>>

-----------------------------------------------------------------------------
(* The thread: OS3_ThreadEntry around SDL_RunThread                        *)

UserFunctionReturns(h) ==
    /\ run[h] = "user"
    /\ run' = [run EXCEPT ![h] = "exit"]
    /\ UNCHANGED <<block, state, fields, sawDetached, pc, arg, signalled,
                   claimed>>

ExitJoinable(h) ==
    /\ run[h] = "exit"
    /\ state[h] = "alive"
    /\ state' = [state EXCEPT ![h] = "complete"]
    /\ run' = [run EXCEPT ![h] = "entry"]
    /\ UNCHANGED <<block, fields, sawDetached, pc, arg, signalled, claimed>>

\* Somebody detached the thread: it frees its own SDL_Thread.
ExitDetached(h) ==
    /\ run[h] = "exit"
    /\ state[h] = "detached"
    /\ object' = [object EXCEPT ![h] = "freed"]
    /\ run' = [run EXCEPT ![h] = "entry"]
    /\ UNCHANGED <<data, state, fields, sawDetached, pc, arg, signalled,
                   claimed>>

\* Forbid(): report completion, look at td->detached, signal the joiner.
Complete(h) ==
    /\ run[h] = "entry"
    /\ complete' = [complete EXCEPT ![h] = TRUE]
    /\ sawDetached' = [sawDetached EXCEPT ![h] = detached[h]]
    /\ signalled' = IF joiner[h] # NoTask /\ joinSignal[h]
                    THEN [signalled EXCEPT ![joiner[h]] = TRUE]
                    ELSE signalled
    /\ run' = [run EXCEPT ![h] = "free"]
    /\ UNCHANGED <<block, state, handle, detached, registration, pc, arg,
                   claimed>>

\* Slip: the thread frees its data whether or not it was detached.
EndFreesAlways(h) ==
    /\ run[h] = "free"
    /\ data' = [data EXCEPT ![h] = "freed"]
    /\ run' = [run EXCEPT ![h] = "gone"]
    /\ UNCHANGED <<object, state, fields, sawDetached, pc, arg, signalled,
                   claimed>>

End(h) ==
    /\ run[h] = "free"
    /\ data' = IF sawDetached[h] THEN [data EXCEPT ![h] = "freed"] ELSE data
    /\ run' = [run EXCEPT ![h] = "gone"]
    /\ UNCHANGED <<object, state, fields, sawDetached, pc, arg, signalled,
                   claimed>>

-----------------------------------------------------------------------------
(* SDL_WaitThread, SDL_SYS_WaitThread                                      *)

Claim(k, h) ==
    /\ pc[k] = "idle"
    /\ object[h] = "live"
    /\ h \notin claimed
    /\ claimed' = claimed \cup {h}
    /\ arg' = [arg EXCEPT ![k] = h]

WaitThread(k, h) ==
    /\ Claim(k, h)
    /\ Goto(k, "join")
    /\ UNCHANGED <<block, state, fields, child, signalled>>

\* Slip: thread->state is looked at instead of td->complete.
JoinLooksAtState(k) ==
    LET h == arg[k] IN
    /\ pc[k] = "join"
    /\ Goto(k, IF state[h] = "complete" THEN "finish" ELSE "alloc")
    /\ UNCHANGED <<block, state, fields, child, arg, signalled, claimed>>

JoinLooks(k) ==
    LET h == arg[k] IN
    /\ pc[k] = "join"
    /\ Goto(k, IF ~handle[h] \/ complete[h] THEN "finish" ELSE "alloc")
    /\ UNCHANGED <<block, state, fields, child, arg, signalled, claimed>>

\* AllocSignal clears what the bit had received.
JoinAllocates(k) ==
    /\ pc[k] = "alloc"
    /\ signalled' = [signalled EXCEPT ![k] = FALSE]
    /\ Goto(k, "register")
    /\ UNCHANGED <<block, state, fields, child, arg, claimed>>

\* Slip: completion is not looked at again under Forbid().
JoinRegistersBlindly(k) ==
    LET h == arg[k] IN
    /\ pc[k] = "register"
    /\ joiner' = [joiner EXCEPT ![h] = k]
    /\ joinSignal' = [joinSignal EXCEPT ![h] = TRUE]
    /\ Goto(k, "sleep")
    /\ UNCHANGED <<block, state, handle, complete, detached, child, arg,
                   signalled, claimed>>

\* Slip: the Wait() is left out.
JoinRegistersOnly(k) ==
    LET h == arg[k] IN
    /\ pc[k] = "register"
    /\ joiner' = [joiner EXCEPT ![h] = IF complete[h] THEN @ ELSE k]
    /\ joinSignal' = [joinSignal EXCEPT ![h] = ~complete[h]]
    /\ Goto(k, "unregister")
    /\ UNCHANGED <<block, state, handle, complete, detached, child, arg,
                   signalled, claimed>>

JoinRegisters(k) ==
    LET h == arg[k] IN
    /\ pc[k] = "register"
    /\ IF complete[h]
       THEN /\ Goto(k, "unregister")
            /\ UNCHANGED registration
       ELSE /\ Goto(k, "sleep")
            /\ joiner' = [joiner EXCEPT ![h] = k]
            /\ joinSignal' = [joinSignal EXCEPT ![h] = TRUE]
    /\ UNCHANGED <<block, state, handle, complete, detached, child, arg,
                   signalled, claimed>>

\* Wait(1 << sig): whatever set the bit, the wait is over.
JoinWakes(k) ==
    /\ pc[k] = "sleep"
    /\ signalled[k]
    /\ signalled' = [signalled EXCEPT ![k] = FALSE]
    /\ Goto(k, "unregister")
    /\ UNCHANGED <<block, state, fields, child, arg, claimed>>

\* Slip: join_signal keeps its old value.
JoinUnregistersHalf(k) ==
    LET h == arg[k] IN
    /\ pc[k] = "unregister"
    /\ joiner' = [joiner EXCEPT ![h] = NoTask]
    /\ Goto(k, "finish")
    /\ UNCHANGED <<block, state, handle, complete, detached, joinSignal,
                   child, arg, signalled, claimed>>

JoinUnregisters(k) ==
    LET h == arg[k] IN
    /\ pc[k] = "unregister"
    /\ joiner' = [joiner EXCEPT ![h] = NoTask]
    /\ joinSignal' = [joinSignal EXCEPT ![h] = FALSE]
    /\ Goto(k, "finish")
    /\ UNCHANGED <<block, state, handle, complete, detached, child, arg,
                   signalled, claimed>>

\* No signal bit: look at td->complete, then sleep until a Ctrl-C.
JoinPolls(k) ==
    LET h == arg[k] IN
    /\ \/ pc[k] = "alloc" /\ k \in Starved
       \/ pc[k] = "poll"
    /\ Goto(k, IF complete[h] THEN "finish" ELSE "break")
    /\ UNCHANGED <<block, state, fields, child, arg, signalled, claimed>>

\* The user sends a Ctrl-C; nothing in SDL does.
BreakArrives(k) ==
    /\ pc[k] = "break"
    /\ Goto(k, "poll")
    /\ UNCHANGED <<block, state, fields, child, arg, signalled, claimed>>

JoinFinishes(k) ==
    LET h == arg[k] IN
    /\ pc[k] = "finish"
    /\ data' = IF handle[h] THEN [data EXCEPT ![h] = "freed"] ELSE data
    /\ handle' = [handle EXCEPT ![h] = FALSE]
    /\ object' = [object EXCEPT ![h] = "freed"]
    /\ Leave(k)
    /\ UNCHANGED <<state, complete, detached, registration, child, signalled,
                   claimed>>

-----------------------------------------------------------------------------
(* SDL_DetachThread, SDL_SYS_DetachThread                                  *)

DetachAlive(k, h) ==
    /\ Claim(k, h)
    /\ state[h] = "alive"
    /\ state' = [state EXCEPT ![h] = "detached"]
    /\ Goto(k, "invalid")
    /\ UNCHANGED <<block, fields, child, signalled>>

\* Already complete: clean up as a join does.
DetachComplete(k, h) ==
    /\ Claim(k, h)
    /\ state[h] = "complete"
    /\ Goto(k, "join")
    /\ UNCHANGED <<block, state, fields, child, signalled>>

\* td = thread->handle.  If the SDL_Thread is gone, the word read is NULL or
\* what was left there.  (A block that has become the object of another thread
\* by then, with that thread's data, is not modelled.)
DetachReadsHandle(k) ==
    LET h == arg[k] IN
    /\ pc[k] = "invalid"
    /\ \E td \in IF object[h] = "live" THEN {handle[h]} ELSE BOOLEAN :
          IF td
          THEN /\ Goto(k, "sysdetach")
               /\ UNCHANGED arg
          ELSE Leave(k)
    /\ UNCHANGED <<block, state, fields, child, signalled, claimed>>

\* Forbid(): leave the data to the thread, or take it over if the thread has
\* completed.
DetachMarks(k) ==
    LET h == arg[k] IN
    /\ pc[k] = "sysdetach"
    /\ detached' = [detached EXCEPT ![h] = @ \/ ~complete[h]]
    /\ data' = IF complete[h] THEN [data EXCEPT ![h] = "freed"] ELSE data
    /\ Goto(k, "unhandle")
    /\ UNCHANGED <<object, state, handle, complete, registration, child, arg,
                   signalled, claimed>>

\* thread->handle = NULL.
DetachClearsHandle(k) ==
    LET h == arg[k] IN
    /\ pc[k] = "unhandle"
    /\ handle' = [handle EXCEPT ![h] = FALSE]
    /\ Leave(k)
    /\ UNCHANGED <<block, state, complete, detached, registration, child,
                   signalled, claimed>>

-----------------------------------------------------------------------------
ChildStep(h) ==
    \/ ExitJoinable(h)
    \/ ExitDetached(h)
    \/ Complete(h)
    \/ End(h)

JoinStep(k) ==
    \/ JoinLooks(k)
    \/ JoinAllocates(k)
    \/ JoinRegisters(k)
    \/ JoinWakes(k)
    \/ JoinUnregisters(k)
    \/ JoinPolls(k)
    \/ JoinFinishes(k)

DetachStep(k) ==
    \/ DetachReadsHandle(k)
    \/ DetachMarks(k)
    \/ DetachClearsHandle(k)

Next ==
    \/ \E h \in Threads : UserFunctionReturns(h) \/ ChildStep(h)
    \/ \E k \in Tasks :
          \/ \E h \in Threads :
                \/ Create(k, h)
                \/ CreateFails(k, h)
                \/ WaitThread(k, h)
                \/ DetachAlive(k, h)
                \/ DetachComplete(k, h)
          \/ JoinStep(k)
          \/ DetachStep(k)
          \/ BreakArrives(k)

Spec == Init /\ [][Next]_vars

\* Exec schedules every ready task.  Nothing obliges a thread function to
\* return, the application to call anything, or the user to press Ctrl-C.
FairSpec ==
    /\ Spec
    /\ \A h \in Threads : WF_vars(ChildStep(h))
    /\ \A k \in Tasks : WF_vars(JoinStep(k)) /\ WF_vars(DetachStep(k))

-----------------------------------------------------------------------------
Joining == {"join", "alloc", "register", "sleep", "unregister", "poll",
            "break", "finish"}

(* The thread and its joiner only touch memory that is theirs: RunThread   *)
(* writes thread->status and compares thread->state, OS3_ThreadEntry       *)
(* writes td after the thread function, SDL_WaitThread reads both blocks.  *)
(* The detacher reads td under Forbid() after the thread may have ended.   *)
MemoryStaysUntilUsed ==
    /\ \A h \in Threads :
          /\ run[h] \in {"user", "exit"} => object[h] = "live"
          /\ run[h] \in {"user", "exit", "entry"} => data[h] = "live"
    /\ \A k \in Tasks :
          /\ pc[k] \in Joining => object[arg[k]] = "live"
          /\ pc[k] \in Joining \cup {"sysdetach"} => data[arg[k]] = "live"

(* Neither block is freed twice, whoever gets to the end first: wherever   *)
(* the code is about to call SDL_free, the block is still allocated.       *)
FreedOnce ==
    /\ \A h \in Threads :
          /\ run[h] = "exit" /\ state[h] = "detached" => object[h] = "live"
          /\ run[h] = "free" /\ sawDetached[h] => data[h] = "live"
    /\ \A k \in Tasks :
          /\ pc[k] = "sysdetach" /\ complete[arg[k]] => data[arg[k]] = "live"
          /\ pc[k] = "finish" => object[arg[k]] = "live" /\ data[arg[k]] = "live"

(* SDL_thread.h: "Wait for a thread to finish."  SDL_WaitThread returns,   *)
(* with thread->status, only when the thread function has returned and the *)
(* thread will touch neither block again.                                  *)
JoinWaitsForEnd ==
    \A k \in Tasks :
       pc[k] = "finish" => run[arg[k]] \in {"free", "gone"} /\ ~sawDetached[arg[k]]

(* The exiting thread signals only a task that is inside Wait() for it: a  *)
(* signal sent later would hit a bit that task uses for something else.    *)
SignalsASleeper ==
    \A h \in Threads :
       run[h] = "entry" /\ joiner[h] # NoTask /\ joinSignal[h] =>
          pc[joiner[h]] = "sleep" /\ arg[joiner[h]] = h

(* Each thread is disposed of along one path: a detached thread is never   *)
(* waited for and a joined one never frees itself.                         *)
OneDisposer ==
    \A h \in Threads :
       (detached[h] \/ state[h] = "detached") =>
          /\ \A k \in Tasks : ~(pc[k] \in Joining /\ arg[k] = h)
          /\ joiner[h] = NoTask

(* The two blocks of a thread are used while they are there, freed once,   *)
(* and by one side: the three above.                                       *)
BlocksAreSafe == MemoryStaysUntilUsed /\ FreedOnce /\ OneDisposer

(* SDL_thread.c:503 "The thread may vanish at any time, it's no longer     *)
(* valid": the detaching task leaves the SDL_Thread alone from there on.   *)
DetachTouchesLive ==
    \A k \in Tasks : pc[k] \in {"invalid", "unhandle"} => object[arg[k]] = "live"

(* A join completes once the thread function has returned, and gives both  *)
(* blocks back: the wakeup from OS3_ThreadEntry is not lost between the    *)
(* test of td->complete and Wait().  A task without a free signal bit is   *)
(* excepted: SDL_SYS_WaitThread lets it sleep until a Ctrl-C.              *)
JoinReturns ==
    \A k \in Tasks \ Starved, h \in Threads :
       (pc[k] \in Joining /\ arg[k] = h /\ run[h] # "user") ~>
          (object[h] = "freed" /\ data[h] = "freed")
=============================================================================

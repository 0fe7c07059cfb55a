# Verification of the AmigaOS 3 port of SDL3

This directory holds TLA+ models of the concurrent core of the AmigaOS 3.x
(68k) port of SDL3, the TLC configurations that check them on small instances,
and proofs, checked by TLAPS, of the properties that matter most.

The port is `SDL3/` of this repository, built by `SDL3/Makefile.amigaos3`.
AmigaOS has no pthreads: threads are Exec tasks, sleeping and waking is done
with signal bits, a task has few of them, and a waiter's record lives on its own
stack. Everything SDL promises about threads is built on that in a few hundred
lines. A mistake there shows only under a rare order of two tasks, which is
what a model checker finds and a test does not.

`tlc -config X.cfg M` checks a run, `tlapm M.tla` a module of proofs.

## 1. Inventory

Paths are relative to `SDL3/src`.

### Modelled

| Component | State it keeps | Operations | Used by |
|---|---|---|---|
| Counting semaphore, `thread/amigaos3/SDL_syssem.c` | count, FIFO of waiter records on the waiters' stacks, a lock | wait (poll, timed, for ever), post | condition, timers, asynchronous I/O, audio |
| Mutex, `thread/amigaos3/SDL_sysmutex.c` | an Exec `SignalSemaphore` (owner, nesting) | lock, trylock, unlock | everything |
| Condition, `thread/generic/SDL_syscond.c` | two counters, three semaphores | signal, broadcast, wait, timed wait | reader/writer lock, asynchronous I/O |
| Reader/writer lock, `thread/generic/SDL_sysrwlock.c` | mutex, condition, two counters | lock and trylock for reading and writing, unlock | hash tables, properties |
| Thread life cycle, `thread/SDL_thread.c`, `thread/amigaos3/SDL_systhread.c` | `SDL_Thread` (state, handle), `OS3_ThreadData` (complete, detached, joiner and its signal) | create, run and exit, join, detach | timers, audio, dialogs, asynchronous I/O |
| Asynchronous I/O, `io/SDL_asyncio.c`, `io/generic/SDL_asyncio_generic.c` | per file its tasks and the close that waits for them; per queue a list of results and a count; the pool's list, its counters, its workers | open, read, write, close, get and wait for results, create, signal and destroy queues, quit | applications |
| Audio core (one playback device), `audio/SDL_audio.c` | a reference count, `zombie`, `shutdown`, the logical devices, the back end's functions, an audio thread | open, close, disconnect, quit | applications, the audio thread, callbacks on the main thread |
| AHI back end, `audio/amigaos3/SDL_os3audio.c` | two requests, `in_flight`, `current`, `device_open`, `thread_open_failed` | open, close, thread init and deinit, wait, play | audio core |
| Timers, `timer/SDL_timer.c` | lists `pending`, `timers`, `freelist`, the timer map, a semaphore, a thread | add, remove, dispatch, quit | applications, from any thread and from callbacks |

What makes them hard, and what correctness means for each:

* **Semaphore.** A post unlinks the first waiter under the lock and reads its
  record to signal it *after* releasing the lock; a timeout may end the wait in
  between. Correct: a unit is handed over exactly once, no thread sleeps beside
  a free unit, no record of a finished call stays linked, `true` is answered for
  exactly one unit and `false` for none, and a call that can end does.
* **Condition.** Signaller and waiter meet in a handshake that a waiter which
  has timed out takes part in as well. Correct: there are as many answers as
  signallers wait for, so every one of them returns, a broadcast wakes everybody
  who waits, `true` means signalled.
* **Reader/writer lock.** A writer keeps a recursive mutex for as long as it
  writes and gives it up only to wait for readers. Correct: readers share, a
  writer excludes, the assertion in the reading path never fires, the last
  reader wakes the writers.
* **Thread.** Three parties (the thread, its joiner, its detacher) decide who
  frees two blocks by one compare-and-swap and two `Forbid()` sections. Correct:
  each block is freed once, after its last use; a join returns when and only
  when the thread has ended; an exiting thread signals only a task that sleeps
  for it.
* **Timers.** A timer block passes through five places and four owners while a
  map leads to it from an id. Correct: a block is in one place, the list is
  sorted, no callback runs early, a removed timer is not picked any more, every
  timer runs or is canceled, quitting ends and frees everything.

* **Asynchronous I/O.** A task passes from the caller to the pool, to a worker,
  to a queue and to whoever settles it, and the close of a file must come last
  of all its tasks though they may run and be settled on several threads and
  queues. Correct: a task is in one place and run once, the queue's count is
  what is still to be settled for it, nothing touches a file after its close or
  a queue after its destruction, a task on the list always finds a worker, and
  destroying a queue or quitting the pool ends.
* **Audio device.** Opening, closing, the loss of the device and quitting meet
  in one structure whose lock is dropped while the audio thread is joined. The
  loss is found by the audio thread and handled later on the main thread.
  Correct: references balance, what was opened with the audio thread keeps it
  until it is closed, a close ends, and a loss is reported once to whoever had
  asked for that device before.
* **AHI back end.** Two buffers are filled and played in turn, each request
  linked to the other. AHI is opened by the audio thread, after the open call
  has returned. Correct: a buffer is filled only when AHI is through with it, a
  request is waited for only if it was sent, nothing is left with AHI when the
  device is closed.

### Not modelled

| Component | Why, and what is hard in it |
|---|---|
| Thread-local storage (`thread/amigaos3/SDL_systls.c`) | next: unguarded first initialisation, entries keyed by a task address that Exec may reuse, a counter that grows more often than it shrinks |
| `SDL_InitState` (`thread/SDL_thread.c:556`) | next: threads that initialise and quit at once |
| Audio streams, mixing, recording (rest of `audio/`) | streams and their lock order are a candidate; sample conversion is numeric code |
| Event queue (`events/SDL_events.c`) | next: push, peep, flush, the poll sentinel, main-thread callbacks (those of the audio core are part of `AudioDevice`) |
| File dialog (`dialog/amigaos3`) | next: concurrent dialogs share the global `AslBase` |
| Calendar time (`time/amigaos3/SDL_systime.c`) | a pure module: conversion of ticks before 1970 |
| Subsystem counts (`SDL.c`) | next: implied subsystems and partial failure |
| Clock and delay (`timer/amigaos3`) | reads hardware; its lazy initialisation belongs to `InitState` |
| Joystick (`joystick/amigaos3`) | small, one thread; a rescan renumbers devices |
| Video, windows, input (`video/amigaos3`) | mostly calls to Intuition and CyberGraphX; the window life cycle is a candidate |
| Filesystem, locale (`filesystem/amigaos3`, `locale/amigaos3`) | no state of their own |
| Hash table, properties, hints (`SDL_hashtable.c`, ...) | sequential data structures under locks modelled here; probing is a candidate for a pure module |
| Stubbed subsystems (process, loadso, tray, camera, sensor) | every operation answers "unsupported" |
| Rendering, GPU, haptics | pixel arithmetic, or disabled on this platform |
| Standard library and math | vendored or sequential |
| SDL_gfx, SDL_sound, SDL_image, SDL_mixer, SDL_net | upstream releases carried beside the port |
| Back ends of other platforms | not compiled by `Makefile.amigaos3` |

`PROJECT.json` lists for each component its files, and under `hazards` every
place of the modelled components where the code could go wrong in a way a test
would hardly reach, with the properties that watch it. Of the components that
have no module yet these were found while reading:

* `thread/amigaos3/SDL_systls.c:26`: two threads that meet `tls_initialized`
  first may both initialise the list; `:37`: entries are keyed by a task address
  that Exec may hand out again.
* `thread/SDL_thread.c:116`: `SDL_tls_allocated` grows with every reallocation
  of a storage and shrinks once per thread.
* `thread/amigaos3/SDL_sysmutex.c:40`: `SDL_TryLockMutex(NULL)` answers false,
  `SDL_mutex.h` says true.
* `dialog/amigaos3/SDL_amigaos3dialog.c:79`: every dialog thread sets and clears
  the global `AslBase`.
* `time/amigaos3/SDL_systime.c`: ticks before 1970 are truncated towards zero.
* `timer/amigaos3/SDL_systimer.c`: the E-clock is initialised lazily, unguarded.
* `joystick/amigaos3/SDL_sysjoystick.c`: a rescan renumbers devices between
  counting and opening them.
* `video/amigaos3`: messages of a window that is being closed, and the order of
  the window's life cycle with the event pump.

### How the components interact

    application, callbacks, main thread
       |         |                |               |
    SDLTimers    |             AsyncIO       AudioDevice
       |  \      |            /      \         |       |
       |   OS3Thread --------/        \        |    OS3Audio --- ahi.device
       |                               \       |
       |     GenericRWLock ------- GenericCond |
       |          |                   |        |
    OS3Semaphore  |       OS3Semaphore         |
       |        mutex              mutex     mutex
    Exec signal bits, SignalSemaphores, timer.device

Modules are composed by contract. `OS3Semaphore` is shown to implement
`CountingSemaphore`; `GenericCond` takes `handshake_sem` as that
module specifies it, and `cond->sem` as `OS3Semaphore` serves it, the oldest
sleeper first, as the theorem about `QueueIsSound` allows; `GenericRWLock`,
`AsyncIO` and `AudioDevice` use a condition whose broadcast behaves as
`GenericCond!BroadcastWakesAll` says and whose waits may end for no reason
(`NoStaleUnit` says when); `SDLTimers` treats `data->sem`, its spin locks and
`SDL_WaitThread` by their contracts, and so does `AudioDevice` with the join of
the audio thread. `AudioDevice` and `OS3Audio` are composed as code: the first
extends the second and calls its operators. Composing all of the code instead
would multiply the state spaces and check nothing more, as long as the contract
holds. For finite semaphore waits it is shown only for the first of a thread,
and `sem_late` refutes it for those that follow: a late signal ends a later wait
without a unit. `GenericCond` (timed waits on a condition, also those of the idle
workers of `AsyncIO`) and `SDLTimers` (the timer thread's wait) make such waits
again and again and take each to be right. What they show holds as far as that
goes. `AudioDevice` and `SDLTimers` also take a joining thread to have a signal bit
left: `OS3Thread` has the other case (`Starved`).

## 2. Modules

| Module | Contents |
|---|---|
| `CountingSemaphore` | abstract: what `SDL_mutex.h` promises of a semaphore |
| `OS3Semaphore` | the code of `SDL_syssem.c` over signal bits and `timer.device` |
| `OS3SemaphoreProofs` | theorems about it |
| `OS3SemaphoreRefinement` | proof that it implements `CountingSemaphore` |
| `GenericCond` | `SDL_syscond.c` over counting semaphores |
| `GenericCondProofs` | theorems about it |
| `ReadWriteLock` | abstract: readers share, a writer excludes |
| `GenericRWLock` | `SDL_sysrwlock.c` over an Exec mutex and a condition |
| `GenericRWLockProofs` | theorems about it, refinement included |
| `OS3Thread` | create, run, exit, join, detach of threads |
| `OS3ThreadProofs` | theorems about it |
| `SDLTimers` | the timer subsystem |
| `SDLTimersProofs` | theorems about it |
| `AsyncIO` | files, queues, tasks and the worker pool of asynchronous I/O |
| `AsyncIOProofs` | theorems about it |
| `OS3Audio` | the AHI back end: operators called by the audio core, and AHI itself |
| `AudioDevice` | the playback device of the audio core over `OS3Audio` |
| `AudioDeviceProofs` | theorems about it |

Conventions:

* **Atomicity.** A section of code under one lock, or under `Forbid()`, whose
  data is touched nowhere else is one action. Everything between sections is a
  step of its own. In particular a read after an unlock is a separate action
  (`NotifyWaiter`, `ReturnId`, `DetachClearsHandle`).
* **Program counters.** `pc[t]` says where a thread is. Its values name the
  next thing the code does.
* **Stack records.** The record of a semaphore waiter is identified with its
  thread: `bit[t]` is the `signal_bit` field at that address and keeps its last
  content after the call has returned, as stack memory does.
* **Exec signals.** `allocated` and `received` are `tc_SigAlloc` and
  `tc_SigRecvd`: `AllocSignal` clears a bit it hands out, `Signal` sets one
  whether or not it is allocated, `Wait` consumes.
* **Freed memory.** Blocks are `none`, `live` or `freed`. Reading a freed block
  (`DetachReadsHandle`) yields what was left there or NULL. That the block may
  have become the object of another thread by then, and the read yield that
  thread's data, is not modelled.
* **Ghosts.** Variables marked *(ghost)* record history for a property and
  guard no action of the code, except where a contract of `SDL_mutex.h` or
  `SDL_thread.h` limits what callers do (`claimed`: a thread is joined or
  detached once; `held`, `writes`: no unlock without a lock).
* **Slips.** Operators commented as slips are plausible mistakes. No
  behaviour takes one; each shows that a property notices it.

### Semaphore

`count`, `queue`, `bit` are the fields of `SDL_Semaphore` and of the waiter
records. A wait goes `try` (the first locked section), `alloc`
(`AllocSignal`), `enqueue` (recheck and link), then `wait` (`Wait()`) or
`setup`, `twait`, `expired` for `OS3_TimerWait` and what follows it. `failed`
is the path on which the timer could not be opened. A post is one locked
section, `PostToWaiter` or `PostToCount`, and `NotifyWaiter` outside the lock.
The semaphore's value in the sense of `SDL_mutex.h` is `count` plus the units
handed to threads that have not returned: that is the refinement mapping to
`CountingSemaphore`. There a call the system has refused something (`refused`:
no signal bit, no timer) may fail whatever its timeout, and only such a call may
take a unit with it; the last bit being taken, or the timer
failing to open, maps to its `Refuse`.

### Condition

`signal_sem` protects the counters and its sections never block, so it is not
represented. `need[s]` is what is left of the loop in which a signaller waits
for handshakes. `queue` is the FIFO of the semaphore `cond->sem`: a post hands
its unit to the first sleeper, and only without one it stays on `sem`. `called`
is a ghost, the waiters a broadcast was meant for. `Lock` and `Unlock` are the
application's use of the mutex; `unlocked`, chosen at the start, says whether
this application also signals without holding it.

### Reader/writer lock

`lock`, `depth` are the Exec mutex; `reader_count`, `writer_count` the fields.
`WriteWaits` is `SDL_WaitCondition` giving the mutex up, `WakeWriters` the
broadcast. A try that fails changes nothing and needs no action, except that a
writer's try that finds readers has taken the mutex and must give it back
(`TryWriteFails`).

### Threads

`object` and `data` are the two blocks. `run[h]` follows the thread itself
through `SDL_RunThread` and `OS3_ThreadEntry`, `pc[k]` a task through
`SDL_WaitThread` and `SDL_DetachThread`. `Starved` tasks may find no free signal
bit: then the join looks once and sleeps until a Ctrl-C.

### Timers

`pending`, `sorting`, `timers`, `expired`, `freelist` are the lists a block
travels along: `sorting` is what the timer thread took from `pending` and puts
into `timers` one by one (`Sort`), with no lock. `map`, `entries`, `owner` are the
timer map. `pc[c]` follows an actor through
`SDL_CreateTimer`, `SDL_RemoveTimer` or `SDL_QuitTimers`, `thread` the timer
thread: in `call` it has looked at `canceled` (line 162) and goes to the callback
(lines 166, 168) with no lock held, so `SDL_RemoveTimer` may complete in between
and return true, and the callback starts all the same. `removed` and `late` are
ghosts: ids whose removal has returned true, and those of them whose callback was
started after that. `RemovedStaysQuiet` says what the code does keep: the thread
picks no timer that was removed before, and starts a removed one once at most.
The timer thread is an actor too while a callback runs. The wait
between two rounds ends when the first timer is due, which is what the
arithmetic at line 196 computes. `SDL_InitTimers` and the clock conversions are
left out.

### Asynchronous I/O

`task`, `of`, `closing` and `inflight` are the books under `asyncio->lock` and
the queue's atomic count; `pending` is `threadpool_tasks`, `done[q]` the list of
results of a queue. Both lists are stacks: the code prepends and takes the first.
`pc[a]` follows a thread of the application: `queue` is between
`RequestAsyncIO` and the pool's lock, `asleep` in `SDL_WaitAsyncIOResult`, `took`
and `drop` the two halves of `GetAsyncIOTaskOutcome`, `destroy` the loop of
`SDL_DestroyAsyncIOQueue`. `cancel` is `SDL_QuitAsyncIO` emptying the pool's list
task by task, all of it under the pool's lock, which nobody else gets meanwhile
(`Locked`); `quit` and `quitting` are the wait for the workers that follows.
`wpc[w]` follows a worker: `round` and `woken` on the way to the pool's lock,
`expired` the same after 30 idle seconds, `took` before the I/O, `ran` after it.
A worker refused by Exec is the branch of `Spin` that changes nothing.
`MayUse` and the guard of `Destroy` are the rules of `SDL_asyncio.h` for callers;
after `SDL_QuitAsyncIO` no request is made. With `ForeignClose` a queue may be
destroyed while the deferred close of a file is to be added to it, which the
header does not forbid.

### Audio

`OS3Audio` has no control state of its own: its operators are the functions the
core calls (`OpenDevice`, `CloseDevice`, `OpenAHI`, `ThreadDeinit`, `Collect`,
`Send`) and `PlaysOut` is AHI, which plays a request, keeps one linked to it until
the first has ended, and replies. `io` is what AHI has done, `in_flight` what the
code believes. `AudioDevice` follows each caller through `SDL_OpenAudioDevice`
and `SDL_CloseAudioDevice`: `open`, `asleep` and `woken` are the wait for the lock
and for `close_cond` in `SerializePhysicalDeviceClose`, `join` the part of
`ClosePhysicalAudioDevice` without the lock, `finish` the rest. `goal` says what
the close is for: a logical device, an open that failed, `SDL_QuitAudio`.
`thread` follows the audio thread through its loop. `callbacks` counts the
reports of a loss that the main thread has not run yet.

The port has one playback device, which is the default device and lives until
`SDL_QuitAudio`; its reference as the default is never given up. Each caller
opens at most one logical device and closes it itself. One that cannot be put into
the hash of ids (line 1944) is not found by the `SDL_CloseAudioDevice` that should
take it back: `orphans` counts these, whose references `RefsBalance` includes and
which keep the physical device open until `SDL_QuitAudio`.

`served` and `late` are ghosts of the opens. Those in `served` found the audio
thread, and `OpenIsServed` says that they keep it until they are closed, though
the device be lost (its thread then throws the buffers away). A device that was
lost and then closed has no thread, and an open only pretends to open it
(line 1817): such a logical device is open and not served, which the property
confines to devices already lost. `kind` is whether the device was asked for by
its own id (`explicit`) or as the default: a REMOVED event goes to the former
only. An explicit open tests `zombie` before it waits for a close to finish
(line 1914), not after. If the loss is announced during the wait, the open succeeds
on the zombie though "explicit opens" are to be refused, and its event was sent
before. `late` holds exactly the devices opened when the events were out, and
`LossIsTold` makes no promise to them; an open that slept but was through before
the announcement is covered. TLC reaches a late one in 14 steps: it is listed under
`hazards`, as a flaw no run claims to be absent. That the
allocation in `SDL_RunOnMainThread` fails is left out (the report would be lost
with its reference).

## 3. Runs

Sizes are distinct states. The longest runs, `asyncio` and `audio`, take about
three minutes, most others less than one.

| Run | Checks | Instance | States |
|---|---|---|---|
| `sem` | `QueueIsSound`, `NoLostWakeup`, `CountsUnits`, `WaitsReturn`, `NoStarvation` | 2 waiters, 2 posters, one of them also a waiter, 2 bits that may all be taken, count up to 2, one finite wait per thread, a timer that may fail to open | 66 008 |
| `sem_late` | **violated**: `CountsUnits` with two finite waits per thread | 2 waiters, 2 posters, 2 bits | |
| `cond` | `HandshakesBalance`, `UnitsCoverSignals`, `NoStaleUnit`, `SignallerReturns`, `BroadcastWakesAll` | 3 waiters, 2 signallers, one of them also a waiter, with and without the mutex | 63 342 |
| `rwlock` | `MutexMeansWriter`, `NoForgottenWriter`, `SharesOrExcludes`, `CallsDrain` | 3 threads, reads nested twice | 3 287 |
| `thread_life` | `BlocksAreSafe`, `JoinWaitsForEnd`, `SignalsASleeper`, `JoinReturns` | 2 tasks (one starved), 2 threads | 8 567 |
| `thread_detach` | **violated**: `DetachTouchesLive` | 1 task, 1 thread | |
| `timers` | `OnePlace`, `InDueOrder`, `RemovedStaysQuiet`, `TimersRun`, `QuitFreesTheRest` | 1 caller and callbacks, 2 blocks, 2 ids, intervals 0 and 1, allocation may fail | 165 188 |
| `timers_foreign` | **violated**: `CancelsItsOwn` | 2 callers, 2 blocks | |
| `timers_quit` | **violated**: `QuitEnds` | 1 caller and callbacks | |
| `asyncio` | `TasksAreCounted`, `CloseIsLast`, `QueuesOutliveTasks`, `SomebodyWorks`, `CallsReturn` | 2 threads, 2 workers, 2 tasks, 1 file, 2 queues | 268 502 |
| `asyncio_destroy` | **violated**: `QueuesOutliveTasks` with `ForeignClose` | the same | |
| `audio` | `RefsBalance`, `OpenIsServed`, `BuffersAlternate`, `CallsReturn`, `LossIsTold` | 3 callers, one of them the main thread, 1 waiting callback, 1 failed insertion | 332 002 |

Each module has one type invariant, `TypeOK`, checked in its passing run. The
comment above each property in its module says what it means and which code it
is about.

**What the violations show.**

* `sem_late`: a post that has unlinked a waiter may send its signal after the
  waiter has returned by its timeout. The bit then belongs to the thread's next
  wait, which answers `true` without a unit. The comment at
  `SDL_syssem.c:256` settles who owns the unit, not what becomes of the signal.
* `thread_detach`: `SDL_DetachThread` reads and clears `thread->handle` after it
  has marked the thread detached, where the thread may already have freed it;
  the code's own comment says "The thread may vanish at any time, it's no longer
  valid".
* `timers_foreign`: `SDL_RemoveTimer` uses the block its map entry names after
  releasing the map lock. The block may have expired, been taken from the free
  list and given another timer's id: that timer is canceled.
* `timers_quit`: `SDL_QuitTimers` waits for the timer thread; a callback that
  adds a timer at that moment waits in `SDL_ShouldInit` for the quit to finish.
  Neither does.
* `asyncio_destroy`: `SDL_CloseAsyncIO` on a file with tasks of another queue
  leaves the close task in `asyncio->closing`, and the count of its own queue does
  not know of it. `SDL_DestroyAsyncIOQueue` frees that queue; settling the last
  task then counts the close on freed memory (`SDL_asyncio.c:235`).

**Bounds and why they are enough.** *Semaphore*: with two waiters, one of which
also posts, and another poster, hand-overs overlap and the queue has an order;
`MaxCount` 2 leaves a unit on the count while another is taken, and `HeldBits`
lets the system take every bit. `MaxTimed` limits *finite* waits per thread, after
which it only polls: one in `sem`, so that no late signal can meet
another sleep, and two in `sem_late`, which shows exactly that. `sem` therefore
says that a single finite wait is right, not that a sequence of them is.
*Condition*: three waiters are the fewest for which the order of the queue matters
beside one inside its handshake; every timeout is finite, and need not strike, so
it stands for an infinite one as well. *Reader/writer lock*: reads nest twice
because once would hide a counter that is reset instead of decremented.
*Timers*: two are enough for every order in a sorted list and for reusing a block
while another is live; the clock has two instants so that "due" and "not yet due"
both occur. *Asynchronous I/O*: two tasks are the fewest for a close that must
wait for a request, two queues for the two to differ, and two workers for a
pool that grows and shrinks; blocks, files and queues are used again and again,
so histories are unbounded. *Audio*: three callers are the fewest for one that
closes, one that sleeps until it has, and a third, the main thread, that handles
the loss or quits; `MaxCallbacks` 1 lets the second report of a loss occur only
once the first was handled, `MaxOrphans` 1 lets one insertion fail, which is enough to
keep the physical device open until `SDL_QuitAudio`, and the proofs are for any
number of each. Where a
bound cuts off behaviour the proofs cover the rest: they hold for any
number of threads, and for any number of timers, files, queues and tasks.

**Deadlock.** Checked in all runs but `thread_*`, `timers*`, `asyncio*` and
`audio`. There the application may have disposed of every thread, used up its ids
and clock, fallen asleep on queues nobody has work for, or quit, and stop. That
nobody waits for ever in a call the code must end is what `JoinReturns`,
`TimersRun`, `QuitFreesTheRest` and `CallsReturn` check.

**Fairness.** Exec schedules every ready task in turn, so a call that has begun
goes on as long as it can: weak fairness per thread on the steps inside the
code. Nothing obliges a thread to *begin* a call, a thread function to return,
a timeout to strike in `GenericCond`, or a user to press Ctrl-C, and none of
these is fair. The devices answer: weak fairness on `TimerFires` and on
`AHIStep`. What is more than weak:

* `GenericCond`, strong fairness on `Collect`: several signallers may compete for
  the units of `handshake_sem`, whose queue is served in order (`NoStarvation`).
* `GenericRWLock`, strong fairness where an Exec `SignalSemaphore`, which grants
  in order, is obtained. It also assumes that whoever holds a lock releases it in
  the end (`StartUnlock`): that is a contract on the application, without which no
  lock could promise anything.
* `AudioDevice`, strong fairness on `CallbackStep`: the main thread runs waiting
  callbacks whenever it pumps events, and an application pumps events again and
  again between its other calls.

Premises of properties, as opposed to the specification: `CallsDrain` and both
`CallsReturn` say what follows once nobody asks any more (an application that
goes on asking may leave the first task of the asynchronous I/O stack there for
ever), and `NoStarvation` that posts keep coming.

## 4. Proofs

| Module | Theorems | For |
|---|---|---|
| `OS3SemaphoreProofs` | `TypeCorrect` | all constants |
| | `QueueTrusted`, `WakeupsKept` | any threads (finitely many waiters), bits and counts, `Untimed` |
| `OS3SemaphoreRefinement` | `CountsExactly` | the same |
| `GenericCondProofs` | `TypeCorrect`, `SignallersAnswered`, `SignalsKept`, `UnitsMatch` | any finite sets of waiters and signallers, with and without timeouts and the mutex |
| `GenericRWLockProofs` | `TypeCorrect`, `MutexIsTheWriters`, `WritersRemembered`, `Refinement` | any finite set of threads, any nesting |
| `OS3ThreadProofs` | `TypeCorrect`, `BlocksSafe`, `JoinIsSafe`, `SleeperSignalled` | any tasks, any threads |
| `SDLTimersProofs` | `TypeCorrect`, `PlacesUnique`, `DueOrder`, `RemovedQuiet`, `OnlyPendingIsLeft` | any callers, blocks and intervals, any bounds on ids and clock |
| `AsyncIOProofs` | `PoolWorks` | all constants |
| | `TypeCorrect`, `Counting`, `CloseComesLast`, `QueuesAreThere` | any finite sets of threads, workers, tasks and queues, any files, `~ForeignClose` |
| `AudioDeviceProofs` | `TypeCorrect`, `OpenServed`, `BuffersSafe`, `ReferencesBalance` | any finite set of callers, any number of waiting callbacks |

The assumptions are those named beside the constants (`SemaphoreAssumption`,
`TimersAssumption`, `AsyncIOAssumption`, ...), which TLC evaluates in the runs.

*Semaphore.* `Untimed` restricts timeouts to "zero" and "forever". It is
needed: with finite timeouts the hand-over invariants are false, as `sem_late`
shows. `HandOver` is the inductive invariant. Beside the types it consists of
`PlainCalls` (no call is on a timer path, and a bit just allocated is clear),
`QueueInv` (queued records are distinct and belong to sleeping threads nobody
has signalled, and none is queued while a unit is free), `NotifyInv` (posters
between the lock and `Signal()` point at sleeping threads outside the queue, no
two at one) and `WakeInv` (a sleeping thread is queued, targeted or signalled).
`NoLostWakeup` alone is not inductive, because nothing in it stops two posters
from having unlinked the same waiter or a bit from being set before its owner
sleeps. `CountsExactly` is the refinement. It adds that a call's argument stays
until the call returns (`CallInv`), and then follows the number of units handed
over: it grows by one in `PostToWaiter`, shrinks by one in `WakeForever` and no
other step changes it. A call that finds no signal bit is refused, abstractly
too.

*Condition.* The proof counts. `Counted`, `Owed` and `Woken` are the sets of
threads behind `num_waiting`, the handshakes still to come and the units taken.
`Inv` adds to the checked invariants that the queue holds sleeping threads, each
once (without which a post could hand two units to one thread), that nobody has
a result before a unit was taken, and that exactly the signallers at work are
owed something. Each step then moves elements between the sets and changes the
counters by as many; a post is the only one that moves a number of elements,
`Handed(n)` of them (`ServedCount`). `UnitsMatch` is an action property and
falls out of the same lemma (`BooksStep`).

*Reader/writer lock.* `Inv` is `TypeOK`, `Owner`, `Roles`, `Writer`, `Readers`
and `NoForgottenWriter`. It ties the counters to the ghosts: `reader_count` is
the number of read locks granted (the cardinality of a set of pairs, so that
counting needs no recursion), `writer_count` is 1 exactly when a writer holds
the mutex, and `depth` follows from who is where. `Refinement` shows
`Spec => ReadWriteLock!Spec` with `reads <- held` and the writer read off
`writes`.

*Threads.* `Inv` says for each thread which of the three parties still uses each
block: it fixes `object` and `data` from `state`, `complete`, `detached`, `run`
and the task, if any, that claimed the thread. That a claim is exclusive
(`SDL_thread.h`: joined or detached once) is what makes it inductive.

*Timers.* `Inv` is the types and six parts. `Lists`: no list has a block twice
and no two share one. `Hands`: a block outside the lists is in the hand of one
actor or is `current`, and these are all that were ever allocated. Together they
give `PlacesUnique`, but a step is judged by the hand a block comes from, so
neither part holds without the other, nor without `Phases`, which says which
lists are empty in which phase of the timer thread and that one caller at most
quits, and frees the lists after the thread has left. `Order` is `InDueOrder` and that the clock
never runs behind the thread's own `tick`; the step that matters is the
insertion of `Sort`, and the proof follows the code's loop: the block goes
before the first that is due later, and a list spread by one position stays in
order on both sides of it. `Entries` and `Names` are about ids: an entry leaves
the map for the hands of exactly one actor, ids in use lie below `nextId`, and a
block whose id was removed is canceled. The last is what the first half of
`RemovedQuiet`, an action property, needs (`PickedIsNotRemoved`), although a block
may change its id between the two halves of `SDL_RemoveTimer`: the caller cancels
the block its entry names, and a block that still has the removed id is that one.
The second half, at most one late start, is an invariant of its own
(`NotLateYet`): an id in `late` is removed, the thread picks no removed timer, and
the block it is about to call keeps its id.
`OnlyPendingIsLeft` is the safety half of `QuitFreesTheRest`.

*Asynchronous I/O.* The pool is proved apart from the tasks. `Pool` counts
the workers and those asleep, and says that nobody sleeps while there is work
and that the pool has a worker until it is told to stop; it is
inductive by itself, and the last worker's decision to stay, made under the lock
on `running` and the list, is its critical step. `SomebodyWorks` follows for every
application, well-behaved or not. `TaskInv` is about the tasks: each is in one
list or one hand (`Lists`, `Holders`) and nowhere else (`Placing`); a file's set
holds the tasks that are somewhere and not settled, and a close joins it only
alone (`Books`); a stream is closed when its close has run and nothing
else is left of it (`Shut`); a call names the queue it is about, which is there
(`Owners`); and `inflight[q]` is the number of tasks for `q` but for closes that
wait (`Counts`). `QueuesAreThere` comes from the last two: at the moment the
queue is freed its count is 0, so no task names it, and a waiting close cannot
either, because `~ForeignClose` lets nobody destroy the queue of such a close.
Without that premise `QueuesOutliveTasks` is false, as `asyncio_destroy` shows, and
then so is `TypeOK`: a count that was freed goes below 0.

*Audio device.* `Inv` says that `shutdown` stands for one caller that closes the
device and for the stage it is at (`ClosingInv`); that the audio thread lives
exactly as long as the device is open, and serves all of it that was opened before
a loss (`ThreadInv`); that the back end is asked
only while it can answer (`AskingInv`); that `in_flight` agrees with AHI
(`RequestsInv`); and that a report of a loss is made only by a thread that has
had the device (`CallbackInv`). `ClosingInv` is the one that is easy to miss:
the lock is dropped during the join, and without it a second caller could open
the device that the first is about to finish closing. `ReferencesBalance` adds
the count of the references that logical devices, calls under way and callbacks
stand for.

Only model-checked: all liveness properties (fairness and `ENABLED` are outside
the prover), that quitting the timers ends among them, and the semaphore with
finite timeouts. Every invariant and every action property of a passing run is
stated by a theorem. Nothing in the modules is recursive, so no proof needs induction over data.

## 5. Plan

Done: semaphore, condition, reader/writer lock, threads, timers, the AHI back
end with the core above it, asynchronous I/O, and proofs for all of them. Left, in this order:

1. `OS3TLS` and `InitState`: ids, entries keyed by tasks that end and are
   reused, the unguarded first initialisation, concurrent init and quit.
2. `EventQueue` and `Subsystems`: sequential contracts with partial failure.
3. Audio streams: binding to devices, and the order of their locks.
4. `OS3Dialog`, `CivilTime`: small modules, the second one pure.
5. Compose `sem_late` with `OS3Thread`: what a stray signal does to a join.

------------------------------ MODULE AsyncIO ------------------------------
(***************************************************************************)
(* Asynchronous I/O: SDL3/src/io/SDL_asyncio.c over the thread pool of     *)
(* SDL3/src/io/generic/SDL_asyncio_generic.c, the only back end the        *)
(* AmigaOS 3 port has.                                                     *)
(*                                                                         *)
(* A request makes a task, links it to its file and puts it on the pool's  *)
(* list; a worker takes it, does the I/O and links it to its queue, where  *)
(* some thread fetches it and settles its books: the close of a file that  *)
(* had waited for this task is put on the list, the queue counts one task  *)
(* less.  The list of the pool and those of the queues are stacks: the     *)
(* code prepends and takes the first.                                      *)
(*                                                                         *)
(* A section under threadpool_lock, asyncio->lock or a queue's lock is one *)
(* action.  SDL_CloseAsyncIO and the settling of a result put a close task *)
(* on the list while they hold asyncio->lock, which no worker ever takes:  *)
(* these nested sections are one action as well.  What a condition variable*)
(* does for its sleepers is what module GenericCond shows: a broadcast     *)
(* wakes them all, a signal one of them, and a timeout or a unit left over *)
(* by one may wake them at any time.                                       *)
(***************************************************************************)
EXTENDS Naturals, Sequences, FiniteSets

CONSTANTS
    Apps,           \* threads of the application
    Workers,        \* as many as max_threadpool_threads
    Tasks,          \* bound: the SDL_AsyncIOTask blocks in use at a time
    Files,          \* SDL_AsyncIO objects
    Queues,         \* SDL_AsyncIOQueue objects
    Nothing,        \* no task, no queue
    ForeignClose    \* may a queue be destroyed while the close of a file
                    \* waits to be added to it behind another queue's tasks?

ASSUME AsyncIOAssumption ==
    /\ IsFiniteSet(Apps) /\ IsFiniteSet(Queues)
    /\ IsFiniteSet(Workers) /\ Workers # {}
    /\ IsFiniteSet(Tasks)
    /\ Nothing \notin Tasks \cup Queues \cup [file : Files, queue : Queues]
    /\ ForeignClose \in BOOLEAN

VARIABLES
    pc,             \* where each thread of the application is
    hand,           \* hand[a]: the task it is about to queue or to settle
    target,         \* target[a]: the queue it has called about
    task,           \* task[t]: its file and its queue, or Nothing
    of,             \* of[f]: asyncio->tasks, as a set
    closing,        \* closing[f]: asyncio->closing
    files,          \* the files not yet destroyed
    shut,           \* files whose SDL_IOStream has been closed
    inflight,       \* inflight[q]: queue->tasks_inflight
    done,           \* done[q]: data->completed_tasks
    queues,         \* the queues not yet freed
    doomed,         \* those somebody has begun to destroy
    pending,        \* threadpool_tasks
    pool,           \* threadpool_init, stop_threadpool and the counters
    wpc,            \* where each worker is
    work            \* work[w]: the task it has taken

app == <<pc, hand, target>>
books == <<task, of, closing, files, shut, inflight>>
lists == <<done, queues, doomed>>
workers == <<wpc, work>>
vars == <<app, books, lists, pending, pool, workers>>

Call == {"idle", "queue", "asleep", "woken", "took", "drop", "destroy",
         "cancel", "quit", "quitting"}

TypeOK ==
    /\ pc \in [Apps -> Call]
    /\ hand \in [Apps -> Tasks \cup {Nothing}]
    /\ target \in [Apps -> Queues \cup {Nothing}]
    /\ task \in [Tasks -> {Nothing} \cup [file : Files, queue : Queues]]
    /\ of \in [Files -> SUBSET Tasks]
    /\ closing \in [Files -> Tasks \cup {Nothing}]
    /\ files \subseteq Files
    /\ shut \subseteq Files
    /\ inflight \in [Queues -> 0..Cardinality(Tasks)]
    /\ done \in [Queues -> Seq(Tasks)]
    /\ doomed \subseteq queues /\ queues \subseteq Queues
    /\ pending \in Seq(Tasks)
    /\ pool \in [up : BOOLEAN, stop : BOOLEAN,
                 running : 0..Cardinality(Workers),
                 idle : 0..Cardinality(Workers)]
    /\ wpc \in [Workers -> {"none", "round", "asleep", "woken", "expired",
                            "took", "ran"}]
    /\ work \in [Workers -> Tasks \cup {Nothing}]

Init ==
    /\ pc = [a \in Apps |-> "idle"]
    /\ hand = [a \in Apps |-> Nothing]
    /\ target = [a \in Apps |-> Nothing]
    /\ task = [t \in Tasks |-> Nothing]
    /\ of = [f \in Files |-> {}]
    /\ closing = [f \in Files |-> Nothing]
    /\ files = {}
    /\ shut = {}
    /\ inflight = [q \in Queues |-> 0]
    /\ done = [q \in Queues |-> <<>>]
    /\ queues = {}
    /\ doomed = {}
    /\ pending = <<>>
    /\ pool = [up |-> FALSE, stop |-> FALSE, running |-> 0, idle |-> 0]
    /\ wpc = [w \in Workers |-> "none"]
    /\ work = [w \in Workers |-> Nothing]

-----------------------------------------------------------------------------
(* The lists                                                               *)

At(a, label) == [pc EXCEPT ![a] = label]

NewTask(f, q) == [file |-> f, queue |-> q]

Sleepers(q) == {a \in Apps : pc[a] = "asleep" /\ target[a] = q}

\* AsyncIOTaskComplete: task t is prepended to the list of its queue and wakes
\* one thread that waits for it.  at is what pc becomes but for that.
Deliver(t, at) ==
    LET q == task'[t].queue
    IN  /\ done' = [done EXCEPT ![q] = <<t>> \o @]
        /\ \/ Sleepers(q) = {} /\ pc' = at
           \/ \E a \in Sleepers(q) : pc' = [at EXCEPT ![a] = "woken"]

-----------------------------------------------------------------------------
(* The pool                                                                *)

\* A broadcast of threadpool_condition, as the workers see it.
Roused == [w \in Workers |-> IF wpc[w] = "asleep" THEN "woken" ELSE wpc[w]]

\* MaybeSpinNewWorkerThread, then the broadcast.  A thread may be refused.
Spin ==
    \/ /\ pool.idle > 0 \/ ~pool.up \/ pool.running = Cardinality(Workers)
       /\ wpc' = Roused
       /\ UNCHANGED pool
    \/ /\ pool.idle = 0 /\ pool.up
       /\ \/ wpc' = Roused /\ UNCHANGED pool
          \/ /\ \E w \in Workers :
                   /\ wpc[w] = "none"
                   /\ wpc' = [Roused EXCEPT ![w] = "round"]
             /\ pool' = [pool EXCEPT !.running = @ + 1]

\* Somebody cancels the tasks on the list and holds threadpool_lock meanwhile.
Locked == \E a \in Apps : pc[a] = "cancel"

\* QueueAsyncIOTask.  Without a pool its lock and its condition are NULL, no
\* thread may be spun, and the task stays on the list.
Submit(t, at) ==
    /\ ~Locked
    /\ \/ /\ pool.stop
          /\ Deliver(t, at)
          /\ UNCHANGED <<pending, pool, wpc>>
       \/ /\ ~pool.stop
          /\ pending' = <<t>> \o pending
          /\ Spin
          /\ pc' = at
          /\ UNCHANGED done

\* PrepareThreadpool: the first queue or file starts the pool, with one
\* worker, unless it is being shut down: SDL_ShouldInit waits for that.  A
\* failure leaves nothing behind.
Prepare ==
    \/ pool.up /\ ~pool.stop /\ ~Locked /\ UNCHANGED <<pool, wpc>>
    \/ /\ ~pool.up
       /\ \E w \in Workers :
             /\ wpc[w] = "none"
             /\ wpc' = [wpc EXCEPT ![w] = "round"]
       /\ pool' = [pool EXCEPT !.up = TRUE, !.running = 1]

\* SDL_QuitAsyncIO: under threadpool_lock, cancel what no worker has taken and
\* tell the workers to stop; then wait for the last of them.
Quit(a) ==
    /\ pc[a] = "idle"
    /\ pool.up /\ ~pool.stop /\ ~Locked
    /\ pc' = At(a, "cancel")
    /\ UNCHANGED <<hand, target, books, lists, pending, pool, workers>>

CancelTask(a) ==
    /\ pc[a] = "cancel"
    /\ pending # <<>>
    /\ UNCHANGED books
    /\ Deliver(Head(pending), pc)
    /\ pending' = Tail(pending)
    /\ UNCHANGED <<hand, target, queues, doomed, pool, workers>>

StopPool(a) ==
    /\ pc[a] = "cancel"
    /\ pending = <<>>
    /\ pool' = [pool EXCEPT !.stop = TRUE]
    /\ wpc' = Roused
    /\ pc' = At(a, "quit")
    /\ UNCHANGED <<hand, target, books, lists, pending, work>>

QuitLooks(a) ==
    /\ pc[a] = "quitting"
    /\ \/ /\ pool.running > 0
          /\ pc' = At(a, "quit")
          /\ UNCHANGED pool
       \/ /\ pool.running = 0
          /\ pc' = At(a, "idle")
          /\ pool' = [up |-> FALSE, stop |-> FALSE, running |-> 0, idle |-> 0]
    /\ UNCHANGED <<hand, target, books, lists, pending, workers>>

\* Slip: a worker that leaves tells nobody.
QuitUnheard == pc

\* The broadcast of a worker that leaves, as the thread sees it that shuts
\* the pool down.
QuitWoken ==
    [a \in Apps |-> IF pc[a] = "quit" THEN "quitting" ELSE pc[a]]

\* Slip: every worker whose 30 seconds are over leaves.
NeverNeeded(w, idle) == wpc[w] = "expired"

\* Whether worker w has waited long enough and the others are idle as well.
TooMany(w, idle) == wpc[w] = "expired" /\ idle > 0

\* AsyncIOThreadpoolWorker under threadpool_lock, from where it has got the
\* lock to where it drops it: leave, take a task, or sleep.
Round(w) ==
    LET idle == IF wpc[w] = "round" THEN pool.idle ELSE pool.idle - 1
        toomany == TooMany(w, idle)
        Go(label) == wpc' = [wpc EXCEPT ![w] = label]
    IN  /\ ~Locked
        /\ wpc[w] \in {"round", "woken", "expired"}
        /\ \/ /\ pool.stop \/ toomany
              /\ pool' = [pool EXCEPT !.idle = idle, !.running = @ - 1]
              /\ wpc' = [IF pool.stop THEN Roused ELSE wpc EXCEPT ![w] = "none"]
              /\ pc' = IF pool.stop THEN QuitWoken ELSE pc
              /\ UNCHANGED <<pending, work>>
           \/ /\ ~pool.stop /\ ~toomany /\ pending # <<>>
              /\ work' = [work EXCEPT ![w] = Head(pending)]
              /\ pending' = Tail(pending)
              /\ pool' = [pool EXCEPT !.idle = idle]
              /\ Go("took")
              /\ UNCHANGED pc
           \/ /\ ~pool.stop /\ ~toomany /\ pending = <<>>
              /\ pool' = [pool EXCEPT !.idle = idle + 1]
              /\ Go("asleep")
              /\ UNCHANGED <<pc, pending, work>>
        /\ UNCHANGED <<hand, target, books, lists>>

\* The 30 seconds are over, or the condition had a unit left over.
Stir(w) ==
    /\ wpc[w] = "asleep"
    /\ \E label \in {"woken", "expired"} : wpc' = [wpc EXCEPT ![w] = label]
    /\ UNCHANGED <<app, books, lists, pending, pool, work>>

\* SynchronousIO: one piece of I/O on a file at a time.
RunTask(w) ==
    /\ wpc[w] = "took"
    /\ shut' = shut \cup {f \in Files : closing[f] = work[w]}
    /\ wpc' = [wpc EXCEPT ![w] = "ran"]
    /\ UNCHANGED <<app, task, of, closing, files, inflight, lists, pending, pool,
                   work>>

CompleteTask(w) ==
    /\ wpc[w] = "ran"
    /\ UNCHANGED books
    /\ Deliver(work[w], pc)
    /\ work' = [work EXCEPT ![w] = Nothing]
    /\ wpc' = [wpc EXCEPT ![w] = "round"]
    /\ UNCHANGED <<hand, target, queues, doomed, pending, pool>>

-----------------------------------------------------------------------------
(* The calls of the application                                            *)

CreateQueue(a, q) ==
    /\ pc[a] = "idle"
    /\ q \notin queues
    /\ Prepare
    /\ queues' = queues \cup {q}
    /\ inflight' = [inflight EXCEPT ![q] = 0]
    /\ done' = [done EXCEPT ![q] = <<>>]
    /\ UNCHANGED <<app, task, of, closing, files, shut, doomed, pending, work>>

OpenFile(a, f) ==
    /\ pc[a] = "idle"
    /\ f \notin files
    /\ Prepare
    /\ files' = files \cup {f}
    /\ UNCHANGED <<app, task, of, closing, shut, inflight, lists, pending, work>>

\* What the headers ask of a caller: a file until its close was requested, a
\* queue until its destruction began, and no request once the library has
\* been quit.
MayUse(f, q) ==
    /\ f \in files /\ closing[f] = Nothing
    /\ q \in queues \ doomed
    /\ pool.up

\* Slip: the queue does not count the request.
RequestUncounted(a, f, q) ==
    /\ pc[a] = "idle"
    /\ MayUse(f, q)
    /\ \E t \in Tasks :
          /\ task[t] = Nothing
          /\ task' = [task EXCEPT ![t] = NewTask(f, q)]
          /\ of' = [of EXCEPT ![f] = @ \cup {t}]
          /\ hand' = [hand EXCEPT ![a] = t]
    /\ target' = [target EXCEPT ![a] = q]
    /\ pc' = At(a, "queue")
    /\ UNCHANGED <<closing, files, shut, inflight, lists, pending, pool, workers>>

\* RequestAsyncIO up to the call of the back end.
Request(a, f, q) ==
    /\ pc[a] = "idle"
    /\ MayUse(f, q)
    /\ \E t \in Tasks :
          /\ task[t] = Nothing
          /\ task' = [task EXCEPT ![t] = NewTask(f, q)]
          /\ of' = [of EXCEPT ![f] = @ \cup {t}]
          /\ hand' = [hand EXCEPT ![a] = t]
    /\ inflight' = [inflight EXCEPT ![q] = @ + 1]
    /\ target' = [target EXCEPT ![a] = q]
    /\ pc' = At(a, "queue")
    /\ UNCHANGED <<closing, files, shut, lists, pending, pool, workers>>

QueueRequest(a) ==
    /\ pc[a] = "queue"
    /\ UNCHANGED books
    /\ Submit(hand[a], At(a, "idle"))
    /\ hand' = [hand EXCEPT ![a] = Nothing]
    /\ target' = [target EXCEPT ![a] = Nothing]
    /\ UNCHANGED <<queues, doomed, work>>

\* Slip: the queue does not count the close.
StartCloseUncounted(t, f, rest, at) ==
    /\ of' = [of EXCEPT ![f] = rest \cup {t}]
    /\ Submit(t, at)
    /\ UNCHANGED inflight

\* The close t of file f, which has no tasks but rest, goes to the pool.
StartClose(t, f, rest, at) ==
    /\ of' = [of EXCEPT ![f] = rest \cup {t}]
    /\ inflight' = [inflight EXCEPT ![task'[t].queue] = @ + 1]
    /\ Submit(t, at)

\* SDL_CloseAsyncIO: at once, or after the tasks the file has.
Close(a, f, q) ==
    /\ pc[a] = "idle"
    /\ MayUse(f, q)
    /\ \E t \in Tasks :
          /\ task[t] = Nothing
          /\ task' = [task EXCEPT ![t] = NewTask(f, q)]
          /\ closing' = [closing EXCEPT ![f] = t]
          /\ \/ of[f] = {} /\ StartClose(t, f, {}, pc)
             \/ /\ of[f] # {}
                /\ UNCHANGED <<pc, of, inflight, done, pending, pool, wpc>>
    /\ UNCHANGED <<hand, target, files, shut, queues, doomed, work>>

\* Take the first result of q, if there is one.
Fetch(a, q) ==
    /\ done[q] # <<>>
    /\ hand' = [hand EXCEPT ![a] = Head(done[q])]
    /\ done' = [done EXCEPT ![q] = Tail(@)]
    /\ target' = [target EXCEPT ![a] = q]
    /\ pc' = At(a, "took")

\* SDL_GetAsyncIOResult, SDL_WaitAsyncIOResult.
GetResult(a, q) ==
    /\ pc[a] = "idle"
    /\ q \in queues \ doomed
    /\ Fetch(a, q)
    /\ UNCHANGED <<books, queues, doomed, pending, pool, workers>>

FallAsleep(a, q) ==
    /\ done[q] = <<>>
    /\ target' = [target EXCEPT ![a] = q]
    /\ pc' = At(a, "asleep")
    /\ UNCHANGED <<hand, done>>

WaitResult(a, q) ==
    /\ pc[a] = "idle"
    /\ q \in queues \ doomed
    /\ FallAsleep(a, q)
    /\ UNCHANGED <<books, queues, doomed, pending, pool, workers>>

\* A call about a queue is over: the application's, or one round of
\* SDL_DestroyAsyncIOQueue.
Return(a) ==
    /\ pc' = At(a, IF target[a] \in doomed THEN "destroy" ELSE "idle")
    /\ target' = IF target[a] \in doomed THEN target
                 ELSE [target EXCEPT ![a] = Nothing]

\* The list is looked at once more, and whatever it holds is the answer.
Wake(a) ==
    /\ pc[a] = "woken"
    /\ \/ Fetch(a, target[a])
       \/ /\ done[target[a]] = <<>>
          /\ Return(a)
          /\ UNCHANGED <<hand, done>>
    /\ UNCHANGED <<books, queues, doomed, pending, pool, workers>>

\* The timeout is over, or the condition had a unit left over.
Rouse(a) ==
    /\ pc[a] = "asleep"
    /\ pc' = At(a, "woken")
    /\ UNCHANGED <<hand, target, books, lists, pending, pool, workers>>

\* SDL_SignalAsyncIOQueue
SignalQueue(a, q) ==
    /\ pc[a] = "idle"
    /\ q \in queues \ doomed
    /\ Sleepers(q) # {}
    /\ pc' = [b \in Apps |-> IF b \in Sleepers(q) THEN "woken" ELSE pc[b]]
    /\ UNCHANGED <<hand, target, books, lists, pending, pool, workers>>

\* Slip: a close that waits is queued with the first result.
NoOthers(t) == {}

\* The tasks its file has beside t.
Others(t) == of[task[t].file] \ {t}

\* GetAsyncIOTaskOutcome under asyncio->lock, and the end of a closed file.
Settle(a) ==
    LET t == hand[a]
        f == task[t].file
        rest == Others(t)
        Keep == UNCHANGED <<inflight, done, pending, pool, wpc>>
    IN  /\ pc[a] = "took"
        /\ UNCHANGED <<task, hand, target, queues, doomed, work>>
        /\ \/ /\ closing[f] \notin {Nothing, t} /\ rest = {}
              /\ StartClose(closing[f], f, rest, At(a, "drop"))
              /\ UNCHANGED <<closing, files, shut>>
           \/ /\ closing[f] = Nothing \/ (closing[f] # t /\ rest # {})
              /\ of' = [of EXCEPT ![f] = rest]
              /\ pc' = At(a, "drop")
              /\ UNCHANGED <<closing, files, shut>>
              /\ Keep
           \/ /\ closing[f] = t
              /\ of' = [of EXCEPT ![f] = rest]
              /\ closing' = [closing EXCEPT ![f] = Nothing]
              /\ files' = files \ {f}
              /\ shut' = shut \ {f}
              /\ pc' = At(a, "drop")
              /\ Keep

\* Its last lines: the queue counts one task less and the task is freed.
Drop(a) ==
    /\ pc[a] = "drop"
    /\ inflight' = [inflight EXCEPT ![target[a]] = @ - 1]
    /\ task' = [task EXCEPT ![hand[a]] = Nothing]
    /\ hand' = [hand EXCEPT ![a] = Nothing]
    /\ Return(a)
    /\ UNCHANGED <<of, closing, files, shut, lists, pending, pool, workers>>

\* The close of a file that waits for tasks of another queue than its own.
ClosesLate(f, q) ==
    /\ closing[f] # Nothing
    /\ task[closing[f]].queue = q
    /\ \E t \in of[f] : task[t].queue # q

\* SDL_DestroyAsyncIOQueue, which the header asks to call only when no other
\* thread is in a call about the queue.
Destroy(a, q) ==
    /\ pc[a] = "idle"
    /\ q \in queues \ doomed
    /\ \A b \in Apps : target[b] # q
    /\ ForeignClose \/ \A f \in Files : ~ClosesLate(f, q)
    /\ doomed' = doomed \cup {q}
    /\ target' = [target EXCEPT ![a] = q]
    /\ pc' = At(a, "destroy")
    /\ UNCHANGED <<hand, books, done, queues, pending, pool, workers>>

\* Slip: what is not on the queue's list is not waited for.
NothingListed(q) == done[q] = <<>>

\* SDL_GetAtomicInt(&queue->tasks_inflight) is 0.
NothingInflight(q) == inflight[q] = 0

DestroyLooks(a) ==
    /\ pc[a] = "destroy"
    /\ \/ /\ ~NothingInflight(target[a])
          /\ Fetch(a, target[a]) \/ FallAsleep(a, target[a])
          /\ UNCHANGED <<queues, doomed>>
       \/ /\ NothingInflight(target[a])
          /\ queues' = queues \ {target[a]}
          /\ doomed' = doomed \ {target[a]}
          /\ target' = [target EXCEPT ![a] = Nothing]
          /\ pc' = At(a, "idle")
          /\ UNCHANGED <<hand, done>>
    /\ UNCHANGED <<books, pending, pool, workers>>

-----------------------------------------------------------------------------

AppStep(a) ==
    \/ QueueRequest(a)
    \/ Wake(a)
    \/ Settle(a)
    \/ Drop(a)
    \/ DestroyLooks(a)
    \/ CancelTask(a)
    \/ StopPool(a)
    \/ QuitLooks(a)

WorkerStep(w) == Round(w) \/ RunTask(w) \/ CompleteTask(w)

Asks(a) == \E f \in Files, q \in Queues : Request(a, f, q) \/ Close(a, f, q)

Next ==
    \/ \E a \in Apps :
          \/ AppStep(a)
          \/ Asks(a)
          \/ Rouse(a)
          \/ Quit(a)
          \/ \E f \in Files : OpenFile(a, f)
          \/ \E q \in Queues :
                \/ CreateQueue(a, q)
                \/ GetResult(a, q)
                \/ WaitResult(a, q)
                \/ SignalQueue(a, q)
                \/ Destroy(a, q)
    \/ \E w \in Workers : WorkerStep(w) \/ Stir(w)

Spec == Init /\ [][Next]_vars

(* Exec runs every ready task, so a call that can go on and a worker that  *)
(* is awake do.  Nobody is obliged to make a call, and no timeout to       *)
(* strike.                                                                 *)
Fairness ==
    /\ \A a \in Apps : WF_vars(AppStep(a))
    /\ \A w \in Workers : WF_vars(WorkerStep(w))

FairSpec == Spec /\ Fairness

-----------------------------------------------------------------------------
(* Properties                                                              *)

Live == {t \in Tasks : task[t] # Nothing}

\* The close tasks that wait for other tasks of their file.
Deferred ==
    {t \in Live : closing[task[t].file] = t /\ t \notin of[task[t].file]}

\* How often a task is on a list or in somebody's hands.
Places(t) ==
    Cardinality({i \in DOMAIN pending : pending[i] = t})
    + Cardinality(UNION {{q} \X {i \in DOMAIN done[q] : done[q][i] = t}
                            : q \in Queues})
    + Cardinality({a \in Apps : hand[a] = t})
    + Cardinality({w \in Workers : work[w] = t})

\* A task is in exactly one place, so it is run at most once and answered
\* once; only a close that waits for its file's other tasks is in none.
OnePlace ==
    \A t \in Tasks : Places(t) = IF t \in Live \ Deferred THEN 1 ELSE 0

\* The count SDL_DestroyAsyncIOQueue goes by is the number of tasks somebody
\* still has to settle for that queue.
InflightCounts ==
    \A q \in queues :
       inflight[q] = Cardinality({t \in Live \ Deferred : task[t].queue = q})

\* Both: no task is lost, run twice or left out of its queue's books.
TasksAreCounted == OnePlace /\ InflightCounts

\* SDL_CloseAsyncIO: "the close will happen after any other pending tasks".
\* No task of a file runs once its stream is closed, and the file is there
\* as long as a task needs it.
CloseIsLast ==
    /\ \A f \in shut : of[f] \subseteq {closing[f]}
    /\ \A t \in Live : task[t].file \in files \/ t \in {hand[a] : a \in Apps}
    /\ \A w \in Workers : wpc[w] = "took" => task[work[w]].file \notin shut

\* A task, a sleeping thread or a close that waits never refers to a queue
\* that has been freed.
QueuesOutliveTasks ==
    /\ \A t \in Live : task[t].queue \in queues
    /\ \A a \in Apps : target[a] \in queues \cup {Nothing}

\* While there is work some worker is awake, and the pool never shrinks to
\* nothing: what was put on the list is taken even if no thread could be spun.
SomebodyWorks ==
    /\ pool.running = Cardinality({w \in Workers : wpc[w] # "none"})
    /\ pool.idle =
          Cardinality({w \in Workers : wpc[w] \in {"asleep", "woken", "expired"}})
    /\ pool.up /\ ~pool.stop => pool.running > 0
    /\ pool.up /\ pending # <<>> =>
          \E w \in Workers : wpc[w] \notin {"none", "asleep"}

\* If the application stops asking, the destruction of a queue and the
\* shutdown of the pool come to their end: every task on the list is taken,
\* and every thread that waits for one is woken.  (The list is a stack: an
\* application that goes on asking may leave its first task there for ever.)
CallsReturn ==
    <>[][\A a \in Apps : ~Asks(a)]_vars =>
       /\ \A q \in Queues : q \in doomed ~> q \notin doomed \/ ~pool.up
       /\ pool.stop ~> ~pool.stop
=============================================================================

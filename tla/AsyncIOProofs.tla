--------------------------- MODULE AsyncIOProofs ---------------------------
(***************************************************************************)
(* What asynchronous I/O promises for any number of threads, workers,      *)
(* tasks, files and queues, proved from its inductive invariant.           *)
(*                                                                         *)
(* The pool has an invariant of its own (Pool), which knows nothing of     *)
(* tasks.  The rest holds as long as no queue is destroyed under a close   *)
(* that waits for it (~ForeignClose): a task is in one place (Lists,       *)
(* Holders, Placing); the books of its file say what is still to come      *)
(* (Books, Shut); its queue is there (Owners) and counts it (Counts).      *)
(***************************************************************************)
EXTENDS AsyncIO, SequenceTheorems, FiniteSetTheorems, TLAPS

\* No list has a task twice, and the results are on the lists of their queues.
Lists ==
    /\ IsInjective(pending)
    /\ \A q \in Queues :
          /\ IsInjective(done[q])
          /\ Range(pending) \cap Range(done[q]) = {}
          /\ \A t \in Range(done[q]) : task[t].queue = q

Listed(t) == t \in Range(pending) \/ \E q \in Queues : t \in Range(done[q])

\* A task in somebody's hands is on no list and in no other hands.
Holders ==
    /\ \A a \in Apps : hand[a] # Nothing <=> pc[a] \in {"queue", "took", "drop"}
    /\ \A w \in Workers : work[w] # Nothing <=> wpc[w] \in {"took", "ran"}
    /\ \A a, b \in Apps : a # b /\ hand[a] = hand[b] => hand[a] = Nothing
    /\ \A w, v \in Workers : w # v /\ work[w] = work[v] => work[w] = Nothing
    /\ \A a \in Apps, w \in Workers : hand[a] = work[w] => hand[a] = Nothing
    /\ \A a \in Apps : ~Listed(hand[a])
    /\ \A w \in Workers : ~Listed(work[w])

Held(t) == (\E a \in Apps : hand[a] = t) \/ (\E w \in Workers : work[w] = t)

Placed(t) == Listed(t) \/ Held(t)

\* Every task in use is somewhere, but for a close that waits.
Placing == \A t \in Tasks : Placed(t) <=> t \in Live \ Deferred

\* The result has been unlinked from its file.
Settled(t) == \E a \in Apps : hand[a] = t /\ pc[a] = "drop"

\* A file has the tasks that are somewhere and not settled; a close joins them
\* when it is the only one, and waits only for others.
Books ==
    /\ \A t \in Live, f \in Files :
          t \in of[f] <=> task[t].file = f /\ Placed(t) /\ ~Settled(t)
    /\ \A f \in Files : of[f] \subseteq Live
    /\ \A f \in Files : of[f] # {} => f \in files
    /\ \A f \in Files : closing[f] # Nothing =>
          /\ closing[f] \in Live /\ task[closing[f]].file = f
          /\ of[f] # {}
          /\ closing[f] \in of[f] => of[f] = {closing[f]}
    /\ \A a \in Apps, f \in Files : pc[a] \in {"queue", "drop"} /\ closing[f] # Nothing
          => hand[a] # closing[f]

\* A stream is closed when its close has been run.
Shut ==
    \A f \in shut :
       /\ closing[f] # Nothing /\ of[f] = {closing[f]}
       /\ closing[f] \notin Range(pending)
       /\ \A w \in Workers : work[w] = closing[f] => wpc[w] = "ran"

\* A call about a queue names it, and a queue that is being destroyed is
\* named by one call and waited for by no close but its own tasks'.
Owners ==
    /\ \A t \in Live : task[t].queue \in queues
    /\ \A a \in Apps : target[a] \in queues \cup {Nothing}
    /\ \A a \in Apps :
          target[a] = Nothing <=> pc[a] \in {"idle", "cancel", "quit", "quitting"}
    /\ \A a \in Apps : hand[a] # Nothing => task[hand[a]].queue = target[a]
    /\ \A a \in Apps : pc[a] = "destroy" => target[a] \in doomed
    /\ \A a, b \in Apps : a # b /\ target[a] = target[b] => target[a] \notin doomed
    /\ \A q \in doomed, f \in Files : ~ClosesLate(f, q)

Counted(q) == {t \in Live \ Deferred : task[t].queue = q}

Counts ==
    /\ inflight \in [Queues -> Nat]
    /\ \A q \in Queues : inflight[q] = Cardinality(Counted(q))

\* No worker sleeps while there is work, and the last one stays.
InPool == {w \in Workers : wpc[w] # "none"}
Idlers == {w \in Workers : wpc[w] \in {"asleep", "woken", "expired"}}

Pool ==
    /\ pool \in [up : BOOLEAN, stop : BOOLEAN, running : Nat, idle : Nat]
    /\ pc \in [Apps -> Call]
    /\ wpc \in [Workers -> {"none", "round", "asleep", "woken", "expired",
                            "took", "ran"}]
    /\ pool.running = Cardinality(InPool)
    /\ pool.idle = Cardinality(Idlers)
    /\ pool.up /\ ~pool.stop => InPool # {}
    /\ pool.up /\ pending # <<>> => \A w \in Workers : wpc[w] # "asleep"
    /\ pool.stop => pool.up /\ pending = <<>> /\ ~Locked
    /\ Locked => pool.up
    /\ ~pool.up => InPool = {}
    /\ \A a \in Apps : pc[a] \in {"quit", "quitting"} => pool.stop
    /\ \A a, b \in Apps : pc[a] = "cancel" /\ pc[b] = "cancel" => a = b
    /\ \A a, b \in Apps : pc[a] \in {"quit", "quitting"} /\ pc[b] \in {"quit", "quitting"} => a = b

Types ==
    /\ pc \in [Apps -> Call]
    /\ hand \in [Apps -> Tasks \cup {Nothing}]
    /\ target \in [Apps -> Queues \cup {Nothing}]
    /\ task \in [Tasks -> {Nothing} \cup [file : Files, queue : Queues]]
    /\ of \in [Files -> SUBSET Tasks]
    /\ closing \in [Files -> Tasks \cup {Nothing}]
    /\ files \subseteq Files
    /\ shut \subseteq Files
    /\ done \in [Queues -> Seq(Tasks)]
    /\ doomed \subseteq queues /\ queues \subseteq Queues
    /\ pending \in Seq(Tasks)
    /\ wpc \in [Workers -> {"none", "round", "asleep", "woken", "expired",
                            "took", "ran"}]
    /\ work \in [Workers -> Tasks \cup {Nothing}]

TaskFacts ==
    Lists /\ Holders /\ Placing /\ Books /\ Shut /\ Owners /\ Counts

TaskInv == Types /\ TaskFacts

-----------------------------------------------------------------------------
(* The pool                                                                *)

\* An element added raises the count by one.
LEMMA OneMore ==
    ASSUME NEW S, NEW x, IsFiniteSet(S), x \notin S
    PROVE  /\ Cardinality(S \cup {x}) = Cardinality(S) + 1
           /\ Cardinality(S) \in Nat
BY FS_AddElement, FS_CardinalityType

\* An element taken away lowers the count by one.
LEMMA OneLess ==
    ASSUME NEW S, NEW x, IsFiniteSet(S), x \in S
    PROVE  /\ Cardinality(S \ {x}) = Cardinality(S) - 1
           /\ Cardinality(S) \in Nat
BY FS_RemoveElement, FS_CardinalityType

\* The workers can be counted, and those that wait are in the pool.
LEMMA PoolSets ==
    /\ IsFiniteSet(InPool) /\ IsFiniteSet(Idlers)
    /\ Idlers \subseteq InPool /\ InPool \subseteq Workers
    /\ Cardinality(InPool) \in 0..Cardinality(Workers)
    /\ Cardinality(Idlers) \in 0..Cardinality(Workers)
<1>1. Idlers \subseteq InPool /\ InPool \subseteq Workers /\ Idlers \subseteq Workers
  BY DEF InPool, Idlers
<1>2. /\ IsFiniteSet(InPool) /\ Cardinality(InPool) <= Cardinality(Workers)
      /\ IsFiniteSet(Idlers) /\ Cardinality(Idlers) <= Cardinality(Workers)
  BY <1>1, AsyncIOAssumption, FS_Subset
<1>3. /\ Cardinality(InPool) \in Nat /\ Cardinality(Idlers) \in Nat
      /\ Cardinality(Workers) \in Nat
  BY <1>2, AsyncIOAssumption, FS_CardinalityType
<1> QED  BY <1>1, <1>2, <1>3

\* Calls go on that have nothing to do with the end of the pool.
Calm(at) ==
    /\ at \in [Apps -> Call]
    /\ \A a \in Apps :
          \/ at[a] = pc[a]
          \/ /\ at[a] \notin {"cancel", "quit", "quitting"}
             /\ pc[a] \notin {"cancel", "quit", "quitting"}

\* The thread that is woken sleeps in a call about a queue.
LEMMA DeliverCalm ==
    ASSUME NEW t, NEW at, Calm(at), Deliver(t, at)
    PROVE  Calm(pc')
<1>1. \/ pc' = at
      \/ \E a \in Apps : pc[a] = "asleep" /\ pc' = [at EXCEPT ![a] = "woken"]
  BY DEF Deliver, Sleepers
<1>2. CASE pc' = at
  BY <1>2
<1>3. ASSUME NEW a \in Apps, pc[a] = "asleep", pc' = [at EXCEPT ![a] = "woken"]
      PROVE  Calm(pc')
  BY <1>3 DEF Calm, Call
<1> QED  BY <1>1, <1>2, <1>3

\* Then the pool is what it was.
LEMMA CalmPool ==
    ASSUME Pool, Calm(pc'), UNCHANGED <<pool, wpc, pending>>
    PROVE  Pool'
<1>1. InPool' = InPool /\ Idlers' = Idlers
  BY DEF InPool, Idlers
<1>2. Locked' <=> Locked
  BY DEF Calm, Locked
<1> QED  BY <1>1, <1>2 DEF Pool, Calm

\* A worker more, or none: all that slept are awake.
LEMMA SpinFacts ==
    ASSUME Pool, Spin
    PROVE  /\ pool' \in [up : BOOLEAN, stop : BOOLEAN, running : Nat, idle : Nat]
           /\ pool'.up = pool.up /\ pool'.stop = pool.stop
           /\ wpc' \in [Workers -> {"none", "round", "asleep", "woken",
                                    "expired", "took", "ran"}]
           /\ pool'.running = Cardinality(InPool')
           /\ pool'.idle = Cardinality(Idlers')
           /\ InPool \subseteq InPool'
           /\ \A w \in Workers : wpc'[w] # "asleep"
           /\ \A w \in Workers : \/ wpc'[w] = wpc[w]
                                 \/ wpc[w] = "asleep" /\ wpc'[w] = "woken"
                                 \/ wpc[w] = "none" /\ wpc'[w] = "round" /\ pool.up
<1>1. CASE wpc' = Roused /\ UNCHANGED pool
  <2>1. InPool' = InPool /\ Idlers' = Idlers
    BY <1>1 DEF InPool, Idlers, Roused
  <2> QED  BY <1>1, <2>1 DEF Pool, Roused
<1>2. ASSUME NEW w \in Workers, wpc[w] = "none", pool.up,
             wpc' = [Roused EXCEPT ![w] = "round"],
             pool' = [pool EXCEPT !.running = @ + 1]
      PROVE  /\ pool' \in [up : BOOLEAN, stop : BOOLEAN, running : Nat, idle : Nat]
             /\ pool'.up = pool.up /\ pool'.stop = pool.stop
             /\ wpc' \in [Workers -> {"none", "round", "asleep", "woken",
                                      "expired", "took", "ran"}]
             /\ pool'.running = Cardinality(InPool')
             /\ pool'.idle = Cardinality(Idlers')
             /\ InPool \subseteq InPool'
             /\ \A v \in Workers : wpc'[v] # "asleep"
             /\ \A v \in Workers : \/ wpc'[v] = wpc[v]
                                   \/ wpc[v] = "asleep" /\ wpc'[v] = "woken"
                                   \/ wpc[v] = "none" /\ wpc'[v] = "round" /\ pool.up
  <2>1. \A v \in Workers : wpc'[v] = IF v = w THEN "round"
                                     ELSE IF wpc[v] = "asleep" THEN "woken" ELSE wpc[v]
    BY <1>2 DEF Roused
  <2>2. InPool' = InPool \cup {w} /\ w \notin InPool /\ Idlers' = Idlers
    BY <1>2, <2>1 DEF InPool, Idlers
  <2>3. Cardinality(InPool') = Cardinality(InPool) + 1
    BY <2>2, PoolSets, OneMore
  <2>4. /\ wpc' \in [Workers -> {"none", "round", "asleep", "woken", "expired",
                                 "took", "ran"}]
        /\ pool' \in [up : BOOLEAN, stop : BOOLEAN, running : Nat, idle : Nat]
    BY <1>2 DEF Pool, Roused
  <2>5. /\ pool'.up = pool.up /\ pool'.stop = pool.stop /\ pool'.idle = pool.idle
        /\ pool'.running = pool.running + 1
    BY <1>2 DEF Pool
  <2> QED  BY <1>2, <2>1, <2>2, <2>3, <2>4, <2>5 DEF Pool
<1> QED  BY <1>1, <1>2 DEF Spin

\* A task put on the list finds every worker awake.
LEMMA SubmitPool ==
    ASSUME Pool, NEW t, NEW at, Calm(at), Submit(t, at)
    PROVE  Pool'
<1>1. CASE pool.stop
  <2>1. Deliver(t, at) /\ UNCHANGED <<pending, pool, wpc>>
    BY <1>1 DEF Submit
  <2> QED  BY <2>1, DeliverCalm, CalmPool
<1>2. CASE ~pool.stop
  <2>1. Spin /\ pc' = at
    BY <1>2 DEF Submit
  <2>2. Calm(pc') /\ (Locked' <=> Locked)
    BY <2>1 DEF Calm, Locked
  <2>3. \A a \in Apps : pc'[a] \notin {"quit", "quitting"} /\ pc[a] \notin {"quit", "quitting"}
    BY <1>2, <2>2 DEF Pool, Calm
  <2>4. ~pool.up => InPool' = {}
    BY SpinFacts, <2>1 DEF Pool, InPool
  <2>5. pool.up => InPool' # {}
    BY SpinFacts, <1>2, <2>1 DEF Pool
  <2>6. ~pool'.stop /\ pool'.up = pool.up
    BY SpinFacts, <1>2, <2>1
  <2> QED  BY SpinFacts, <2>1, <2>2, <2>3, <2>4, <2>5, <2>6 DEF Pool, Calm
<1> QED  BY <1>1, <1>2

\* The first worker starts.
LEMMA PreparePool ==
    ASSUME Pool, Prepare, UNCHANGED <<pc, pending>>
    PROVE  Pool'
<1>1. CASE UNCHANGED <<pool, wpc>>
  <2>1. Calm(pc')
    BY DEF Pool, Calm
  <2> QED  BY <1>1, <2>1, CalmPool
<1>2. ASSUME ~pool.up, NEW w \in Workers, wpc[w] = "none",
             wpc' = [wpc EXCEPT ![w] = "round"],
             pool' = [pool EXCEPT !.up = TRUE, !.running = 1]
      PROVE  Pool'
  <2>1. InPool = {} /\ ~pool.stop /\ ~Locked
    BY <1>2 DEF Pool
  <2>2. \A v \in Workers : wpc[v] = "none"
    BY <2>1 DEF InPool
  <2>3. \A v \in Workers : wpc'[v] = IF v = w THEN "round" ELSE "none"
    BY <1>2, <2>2 DEF Pool
  <2>4. InPool' = {w} /\ Idlers' = {} /\ Idlers = {}
    BY <2>2, <2>3 DEF InPool, Idlers
  <2>5. Cardinality(InPool') = 1 /\ Cardinality(Idlers') = 0 /\ Cardinality(Idlers) = 0
    BY <2>4, FS_Singleton, FS_EmptySet
  <2>6. /\ pool' \in [up : BOOLEAN, stop : BOOLEAN, running : Nat, idle : Nat]
        /\ pool'.up /\ ~pool'.stop /\ pool'.running = 1 /\ pool'.idle = pool.idle
    BY <1>2, <2>1 DEF Pool
  <2>7. wpc' \in [Workers -> {"none", "round", "asleep", "woken", "expired",
                              "took", "ran"}]
    BY <1>2 DEF Pool
  <2>8. ~Locked' /\ \A a \in Apps : pc'[a] \notin {"cancel", "quit", "quitting"}
    BY <2>1 DEF Pool, Locked
  <2>9. \A v \in Workers : wpc'[v] # "asleep"
    BY <2>3
  <2> QED  BY <2>4, <2>5, <2>6, <2>7, <2>8, <2>9 DEF Pool
<1> QED  BY <1>1, <1>2 DEF Prepare

\* A worker leaves, takes a task or goes to sleep.
LEMMA RoundPool ==
    ASSUME Pool, NEW w \in Workers, Round(w)
    PROVE  Pool'
<1> DEFINE idle == IF wpc[w] = "round" THEN pool.idle ELSE pool.idle - 1
           rest == Idlers \ {w}
<1>1. /\ ~Locked /\ wpc[w] \in {"round", "woken", "expired"}
      /\ w \in InPool
      /\ w \in Idlers <=> wpc[w] # "round"
  BY DEF Round, InPool, Idlers
<1>2. idle = Cardinality(rest) /\ idle \in Nat /\ IsFiniteSet(rest)
  <2>1. CASE wpc[w] = "round"
    <3>1. rest = Idlers
      BY <1>1, <2>1
    <3> QED  BY <2>1, <3>1, PoolSets DEF Pool
  <2>2. CASE wpc[w] # "round"
    <3>1. Cardinality(rest) = Cardinality(Idlers) - 1 /\ IsFiniteSet(rest)
      BY <1>1, <2>2, PoolSets, OneLess, FS_RemoveElement
    <3>2. Cardinality(rest) \in Nat
      BY <3>1, FS_CardinalityType
    <3> QED  BY <2>2, <3>1, <3>2 DEF Pool
  <2> QED  BY <2>1, <2>2
<1>3. idle > 0 => rest # {}
  BY <1>2, FS_EmptySet
<1>4. /\ Cardinality(InPool \ {w}) = pool.running - 1
      /\ pool.running - 1 \in Nat
  <2>1. Cardinality(InPool \ {w}) = Cardinality(InPool) - 1 /\ IsFiniteSet(InPool \ {w})
    BY <1>1, PoolSets, OneLess, FS_RemoveElement
  <2>2. Cardinality(InPool \ {w}) \in Nat
    BY <2>1, FS_CardinalityType
  <2> QED  BY <2>1, <2>2 DEF Pool
<1>5. pc' \in [Apps -> Call] /\ (Locked' <=> Locked)
      /\ \A a \in Apps : pc'[a] = pc[a] \/ (pc[a] = "quit" /\ pc'[a] = "quitting")
  <2>1. pc' = pc \/ pc' = QuitWoken
    BY DEF Round
  <2> QED  BY <2>1 DEF Pool, QuitWoken, Call, Locked
<1> HIDE DEF idle, rest
<1>6. CASE /\ pool.stop \/ TooMany(w, idle)
           /\ pool' = [pool EXCEPT !.idle = idle, !.running = @ - 1]
           /\ wpc' = [IF pool.stop THEN Roused ELSE wpc EXCEPT ![w] = "none"]
           /\ pending' = pending
  <2>1. /\ \A v \in Workers : wpc'[v] = IF v = w THEN "none"
              ELSE IF pool.stop /\ wpc[v] = "asleep" THEN "woken" ELSE wpc[v]
        /\ wpc' \in [Workers -> {"none", "round", "asleep", "woken", "expired",
                                 "took", "ran"}]
    <3>1. CASE pool.stop
      BY <1>6, <3>1 DEF Pool, Roused
    <3>2. CASE ~pool.stop
      BY <1>6, <3>2 DEF Pool
    <3> QED  BY <3>1, <3>2
  <2>2. InPool' = InPool \ {w} /\ Idlers' = rest
    BY <2>1 DEF InPool, Idlers, rest
  <2>3. /\ pool' \in [up : BOOLEAN, stop : BOOLEAN, running : Nat, idle : Nat]
        /\ pool'.up = pool.up /\ pool'.stop = pool.stop /\ pool'.idle = idle
        /\ pool'.running = pool.running - 1
    BY <1>2, <1>4, <1>6 DEF Pool
  <2>4. pool.up /\ ~pool.stop => InPool' # {}
    BY <1>3, <1>6, <2>2, PoolSets DEF TooMany, rest
  <2>5. pool.up /\ pending # <<>> => \A v \in Workers : wpc'[v] # "asleep"
    BY <2>1 DEF Pool
  <2> QED  BY <1>1, <1>2, <1>4, <1>5, <1>6, <2>1, <2>2, <2>3, <2>4, <2>5 DEF Pool
<1>7. CASE /\ ~pool.stop /\ pending # <<>>
           /\ pool' = [pool EXCEPT !.idle = idle]
           /\ wpc' = [wpc EXCEPT ![w] = "took"]
           /\ pc' = pc
  <2>1. /\ \A v \in Workers : wpc'[v] = IF v = w THEN "took" ELSE wpc[v]
        /\ wpc' \in [Workers -> {"none", "round", "asleep", "woken", "expired",
                                 "took", "ran"}]
    BY <1>7 DEF Pool
  <2>2. InPool' = InPool /\ Idlers' = rest
    BY <1>1, <2>1 DEF InPool, Idlers, rest
  <2>3. /\ pool' \in [up : BOOLEAN, stop : BOOLEAN, running : Nat, idle : Nat]
        /\ pool'.up = pool.up /\ pool'.stop = pool.stop /\ pool'.idle = idle
        /\ pool'.running = pool.running
    BY <1>2, <1>7 DEF Pool
  <2>4. pool.up => \A v \in Workers : wpc'[v] # "asleep"
    BY <1>7, <2>1 DEF Pool
  <2> QED  BY <1>1, <1>2, <1>5, <1>7, <2>1, <2>2, <2>3, <2>4 DEF Pool
<1>8. CASE /\ ~pool.stop /\ pending = <<>>
           /\ pool' = [pool EXCEPT !.idle = idle + 1]
           /\ wpc' = [wpc EXCEPT ![w] = "asleep"]
           /\ pc' = pc /\ pending' = pending
  <2>1. /\ \A v \in Workers : wpc'[v] = IF v = w THEN "asleep" ELSE wpc[v]
        /\ wpc' \in [Workers -> {"none", "round", "asleep", "woken", "expired",
                                 "took", "ran"}]
    BY <1>8 DEF Pool
  <2>2. InPool' = InPool /\ Idlers' = rest \cup {w} /\ w \notin rest
    BY <1>1, <2>1 DEF InPool, Idlers, rest
  <2>3. /\ pool' \in [up : BOOLEAN, stop : BOOLEAN, running : Nat, idle : Nat]
        /\ pool'.up = pool.up /\ pool'.stop = pool.stop /\ pool'.idle = idle + 1
        /\ pool'.running = pool.running
    BY <1>2, <1>8 DEF Pool
  <2>4. Cardinality(Idlers') = idle + 1
    BY <1>2, <2>2, OneMore
  <2> QED  BY <1>1, <1>5, <1>8, <2>1, <2>2, <2>3, <2>4 DEF Pool
<1> QED  BY <1>6, <1>7, <1>8 DEF Round, idle

\* A worker goes on with its task, or wakes up.
LEMMA WorkerPool ==
    ASSUME Pool, NEW w \in Workers, Calm(pc'), UNCHANGED <<pool, pending>>,
           NEW label \in {"round", "woken", "expired", "took", "ran"},
           wpc' = [wpc EXCEPT ![w] = label],
           wpc[w] # "none",
           wpc[w] = "asleep" <=> label \in {"woken", "expired"},
           wpc[w] \notin {"woken", "expired"}
    PROVE  Pool'
<1>1. /\ \A v \in Workers : wpc'[v] = IF v = w THEN label ELSE wpc[v]
      /\ wpc' \in [Workers -> {"none", "round", "asleep", "woken", "expired",
                               "took", "ran"}]
  BY DEF Pool
<1>2. InPool' = InPool /\ Idlers' = Idlers
  BY <1>1 DEF InPool, Idlers
<1>3. Locked' <=> Locked
  BY DEF Calm, Locked
<1> QED  BY <1>1, <1>2, <1>3 DEF Pool, Calm

\* The pool is told to stop, or has stopped.
LEMMA StopPoolStep ==
    ASSUME Pool, NEW a \in Apps, StopPool(a)
    PROVE  Pool'
<1>1. \A b \in Apps : pc'[b] = IF b = a THEN "quit" ELSE pc[b]
  BY DEF StopPool, At, Pool
<1>2. Locked /\ ~Locked' /\ pc' \in [Apps -> Call]
  BY <1>1 DEF StopPool, At, Pool, Locked, Call
<1>3. pool.up /\ ~pool.stop
  BY <1>2 DEF Pool
<1>4. /\ pool' \in [up : BOOLEAN, stop : BOOLEAN, running : Nat, idle : Nat]
      /\ pool'.up /\ pool'.stop /\ pool'.idle = pool.idle
      /\ pool'.running = pool.running
  BY <1>3 DEF Pool, StopPool
<1>5. /\ InPool' = InPool /\ Idlers' = Idlers
      /\ wpc' \in [Workers -> {"none", "round", "asleep", "woken", "expired",
                               "took", "ran"}]
  BY DEF StopPool, Roused, InPool, Idlers, Pool
<1>6. \A b \in Apps : pc[b] \notin {"quit", "quitting"}
  BY <1>3 DEF Pool
<1>7. pending' = <<>>
  BY DEF StopPool, lists
<1> QED  BY <1>1, <1>2, <1>4, <1>5, <1>6, <1>7 DEF Pool

\* Looking at the workers changes nobody but the one that quits.
LEMMA QuitLooksPool ==
    ASSUME Pool, NEW a \in Apps, QuitLooks(a)
    PROVE  Pool'
<1>1. pool.stop /\ pool.up /\ pending = <<>> /\ ~Locked /\ pc[a] = "quitting"
  BY DEF QuitLooks, Pool
<1>2. \A b \in Apps : b # a => pc[b] \notin {"cancel", "quit", "quitting"}
  BY <1>1 DEF Pool, Locked
<1>3. wpc' = wpc /\ pending' = pending
  BY DEF QuitLooks, workers
<1>4. InPool' = InPool /\ Idlers' = Idlers
  BY <1>3 DEF InPool, Idlers
<1>5. CASE pc' = At(a, "quit") /\ pool' = pool
  <2>1. /\ \A b \in Apps : pc'[b] = IF b = a THEN "quit" ELSE pc[b]
        /\ pc' \in [Apps -> Call]
    BY <1>5 DEF At, Pool, Call
  <2>2. ~Locked'
    BY <1>1, <2>1 DEF Locked
  <2> QED  BY <1>1, <1>2, <1>3, <1>4, <1>5, <2>1, <2>2 DEF Pool
<1>6. CASE /\ pool.running = 0 /\ pc' = At(a, "idle")
           /\ pool' = [up |-> FALSE, stop |-> FALSE, running |-> 0, idle |-> 0]
  <2>1. /\ \A b \in Apps : pc'[b] = IF b = a THEN "idle" ELSE pc[b]
        /\ pc' \in [Apps -> Call]
    BY <1>6 DEF At, Pool, Call
  <2>2. ~Locked' /\ \A b \in Apps : pc'[b] \notin {"cancel", "quit", "quitting"}
    BY <1>1, <1>2, <2>1 DEF Locked
  <2>3. InPool = {} /\ Idlers = {}
    BY <1>6, PoolSets, FS_EmptySet DEF Pool
  <2>4. Cardinality(InPool') = 0 /\ Cardinality(Idlers') = 0
    BY <1>4, <2>3, FS_EmptySet
  <2> QED  BY <1>3, <1>4, <1>6, <2>1, <2>2, <2>3, <2>4 DEF Pool
<1> QED  BY <1>5, <1>6 DEF QuitLooks

\* Nobody is in a call, and no worker has been spun.
LEMMA PoolInit == Init => Pool
<1> SUFFICES ASSUME Init PROVE Pool
  OBVIOUS
<1>1. InPool = {} /\ Idlers = {}
  BY DEF Init, InPool, Idlers
<1>2. Cardinality(InPool) = 0 /\ Cardinality(Idlers) = 0
  BY <1>1, FS_EmptySet
<1>3. ~Locked
  BY DEF Init, Locked
<1> QED  BY <1>1, <1>2, <1>3 DEF Init, Pool, Call

\* A thread of the application that goes on in a call about a queue.
LEMMA CalmAt ==
    ASSUME Pool, NEW a \in Apps,
           NEW label \in {"idle", "queue", "asleep", "woken", "took", "drop", "destroy"},
           pc[a] \notin {"cancel", "quit", "quitting"}
    PROVE  Calm(At(a, label)) /\ Calm(pc)
BY DEF Calm, At, Pool, Call

\* Every step keeps the pool's books.
LEMMA PoolStep ==
    ASSUME Pool, [Next]_vars
    PROVE  Pool'
<1> USE DEF books, lists, workers, app
<1>0. Calm(pc)
  BY DEF Calm, Pool
<1>1. ASSUME NEW a \in Apps, QueueRequest(a) PROVE Pool'
  BY <1>1, CalmAt, SubmitPool DEF QueueRequest
<1>2. ASSUME NEW a \in Apps, Wake(a) PROVE Pool'
  <2>1. PICK label \in {"idle", "took", "destroy"} : pc' = At(a, label)
    BY <1>2 DEF Wake, Fetch, Return
  <2> QED  BY <1>2, <2>1, CalmAt, CalmPool DEF Wake
<1>3. ASSUME NEW a \in Apps, Settle(a) PROVE Pool'
  <2>1. pc[a] = "took" /\ Calm(At(a, "drop"))
    BY <1>3, CalmAt DEF Settle
  <2>2. \/ \E t : Submit(t, At(a, "drop"))
        \/ pc' = At(a, "drop") /\ UNCHANGED <<pool, wpc, pending>>
    BY <1>3 DEF Settle, StartClose
  <2> QED  BY <2>1, <2>2, SubmitPool, CalmPool
<1>4. ASSUME NEW a \in Apps, Drop(a) PROVE Pool'
  <2>1. PICK label \in {"idle", "destroy"} : pc' = At(a, label)
    BY <1>4 DEF Drop, Return
  <2> QED  BY <1>4, <2>1, CalmAt, CalmPool DEF Drop
<1>5. ASSUME NEW a \in Apps, DestroyLooks(a) PROVE Pool'
  <2>1. PICK label \in {"took", "asleep", "idle"} : pc' = At(a, label)
    BY <1>5 DEF DestroyLooks, Fetch, FallAsleep
  <2> QED  BY <1>5, <2>1, CalmAt, CalmPool DEF DestroyLooks
<1>6. ASSUME NEW a \in Apps, CancelTask(a) PROVE Pool'
  <2>1. Calm(pc') /\ UNCHANGED <<pool, wpc>> /\ pc[a] = "cancel"
    BY <1>0, <1>6, DeliverCalm DEF CancelTask
  <2>2. InPool' = InPool /\ Idlers' = Idlers /\ (Locked' <=> Locked)
    BY <2>1 DEF InPool, Idlers, Calm, Locked
  <2>3. ~pool.stop /\ pending # <<>>
    BY <1>6 DEF Pool, CancelTask, Locked
  <2> QED  BY <2>1, <2>2, <2>3 DEF Pool, Calm
<1>7. ASSUME NEW a \in Apps, StopPool(a) PROVE Pool'
  BY <1>7, StopPoolStep
<1>8. ASSUME NEW a \in Apps, QuitLooks(a) PROVE Pool'
  BY <1>8, QuitLooksPool
<1>9. ASSUME NEW a \in Apps, NEW f \in Files, NEW q \in Queues, Request(a, f, q)
      PROVE  Pool'
  BY <1>9, CalmAt, CalmPool DEF Request
<1>10. ASSUME NEW a \in Apps, NEW f \in Files, NEW q \in Queues, Close(a, f, q)
       PROVE  Pool'
  <2>1. (\E t : Submit(t, pc)) \/ UNCHANGED <<pc, pool, wpc, pending>>
    BY <1>10 DEF Close, StartClose
  <2> QED  BY <1>0, <2>1, SubmitPool, CalmPool
<1>11. ASSUME NEW a \in Apps, Rouse(a) PROVE Pool'
  BY <1>11, CalmAt, CalmPool DEF Rouse
<1>12. ASSUME NEW a \in Apps, Quit(a) PROVE Pool'
  <2>1. /\ \A b \in Apps : pc'[b] = IF b = a THEN "cancel" ELSE pc[b]
        /\ pc' \in [Apps -> Call]
    BY <1>12 DEF Quit, At, Pool, Call
  <2>2. \A b \in Apps : pc[b] \notin {"cancel", "quit", "quitting"}
    BY <1>12 DEF Quit, Pool, Locked
  <2>3. pool.up /\ ~pool.stop /\ UNCHANGED <<pool, wpc, pending>>
    BY <1>12 DEF Quit
  <2>4. InPool' = InPool /\ Idlers' = Idlers
    BY <2>3 DEF InPool, Idlers
  <2> QED  BY <2>1, <2>2, <2>3, <2>4 DEF Pool
<1>13. ASSUME NEW a \in Apps, NEW f \in Files, OpenFile(a, f) PROVE Pool'
  BY <1>13, PreparePool DEF OpenFile
<1>14. ASSUME NEW a \in Apps, NEW q \in Queues, CreateQueue(a, q) PROVE Pool'
  BY <1>14, PreparePool DEF CreateQueue
<1>15. ASSUME NEW a \in Apps, NEW q \in Queues, GetResult(a, q) PROVE Pool'
  BY <1>15, CalmAt, CalmPool DEF GetResult, Fetch
<1>16. ASSUME NEW a \in Apps, NEW q \in Queues, WaitResult(a, q) PROVE Pool'
  BY <1>16, CalmAt, CalmPool DEF WaitResult, FallAsleep
<1>17. ASSUME NEW a \in Apps, NEW q \in Queues, SignalQueue(a, q) PROVE Pool'
  <2>1. Calm(pc')
    BY <1>17 DEF SignalQueue, Sleepers, Calm, Pool, Call
  <2> QED  BY <1>17, <2>1, CalmPool DEF SignalQueue
<1>18. ASSUME NEW a \in Apps, NEW q \in Queues, Destroy(a, q) PROVE Pool'
  BY <1>18, CalmAt, CalmPool DEF Destroy
<1>19. ASSUME NEW w \in Workers, Round(w) PROVE Pool'
  BY <1>19, RoundPool
<1>20. ASSUME NEW w \in Workers, RunTask(w) PROVE Pool'
  BY <1>0, <1>20, WorkerPool DEF RunTask
<1>21. ASSUME NEW w \in Workers, CompleteTask(w) PROVE Pool'
  <2>1. Calm(pc')
    BY <1>0, <1>21, DeliverCalm DEF CompleteTask
  <2> QED  BY <1>21, <2>1, WorkerPool DEF CompleteTask
<1>22. ASSUME NEW w \in Workers, Stir(w) PROVE Pool'
  <2>1. PICK label \in {"woken", "expired"} : wpc' = [wpc EXCEPT ![w] = label]
    BY <1>22 DEF Stir
  <2>2. UNCHANGED <<pc, pool, pending>> /\ wpc[w] = "asleep"
    BY <1>22 DEF Stir
  <2> QED  BY <1>0, <2>1, <2>2, WorkerPool
<1>23. CASE UNCHANGED vars
  BY <1>0, <1>23, CalmPool DEF vars
<1> QED  BY <1>1, <1>2, <1>3, <1>4, <1>5, <1>6, <1>7, <1>8, <1>9, <1>10, <1>11,
            <1>12, <1>13, <1>14, <1>15, <1>16, <1>17, <1>18, <1>19, <1>20, <1>21,
            <1>22, <1>23
         DEF Next, AppStep, Asks, WorkerStep

\* While there is work some worker is awake, the counters of the pool are
\* those of its workers, and it never shrinks to nothing, whatever the
\* application closes and destroys and in whatever order.
THEOREM PoolWorks == Spec => []SomebodyWorks
<1>1. Pool => SomebodyWorks
  <2> SUFFICES ASSUME Pool PROVE SomebodyWorks
    OBVIOUS
  <2>1. /\ pool.running = Cardinality({w \in Workers : wpc[w] # "none"})
        /\ pool.idle =
              Cardinality({w \in Workers : wpc[w] \in {"asleep", "woken", "expired"}})
    BY DEF Pool, InPool, Idlers
  <2>2. InPool # {} => pool.running > 0
    <3>1. InPool # {} => Cardinality(InPool) # 0
      BY PoolSets, FS_EmptySet
    <3> QED  BY <3>1 DEF Pool
  <2>3. pool.up /\ ~pool.stop => pool.running > 0
    BY <2>2 DEF Pool
  <2>4. pool.up /\ pending # <<>> => \E w \in Workers : wpc[w] \notin {"none", "asleep"}
    <3>1. pool.up /\ pending # <<>> => InPool # {} /\ \A w \in Workers : wpc[w] # "asleep"
      BY DEF Pool
    <3> QED  BY <3>1 DEF InPool
  <2> QED  BY <2>1, <2>3, <2>4 DEF SomebodyWorks
<1> QED  BY <1>1, PoolInit, PoolStep, PTL DEF Spec

-----------------------------------------------------------------------------
(* Lists                                                                   *)

\* The empty list.
LEMMA EmptyList == IsInjective(<<>>) /\ Range(<<>>) = {} /\ Len(<<>>) = 0
BY DEF IsInjective, Range

\* What a list without duplicates is, index by index.
LEMMA ListIs ==
    ASSUME NEW S, NEW s \in Seq(S)
    PROVE  /\ IsInjective(s) <=>
                 \A i, j \in 1..Len(s) : s[i] = s[j] => i = j
           /\ Range(s) = {s[i] : i \in 1..Len(s)}
           /\ Range(s) \subseteq S
           /\ Len(s) \in Nat
           /\ s = <<>> <=> Range(s) = {}
<1>1. DOMAIN s = 1..Len(s) /\ Len(s) \in Nat /\ \A i \in 1..Len(s) : s[i] \in S
  BY LenProperties, ElementOfSeq
<1>2. s # <<>> => 1 \in 1..Len(s)
  BY <1>1, EmptySeq
<1>3. s = <<>> => Range(s) = {}
  BY EmptyList
<1> QED  BY <1>1, <1>2, <1>3 DEF IsInjective, Range

\* The first one is taken off.
LEMMA ListTail ==
    ASSUME NEW S, NEW s \in Seq(S), s # <<>>, IsInjective(s)
    PROVE  /\ Head(s) \in S /\ Head(s) \in Range(s)
           /\ Tail(s) \in Seq(S)
           /\ IsInjective(Tail(s))
           /\ Range(Tail(s)) = Range(s) \ {Head(s)}
<1>1. /\ Head(s) \in S /\ Tail(s) \in Seq(S) /\ Len(Tail(s)) = Len(s) - 1
      /\ \A i \in 1..(Len(s) - 1) : Tail(s)[i] = s[i + 1]
  BY HeadTailProperties
<1>2. Head(s) = s[1] /\ Len(s) \in Nat /\ Len(s) # 0
  BY EmptySeq, LenProperties
<1>3. \A i, j \in 1..Len(s) : s[i] = s[j] => i = j
  BY ListIs
<1> DEFINE t == Tail(s)  n == Len(s)
<1>4. t \in Seq(S) /\ Len(t) = n - 1 /\ \A i \in 1..(n - 1) : t[i] = s[i + 1]
  BY <1>1
<1>5. Range(s) = {s[i] : i \in 1..n} /\ Range(t) = {t[i] : i \in 1..(n - 1)}
  BY <1>4, ListIs
<1>6. IsInjective(t) <=> \A i, j \in 1..(n - 1) : t[i] = t[j] => i = j
  BY <1>4, ListIs
<1> HIDE DEF t
<1>7. IsInjective(t)
  <2>1. ASSUME NEW i \in 1..(n - 1), NEW j \in 1..(n - 1), t[i] = t[j]
        PROVE  i = j
    <3>1. i + 1 \in 1..n /\ j + 1 \in 1..n /\ s[i + 1] = s[j + 1]
      BY <1>2, <1>4, <2>1
    <3>2. i + 1 = j + 1
      BY <1>3, <3>1
    <3> QED  BY <1>2, <3>2
  <2> QED  BY <1>6, <2>1
<1>8. Range(t) = Range(s) \ {Head(s)}
  <2>1. ASSUME NEW x \in Range(t) PROVE x \in Range(s) \ {Head(s)}
    <3>1. PICK i \in 1..(n - 1) : x = t[i]
      BY <1>5
    <3>2. x = s[i + 1] /\ i + 1 \in 1..n /\ 1 \in 1..n /\ i + 1 # 1
      BY <1>2, <1>4, <3>1
    <3> QED  BY <1>2, <1>3, <1>5, <3>2
  <2>2. ASSUME NEW x \in Range(s), x # Head(s) PROVE x \in Range(t)
    <3>1. PICK i \in 1..n : x = s[i]
      BY <1>5
    <3>2. i # 1
      BY <1>2, <2>2, <3>1
    <3>3. i - 1 \in 1..(n - 1) /\ (i - 1) + 1 = i
      BY <1>2, <3>2
    <3>4. t[i - 1] = s[i]
      BY <1>4, <3>3
    <3> QED  BY <1>5, <3>1, <3>3, <3>4
  <2> QED  BY <2>1, <2>2
<1>9. Head(s) \in Range(s)
  <2>1. 1 \in 1..n
    BY <1>2
  <2> QED  BY <1>2, <1>5, <2>1
<1> QED  BY <1>1, <1>7, <1>8, <1>9 DEF t

\* Two lists that share nothing are joined.
LEMMA ListJoin ==
    ASSUME NEW S, NEW s \in Seq(S), NEW t \in Seq(S), IsInjective(s),
           IsInjective(t), Range(s) \cap Range(t) = {}
    PROVE  /\ s \o t \in Seq(S)
           /\ IsInjective(s \o t)
           /\ Range(s \o t) = Range(s) \cup Range(t)
<1> DEFINE u == s \o t  m == Len(s)  n == Len(t)
<1>1. /\ u \in Seq(S) /\ Len(u) = m + n
      /\ \A i \in 1..(m + n) : u[i] = IF i <= m THEN s[i] ELSE t[i - m]
  BY ConcatProperties
<1>2. Range(u) = Range(s) \cup Range(t)
  BY RangeConcatenation
<1>3. /\ m \in Nat /\ n \in Nat
      /\ Range(s) = {s[i] : i \in 1..m} /\ Range(t) = {t[i] : i \in 1..n}
      /\ \A i, j \in 1..m : s[i] = s[j] => i = j
      /\ \A i, j \in 1..n : t[i] = t[j] => i = j
  BY ListIs
<1>4. IsInjective(u) <=> \A i, j \in 1..(m + n) : u[i] = u[j] => i = j
  BY <1>1, ListIs
<1> HIDE DEF u, m, n
<1>5. ASSUME NEW i \in 1..(m + n), NEW j \in 1..(m + n), u[i] = u[j]
      PROVE  i = j
  <2>1. \A x \in 1..(m + n) :
           \/ x \in 1..m /\ u[x] = s[x] /\ u[x] \in Range(s)
           \/ x - m \in 1..n /\ u[x] = t[x - m] /\ u[x] \in Range(t)
    <3>1. ASSUME NEW x \in 1..(m + n), x <= m
          PROVE  x \in 1..m /\ u[x] = s[x]
      BY <1>1, <1>3, <3>1
    <3>2. ASSUME NEW x \in 1..(m + n), ~(x <= m)
          PROVE  x - m \in 1..n /\ u[x] = t[x - m]
      BY <1>1, <1>3, <3>2
    <3> QED  BY <1>3, <3>1, <3>2
  <2>2. CASE i \in 1..m /\ j \in 1..m /\ u[i] = s[i] /\ u[j] = s[j]
    BY <1>3, <1>5, <2>2
  <2>3. CASE i - m \in 1..n /\ j - m \in 1..n /\ u[i] = t[i - m] /\ u[j] = t[j - m]
    <3>1. i - m = j - m
      BY <1>3, <1>5, <2>3
    <3> QED  BY <1>3, <3>1
  <2> QED  BY <1>5, <2>1, <2>2, <2>3
<1> QED  BY <1>1, <1>2, <1>4, <1>5 DEF u

\* One element is a list.
LEMMA ListOne ==
    ASSUME NEW S, NEW e \in S
    PROVE  <<e>> \in Seq(S) /\ IsInjective(<<e>>) /\ Range(<<e>>) = {e}
<1>1. <<e>> \in Seq(S) /\ Len(<<e>>) = 1 /\ <<e>>[1] = e
  OBVIOUS
<1>2. /\ IsInjective(<<e>>) <=>
            \A i, j \in 1..Len(<<e>>) : <<e>>[i] = <<e>>[j] => i = j
      /\ Range(<<e>>) = {<<e>>[i] : i \in 1..Len(<<e>>)}
  BY <1>1, ListIs
<1>3. 1..1 = {1}
  OBVIOUS
<1> QED  BY <1>1, <1>2, <1>3

\* A new one is put in front.
LEMMA ListCons ==
    ASSUME NEW S, NEW s \in Seq(S), NEW e \in S, IsInjective(s), e \notin Range(s)
    PROVE  /\ <<e>> \o s \in Seq(S) /\ IsInjective(<<e>> \o s)
           /\ Range(<<e>> \o s) = Range(s) \cup {e}
<1>1. <<e>> \in Seq(S) /\ IsInjective(<<e>>) /\ Range(<<e>>) = {e}
  BY ListOne
<1> DEFINE one == <<e>>
<1>2. /\ one \in Seq(S) /\ IsInjective(one) /\ Range(one) = {e}
      /\ Range(one) \cap Range(s) = {}
  BY <1>1
<1> HIDE DEF one
<1>3. /\ one \o s \in Seq(S) /\ IsInjective(one \o s)
      /\ Range(one \o s) = Range(one) \cup Range(s)
  BY <1>2, ListJoin
<1> QED  BY <1>2, <1>3 DEF one

-----------------------------------------------------------------------------
(* Moves: what a step does to the lists                                    *)

\* A request is not nothing.
LEMMA NewTaskIs ==
    ASSUME NEW f \in Files, NEW q \in Queues
    PROVE  /\ NewTask(f, q) \in [file : Files, queue : Queues]
           /\ NewTask(f, q) # Nothing
           /\ NewTask(f, q).file = f /\ NewTask(f, q).queue = q
BY AsyncIOAssumption DEF NewTask

\* A task in use has a file and a queue.
LEMMA LiveIs ==
    ASSUME Types, NEW t \in Tasks
    PROVE  /\ t \in Live <=> task[t] # Nothing
           /\ t \in Live => task[t].file \in Files /\ task[t].queue \in Queues
           /\ t \in Live => t # Nothing
BY AsyncIOAssumption DEF Types, Live

\* The labels of a step that wakes one thread beside at.
Steady(at) ==
    /\ at \in [Apps -> Call]
    /\ \A b \in Apps : pc[b] = "asleep" => at[b] = "asleep"

Stepped(at) ==
    /\ pc' \in [Apps -> Call]
    /\ \A b \in Apps : pc'[b] = at[b] \/ (at[b] = "asleep" /\ pc'[b] = "woken")

\* What Deliver does to the lists of results.
Delivered(t) ==
    /\ done' \in [Queues -> Seq(Tasks)]
    /\ \A q \in Queues : IsInjective(done'[q])
    /\ \A q \in Queues : Range(done'[q]) =
          IF q = task'[t].queue THEN Range(done[q]) \cup {t} ELSE Range(done[q])

\* A thread that is awake may go on without disturbing a sleeper.
LEMMA SteadyAt ==
    ASSUME Types, NEW a \in Apps, NEW label \in Call, pc[a] # "asleep"
    PROVE  /\ Steady(At(a, label)) /\ Steady(pc)
           /\ \A b \in Apps : At(a, label)[b] = IF b = a THEN label ELSE pc[b]
BY DEF Types, Steady, At

\* Delivering a task puts it into its queue and wakes one sleeper at most.
LEMMA DeliverLists ==
    ASSUME Types, Lists, NEW t \in Tasks, NEW at, Steady(at), Deliver(t, at),
           \A p \in Queues : t \notin Range(done[p])
    PROVE  Delivered(t) /\ Stepped(at)
<1> DEFINE q == task'[t].queue
<1>1. done' = [done EXCEPT ![q] = <<t>> \o @]
  BY DEF Deliver
<1>2. ASSUME NEW p \in Queues
      PROVE  /\ done'[p] \in Seq(Tasks) /\ IsInjective(done'[p])
             /\ Range(done'[p]) = IF p = q THEN Range(done[p]) \cup {t}
                                  ELSE Range(done[p])
  <2>1. done[p] \in Seq(Tasks) /\ IsInjective(done[p]) /\ t \notin Range(done[p])
    BY DEF Types, Lists
  <2>2. CASE p = q
    <3>1. done'[p] = <<t>> \o done[p]
      BY <1>1, <2>2 DEF Types
    <3>2. /\ <<t>> \o done[p] \in Seq(Tasks) /\ IsInjective(<<t>> \o done[p])
          /\ Range(<<t>> \o done[p]) = Range(done[p]) \cup {t}
      BY <2>1, ListCons
    <3> QED  BY <2>2, <3>1, <3>2
  <2>3. CASE p # q
    <3>1. done'[p] = done[p]
      BY <1>1, <2>3 DEF Types
    <3> QED  BY <2>1, <2>3, <3>1
  <2> QED  BY <2>2, <2>3
<1>3. done' = [p \in Queues |-> done'[p]]
  BY <1>1 DEF Types
<1>4. Delivered(t)
  <2>1. done' \in [Queues -> Seq(Tasks)]
    BY <1>2, <1>3
  <2> QED  BY <1>2, <2>1 DEF Delivered
<1>5. Stepped(at)
  <2>1. \/ pc' = at
        \/ \E a \in Apps : pc[a] = "asleep" /\ pc' = [at EXCEPT ![a] = "woken"]
    BY DEF Deliver, Sleepers
  <2> QED  BY <2>1 DEF Stepped, Steady, Call
<1> QED  BY <1>4, <1>5

\* What Submit does to the lists: the task is on the pool's or on its queue's.
Put(t) ==
    /\ pending' \in Seq(Tasks) /\ IsInjective(pending')
    /\ done' \in [Queues -> Seq(Tasks)]
    /\ \A q \in Queues : IsInjective(done'[q])
    /\ \/ /\ Range(pending') = Range(pending) \cup {t}
          /\ \A q \in Queues : Range(done'[q]) = Range(done[q])
       \/ /\ Range(pending') = Range(pending)
          /\ Delivered(t)

\* Those that run do not notice.
WorkersGoOn ==
    /\ wpc' \in [Workers -> {"none", "round", "asleep", "woken", "expired",
                             "took", "ran"}]
    /\ \A w \in Workers : \/ wpc'[w] = wpc[w]
                          \/ wpc[w] \notin {"took", "ran"} /\ wpc'[w] \notin {"took", "ran"}

\* Spinning up a worker takes no task away from one.
LEMMA SpinGoesOn ==
    ASSUME Types, Spin
    PROVE  WorkersGoOn
BY DEF Types, Spin, Roused, WorkersGoOn

\* A task submitted is put on the pool's list or, without a pool, delivered.
LEMMA SubmitLists ==
    ASSUME Types, Lists, NEW t \in Tasks, NEW at, Steady(at), Submit(t, at),
           ~Listed(t)
    PROVE  Put(t) /\ Stepped(at) /\ WorkersGoOn
<1>1. CASE Deliver(t, at) /\ UNCHANGED <<pending, pool, wpc>>
  <2>1. Delivered(t) /\ Stepped(at)
    BY <1>1, DeliverLists DEF Listed
  <2>2. Put(t)
    BY <1>1, <2>1 DEF Put, Delivered, Types, Lists
  <2>3. WorkersGoOn
    BY <1>1 DEF Types, WorkersGoOn
  <2> QED  BY <2>1, <2>2, <2>3
<1>2. CASE /\ pending' = <<t>> \o pending /\ Spin /\ pc' = at /\ done' = done
  <2>1. pending \in Seq(Tasks) /\ IsInjective(pending) /\ t \notin Range(pending)
    BY DEF Types, Lists, Listed
  <2>2. /\ <<t>> \o pending \in Seq(Tasks) /\ IsInjective(<<t>> \o pending)
        /\ Range(<<t>> \o pending) = Range(pending) \cup {t}
    BY <2>1, ListCons
  <2>3. Put(t)
    BY <1>2, <2>2 DEF Put, Types, Lists
  <2>4. WorkersGoOn
    BY <1>2, SpinGoesOn
  <2> QED  BY <1>2, <2>3, <2>4 DEF Stepped, Steady
<1> QED  BY <1>1, <1>2 DEF Submit

\* The first of the pool's list is taken off.
Taken(t) ==
    /\ t \in Tasks /\ t \in Range(pending)
    /\ pending' \in Seq(Tasks) /\ IsInjective(pending')
    /\ Range(pending') = Range(pending) \ {t}

\* Taking the first task of the pool removes that one.
LEMMA TakeLists ==
    ASSUME Types, Lists, pending # <<>>, pending' = Tail(pending)
    PROVE  Taken(Head(pending))
<1>1. pending \in Seq(Tasks) /\ IsInjective(pending)
  BY DEF Types, Lists
<1>2. /\ Head(pending) \in Tasks /\ Head(pending) \in Range(pending)
      /\ Tail(pending) \in Seq(Tasks) /\ IsInjective(Tail(pending))
      /\ Range(Tail(pending)) = Range(pending) \ {Head(pending)}
  BY <1>1, ListTail
<1> QED  BY <1>2 DEF Taken

\* A result of q is taken by a thread.
Fetched(a, q, t) ==
    /\ t \in Tasks /\ t \in Range(done[q])
    /\ done' \in [Queues -> Seq(Tasks)]
    /\ \A p \in Queues : IsInjective(done'[p])
    /\ \A p \in Queues : Range(done'[p]) =
          IF p = q THEN Range(done[p]) \ {t} ELSE Range(done[p])
    /\ \A b \in Apps : hand'[b] = IF b = a THEN t ELSE hand[b]
    /\ \A b \in Apps : target'[b] = IF b = a THEN q ELSE target[b]
    /\ \A b \in Apps : pc'[b] = IF b = a THEN "took" ELSE pc[b]

\* Fetching a result removes the first of its queue, for the caller alone.
LEMMA FetchLists ==
    ASSUME Types, Lists, NEW a \in Apps, NEW q \in Queues, Fetch(a, q)
    PROVE  Fetched(a, q, Head(done[q]))
<1> DEFINE t == Head(done[q])
<1>1. done[q] \in Seq(Tasks) /\ IsInjective(done[q]) /\ done[q] # <<>>
  BY DEF Types, Lists, Fetch
<1>2. /\ t \in Tasks /\ t \in Range(done[q])
      /\ Tail(done[q]) \in Seq(Tasks) /\ IsInjective(Tail(done[q]))
      /\ Range(Tail(done[q])) = Range(done[q]) \ {t}
  BY <1>1, ListTail
<1>3. done' = [done EXCEPT ![q] = Tail(done[q])]
  BY DEF Fetch
<1>4. ASSUME NEW p \in Queues
      PROVE  /\ done'[p] \in Seq(Tasks) /\ IsInjective(done'[p])
             /\ Range(done'[p]) = IF p = q THEN Range(done[p]) \ {t}
                                  ELSE Range(done[p])
  <2>1. CASE p = q
    <3>1. done'[p] = Tail(done[q])
      BY <1>3, <2>1 DEF Types
    <3> QED  BY <1>2, <2>1, <3>1
  <2>2. CASE p # q
    <3>1. done'[p] = done[p]
      BY <1>3, <2>2 DEF Types
    <3> QED  BY <2>2, <3>1 DEF Types, Lists
  <2> QED  BY <2>1, <2>2
<1>5. done' = [p \in Queues |-> done'[p]]
  BY <1>3 DEF Types
<1>6. done' \in [Queues -> Seq(Tasks)]
  BY <1>4, <1>5
<1>7. /\ \A b \in Apps : hand'[b] = IF b = a THEN t ELSE hand[b]
      /\ \A b \in Apps : target'[b] = IF b = a THEN q ELSE target[b]
      /\ \A b \in Apps : pc'[b] = IF b = a THEN "took" ELSE pc[b]
  BY DEF Fetch, At, Types
<1> QED  BY <1>2, <1>4, <1>6, <1>7 DEF Fetched

-----------------------------------------------------------------------------
(* Types                                                                   *)

\* The types of what most steps leave alone, by groups.
LEMMA DeliverTypes ==
    ASSUME Types, NEW t \in Tasks, NEW at \in [Apps -> Call], Deliver(t, at)
    PROVE  pc' \in [Apps -> Call] /\ done' \in [Queues -> Seq(Tasks)]
<1>1. pc' \in [Apps -> Call]
  <2>1. \/ pc' = at
        \/ \E a \in Apps : pc' = [at EXCEPT ![a] = "woken"]
    BY DEF Deliver, Sleepers
  <2> QED  BY <2>1 DEF Call
<1>2. ASSUME NEW q \in Queues PROVE <<t>> \o done[q] \in Seq(Tasks)
  BY DEF Types
<1>3. PICK q : done' = [done EXCEPT ![q] = <<t>> \o @]
  BY DEF Deliver
<1>4. done' \in [Queues -> Seq(Tasks)]
  BY <1>2, <1>3 DEF Types
<1> QED  BY <1>1, <1>4

\* What submitting a task changes keeps its type.
LEMMA SubmitTypes ==
    ASSUME Types, NEW t \in Tasks, NEW at \in [Apps -> Call], Submit(t, at)
    PROVE  /\ pc' \in [Apps -> Call] /\ done' \in [Queues -> Seq(Tasks)]
           /\ pending' \in Seq(Tasks)
           /\ wpc' \in [Workers -> {"none", "round", "asleep", "woken", "expired",
                                    "took", "ran"}]
<1>1. CASE Deliver(t, at) /\ UNCHANGED <<pending, pool, wpc>>
  BY <1>1, DeliverTypes DEF Types
<1>2. CASE /\ pending' = <<t>> \o pending /\ Spin /\ pc' = at /\ done' = done
  <2>1. pending' \in Seq(Tasks)
    BY <1>2 DEF Types
  <2>2. WorkersGoOn
    BY <1>2, SpinGoesOn
  <2> QED  BY <1>2, <2>1, <2>2 DEF Types, WorkersGoOn
<1> QED  BY <1>1, <1>2 DEF Submit

\* Preparing the pool takes no task away from a worker.
LEMMA PrepareTypes ==
    ASSUME Types, Prepare
    PROVE  WorkersGoOn
BY DEF Types, Prepare, WorkersGoOn

\* What fetching a result changes keeps its type.
LEMMA FetchTypes ==
    ASSUME Types, NEW a \in Apps, NEW q \in Queues, Fetch(a, q)
    PROVE  /\ hand' \in [Apps -> Tasks \cup {Nothing}]
           /\ target' \in [Apps -> Queues \cup {Nothing}]
           /\ pc' \in [Apps -> Call]
           /\ done' \in [Queues -> Seq(Tasks)]
<1>1. /\ Head(done[q]) \in Tasks /\ Tail(done[q]) \in Seq(Tasks)
  <2>1. done[q] \in Seq(Tasks) /\ done[q] # <<>>
    BY DEF Types, Fetch
  <2> QED  BY <2>1, HeadTailProperties
<1>2. done' \in [Queues -> Seq(Tasks)]
  BY <1>1 DEF Types, Fetch
<1> QED  BY <1>1, <1>2 DEF Types, Fetch, At, Call

\* What returning to the application changes keeps its type.
LEMMA ReturnTypes ==
    ASSUME Types, NEW a \in Apps, Return(a)
    PROVE  /\ pc' \in [Apps -> Call]
           /\ target' \in [Apps -> Queues \cup {Nothing}]
BY DEF Types, Return, At, Call

\* What is somewhere is in use and does not wait.
LEMMA PlacedIs ==
    ASSUME TaskInv, NEW t \in Tasks, Placed(t)
    PROVE  /\ t \in Live /\ t \notin Deferred /\ task[t] # Nothing
           /\ task[t].file \in Files /\ task[t].queue \in Queues
<1>1. t \in Live /\ t \notin Deferred
  BY DEF TaskInv, TaskFacts, Placing
<1> QED  BY <1>1, LiveIs DEF TaskInv

\* A thread that has a task.
LEMMA HandIs ==
    ASSUME TaskInv, NEW a \in Apps, pc[a] \in {"queue", "took", "drop"}
    PROVE  /\ hand[a] \in Tasks /\ Placed(hand[a]) /\ ~Listed(hand[a])
           /\ hand[a] \in Live /\ hand[a] \notin Deferred
           /\ task[hand[a]] # Nothing
           /\ task[hand[a]].file \in Files /\ task[hand[a]].queue \in Queues
           /\ task[hand[a]].queue = target[a]
<1>1. /\ hand[a] \in Tasks /\ ~Listed(hand[a]) /\ Placed(hand[a])
      /\ task[hand[a]].queue = target[a]
  BY DEF TaskInv, TaskFacts, Types, Holders, Owners, Placed, Held
<1> QED  BY <1>1, PlacedIs

\* A worker that has one.
LEMMA WorkIs ==
    ASSUME TaskInv, NEW w \in Workers, wpc[w] \in {"took", "ran"}
    PROVE  /\ work[w] \in Tasks /\ Placed(work[w]) /\ ~Listed(work[w])
           /\ work[w] \in Live /\ work[w] \notin Deferred
           /\ task[work[w]] # Nothing
           /\ task[work[w]].file \in Files /\ task[work[w]].queue \in Queues
<1>1. work[w] \in Tasks /\ ~Listed(work[w]) /\ Placed(work[w])
  BY DEF TaskInv, TaskFacts, Types, Holders, Placed, Held
<1> QED  BY <1>1, PlacedIs

\* Every step keeps the types.
LEMMA TypesStep ==
    ASSUME TaskInv, [Next]_vars
    PROVE  Types'
<1> USE DEF books, lists, workers, app
<1>0. Types /\ Holders /\ Owners
  BY DEF TaskInv, TaskFacts
<1>1. ASSUME NEW a \in Apps, QueueRequest(a) PROVE Types'
  <2>1. hand[a] \in Tasks /\ At(a, "idle") \in [Apps -> Call]
    BY <1>0, <1>1 DEF QueueRequest, Holders, Types, At, Call
  <2>2. /\ pc' \in [Apps -> Call] /\ done' \in [Queues -> Seq(Tasks)]
        /\ pending' \in Seq(Tasks)
        /\ wpc' \in [Workers -> {"none", "round", "asleep", "woken", "expired",
                                 "took", "ran"}]
    BY <1>0, <1>1, <2>1, SubmitTypes DEF QueueRequest
  <2> QED  BY <1>0, <1>1, <2>2 DEF QueueRequest, Types
<1>2. ASSUME NEW a \in Apps, Wake(a) PROVE Types'
  <2>1. target[a] \in Queues
    BY <1>0, <1>2 DEF Wake, Owners, Types
  <2>2. /\ hand' \in [Apps -> Tasks \cup {Nothing}]
        /\ target' \in [Apps -> Queues \cup {Nothing}]
        /\ pc' \in [Apps -> Call]
        /\ done' \in [Queues -> Seq(Tasks)]
    BY <1>0, <1>2, <2>1, FetchTypes, ReturnTypes DEF Wake, Types
  <2> QED  BY <1>0, <1>2, <2>2 DEF Wake, Types
<1>3. ASSUME NEW a \in Apps, Settle(a) PROVE Types'
  <2> DEFINE t == hand[a]  f == task[t].file
  <2>1. t \in Tasks /\ f \in Files /\ At(a, "drop") \in [Apps -> Call]
    <3>1. At(a, "drop") \in [Apps -> Call]
      BY <1>0 DEF Types, At, Call
    <3> QED  BY <1>3, <3>1, HandIs DEF Settle
  <2>2. CASE /\ closing[f] # Nothing
             /\ StartClose(closing[f], f, Others(t), At(a, "drop"))
             /\ UNCHANGED <<closing, files, shut>>
    <3>1. closing[f] \in Tasks /\ Others(t) \subseteq Tasks
      BY <1>0, <2>1, <2>2 DEF Types, Others
    <3>2. /\ pc' \in [Apps -> Call] /\ done' \in [Queues -> Seq(Tasks)]
          /\ pending' \in Seq(Tasks)
          /\ wpc' \in [Workers -> {"none", "round", "asleep", "woken", "expired",
                                   "took", "ran"}]
      BY <1>0, <2>1, <2>2, <3>1, SubmitTypes DEF StartClose
    <3>3. of' \in [Files -> SUBSET Tasks]
      BY <1>0, <2>1, <2>2, <3>1 DEF Types, StartClose
    <3> QED  BY <1>0, <1>3, <2>2, <3>2, <3>3 DEF Settle, Types
  <2>3. CASE /\ of' = [of EXCEPT ![f] = Others(t)]
             /\ \/ UNCHANGED <<closing, files, shut>>
                \/ /\ closing' = [closing EXCEPT ![f] = Nothing]
                   /\ files' = files \ {f} /\ shut' = shut \ {f}
             /\ pc' = At(a, "drop")
             /\ UNCHANGED <<inflight, done, pending, pool, wpc>>
    <3>1. Others(t) \subseteq Tasks
      BY <1>0, <2>1 DEF Types, Others
    <3> QED  BY <1>0, <1>3, <2>1, <2>3, <3>1 DEF Settle, Types
  <2> QED  BY <1>0, <1>3, <2>2, <2>3 DEF Settle
<1>4. ASSUME NEW a \in Apps, Drop(a) PROVE Types'
  <2>1. pc' \in [Apps -> Call] /\ target' \in [Apps -> Queues \cup {Nothing}]
    BY <1>0, <1>4, ReturnTypes DEF Drop
  <2> QED  BY <1>0, <1>4, <2>1 DEF Drop, Types
<1>5. ASSUME NEW a \in Apps, DestroyLooks(a) PROVE Types'
  <2>1. target[a] \in Queues
    BY <1>0, <1>5 DEF DestroyLooks, Owners, Types
  <2>2. CASE Fetch(a, target[a]) /\ UNCHANGED <<queues, doomed>>
    BY <1>0, <1>5, <2>1, <2>2, FetchTypes DEF DestroyLooks, Types
  <2>3. CASE FallAsleep(a, target[a]) /\ UNCHANGED <<queues, doomed>>
    BY <1>0, <1>5, <2>1, <2>3 DEF DestroyLooks, Types, FallAsleep, At, Call
  <2>4. CASE /\ queues' = queues \ {target[a]} /\ doomed' = doomed \ {target[a]}
             /\ target' = [target EXCEPT ![a] = Nothing]
             /\ pc' = At(a, "idle") /\ UNCHANGED <<hand, done>>
    BY <1>0, <1>5, <2>1, <2>4 DEF DestroyLooks, Types, At, Call
  <2> QED  BY <1>0, <1>5, <2>2, <2>3, <2>4 DEF DestroyLooks
<1>6. ASSUME NEW a \in Apps, CancelTask(a) PROVE Types'
  <2>1. Head(pending) \in Tasks /\ Tail(pending) \in Seq(Tasks)
    BY <1>0, <1>6, HeadTailProperties DEF CancelTask, Types
  <2>2. pc' \in [Apps -> Call] /\ done' \in [Queues -> Seq(Tasks)]
    BY <1>0, <1>6, <2>1, DeliverTypes DEF CancelTask, Types
  <2> QED  BY <1>0, <1>6, <2>1, <2>2 DEF CancelTask, Types
<1>7. ASSUME NEW a \in Apps, StopPool(a) PROVE Types'
  BY <1>0, <1>7 DEF StopPool, Types, Roused, At, Call
<1>8. ASSUME NEW a \in Apps, QuitLooks(a) PROVE Types'
  BY <1>0, <1>8 DEF QuitLooks, Types, At, Call
<1>9. ASSUME NEW a \in Apps, NEW f \in Files, NEW q \in Queues, Request(a, f, q)
      PROVE  Types'
  BY <1>0, <1>9, NewTaskIs DEF Request, Types, At, Call
<1>10. ASSUME NEW a \in Apps, NEW f \in Files, NEW q \in Queues, Close(a, f, q)
       PROVE  Types'
  <2>1. PICK t \in Tasks :
          /\ task' = [task EXCEPT ![t] = NewTask(f, q)]
          /\ closing' = [closing EXCEPT ![f] = t]
          /\ \/ of' = [of EXCEPT ![f] = {} \cup {t}] /\ Submit(t, pc)
             \/ UNCHANGED <<pc, of, inflight, done, pending, pool, wpc>>
    BY <1>0, <1>10 DEF Close, StartClose
  <2>2. /\ pc' \in [Apps -> Call] /\ done' \in [Queues -> Seq(Tasks)]
        /\ pending' \in Seq(Tasks)
        /\ wpc' \in [Workers -> {"none", "round", "asleep", "woken", "expired",
                                 "took", "ran"}]
    BY <1>0, <2>1, SubmitTypes DEF Types
  <2>3. /\ task' \in [Tasks -> {Nothing} \cup [file : Files, queue : Queues]]
        /\ closing' \in [Files -> Tasks \cup {Nothing}]
        /\ of' \in [Files -> SUBSET Tasks]
    <3>1. task' \in [Tasks -> {Nothing} \cup [file : Files, queue : Queues]]
      BY <1>0, <2>1, NewTaskIs DEF Types
    <3>2. closing' \in [Files -> Tasks \cup {Nothing}]
      BY <1>0, <2>1 DEF Types
    <3>3. of' = of \/ of' = [of EXCEPT ![f] = {t}]
      BY <2>1
    <3>4. of' \in [Files -> SUBSET Tasks]
      BY <1>0, <3>3 DEF Types
    <3> QED  BY <3>1, <3>2, <3>4
  <2> QED  BY <1>0, <1>10, <2>2, <2>3 DEF Close, Types
<1>11. ASSUME NEW a \in Apps, Rouse(a) PROVE Types'
  BY <1>0, <1>11 DEF Rouse, Types, At, Call
<1>12. ASSUME NEW a \in Apps, Quit(a) PROVE Types'
  BY <1>0, <1>12 DEF Quit, Types, At, Call
<1>13. ASSUME NEW a \in Apps, NEW f \in Files, OpenFile(a, f) PROVE Types'
  BY <1>0, <1>13, PrepareTypes DEF OpenFile, Types, WorkersGoOn
<1>14. ASSUME NEW a \in Apps, NEW q \in Queues, CreateQueue(a, q) PROVE Types'
  <2>1. done' \in [Queues -> Seq(Tasks)]
    BY <1>0, <1>14 DEF CreateQueue, Types
  <2> QED  BY <1>0, <1>14, <2>1, PrepareTypes DEF CreateQueue, Types, WorkersGoOn
<1>15. ASSUME NEW a \in Apps, NEW q \in Queues, GetResult(a, q) PROVE Types'
  BY <1>0, <1>15, FetchTypes DEF GetResult, Types
<1>16. ASSUME NEW a \in Apps, NEW q \in Queues, WaitResult(a, q) PROVE Types'
  BY <1>0, <1>16 DEF WaitResult, FallAsleep, Types, At, Call
<1>17. ASSUME NEW a \in Apps, NEW q \in Queues, SignalQueue(a, q) PROVE Types'
  BY <1>0, <1>17 DEF SignalQueue, Types, Call
<1>18. ASSUME NEW a \in Apps, NEW q \in Queues, Destroy(a, q) PROVE Types'
  BY <1>0, <1>18 DEF Destroy, Types, At, Call
<1>19. ASSUME NEW w \in Workers, Round(w) PROVE Types'
  <2>1. pc' \in [Apps -> Call]
    BY <1>0, <1>19 DEF Round, QuitWoken, Types, Call
  <2>2. CASE UNCHANGED <<pending, work>>
    <3>1. wpc' \in [Workers -> {"none", "round", "asleep", "woken", "expired",
                                "took", "ran"}]
      BY <1>0, <1>19 DEF Round, Roused, Types
    <3> QED  BY <1>0, <1>19, <2>1, <2>2, <3>1 DEF Round, Types
  <2>3. CASE /\ pending # <<>> /\ pending' = Tail(pending)
             /\ work' = [work EXCEPT ![w] = Head(pending)]
             /\ wpc' = [wpc EXCEPT ![w] = "took"]
    <3>1. Head(pending) \in Tasks /\ Tail(pending) \in Seq(Tasks)
      BY <1>0, <2>3, HeadTailProperties DEF Types
    <3> QED  BY <1>0, <1>19, <2>1, <2>3, <3>1 DEF Round, Types
  <2> QED  BY <1>0, <1>19, <2>2, <2>3 DEF Round
<1>20. ASSUME NEW w \in Workers, RunTask(w) PROVE Types'
  BY <1>0, <1>20 DEF RunTask, Types
<1>21. ASSUME NEW w \in Workers, CompleteTask(w) PROVE Types'
  <2>1. work[w] \in Tasks
    BY <1>0, <1>21 DEF CompleteTask, Holders, Types
  <2>2. pc' \in [Apps -> Call] /\ done' \in [Queues -> Seq(Tasks)]
    BY <1>0, <1>21, <2>1, DeliverTypes DEF CompleteTask, Types
  <2> QED  BY <1>0, <1>21, <2>2 DEF CompleteTask, Types
<1>22. ASSUME NEW w \in Workers, Stir(w) PROVE Types'
  BY <1>0, <1>22 DEF Stir, Types
<1>23. CASE UNCHANGED vars
  BY <1>0, <1>23 DEF vars, Types
<1> QED  BY <1>1, <1>2, <1>3, <1>4, <1>5, <1>6, <1>7, <1>8, <1>9, <1>10, <1>11,
            <1>12, <1>13, <1>14, <1>15, <1>16, <1>17, <1>18, <1>19, <1>20, <1>21,
            <1>22, <1>23
         DEF Next, AppStep, Asks, WorkerStep

-----------------------------------------------------------------------------
(* The books                                                               *)

\* A block that is not in use is nowhere.
LEMMA FreeIs ==
    ASSUME TaskInv, NEW t \in Tasks, task[t] = Nothing
    PROVE  /\ t \notin Live /\ t # Nothing /\ ~Placed(t) /\ ~Listed(t)
           /\ \A a \in Apps : hand[a] # t
           /\ \A w \in Workers : work[w] # t
           /\ \A f \in Files : t \notin of[f] /\ closing[f] # t
<1>1. t \notin Live /\ t # Nothing
  BY AsyncIOAssumption DEF Live
<1>2. ~Placed(t)
  BY <1>1 DEF TaskInv, TaskFacts, Placing
<1>3. \A f \in Files : t \notin of[f] /\ closing[f] # t
  BY <1>1 DEF TaskInv, TaskFacts, Books
<1> QED  BY <1>1, <1>2, <1>3 DEF Placed, Held

\* A close that waits is nowhere either.
LEMMA WaitingIs ==
    ASSUME TaskInv, NEW f \in Files, closing[f] # Nothing, closing[f] \notin of[f]
    PROVE  /\ closing[f] \in Live /\ closing[f] \in Deferred
           /\ task[closing[f]].file = f
           /\ ~Placed(closing[f]) /\ ~Listed(closing[f])
           /\ \A a \in Apps : hand[a] # closing[f]
           /\ \A w \in Workers : work[w] # closing[f]
<1>1. closing[f] \in Live /\ task[closing[f]].file = f
  BY DEF TaskInv, TaskFacts, Books
<1>2. closing[f] \in Deferred
  BY <1>1 DEF Deferred
<1>3. ~Placed(closing[f])
  BY <1>1, <1>2 DEF TaskInv, TaskFacts, Placing, Live
<1> QED  BY <1>1, <1>2, <1>3 DEF Placed, Held

\* Nothing is on no list.
LEMMA NothingIsNowhere == ASSUME Types PROVE ~Listed(Nothing)
<1>1. Nothing \notin Range(pending)
  BY ListIs, AsyncIOAssumption DEF Types
<1>2. ASSUME NEW q \in Queues PROVE Nothing \notin Range(done[q])
  BY ListIs, AsyncIOAssumption DEF Types
<1> QED  BY <1>1, <1>2 DEF Listed

\* The books are those of the same tasks in the same places.
LEMMA SameBooks ==
    ASSUME TaskInv, UNCHANGED <<task, of, closing, inflight>>, files \subseteq files',
           \A t \in Tasks : (Placed(t))' <=> Placed(t),
           \A a \in Apps : pc'[a] \in {"queue", "drop"} =>
              pc[a] = pc'[a] /\ hand'[a] = hand[a],
           \A a \in Apps : pc[a] = "drop" => pc'[a] = "drop" /\ hand'[a] = hand[a]
    PROVE  Placing' /\ Books' /\ Counts'
<1>1. Live' = Live /\ Deferred' = Deferred
  BY DEF Live, Deferred
<1>2. Placing'
  BY <1>1 DEF TaskInv, TaskFacts, Placing
<1>3. \A q \in Queues : (Counted(q))' = Counted(q)
  BY <1>1 DEF Counted
<1>4. Counts'
  BY <1>3 DEF TaskInv, TaskFacts, Counts
<1>5. \A t : (Settled(t))' <=> Settled(t)
  BY DEF Settled
<1>6. /\ \A t \in Live', f \in Files :
            t \in of'[f] <=> task'[t].file = f /\ (Placed(t))' /\ ~(Settled(t))'
      /\ \A f \in Files : of'[f] \subseteq Live'
  BY <1>1, <1>5 DEF TaskInv, TaskFacts, Books, Live
<1>7. /\ \A f \in Files : of'[f] # {} => f \in files'
      /\ \A f \in Files : closing'[f] # Nothing =>
            /\ closing'[f] \in Live' /\ task'[closing'[f]].file = f
            /\ of'[f] # {}
            /\ closing'[f] \in of'[f] => of'[f] = {closing'[f]}
      /\ \A a \in Apps, f \in Files :
            pc'[a] \in {"queue", "drop"} /\ closing'[f] # Nothing
               => hand'[a] # closing'[f]
  BY <1>1 DEF TaskInv, TaskFacts, Books
<1> QED  BY <1>2, <1>4, <1>6, <1>7 DEF Books

\* Nobody takes a task or gives it away.
Still ==
    /\ UNCHANGED <<task, of, closing, shut, inflight, done, pending, hand, work>>
    /\ files \subseteq files'
    /\ \A b \in Apps : \/ pc'[b] = pc[b]
                       \/ /\ pc[b] \notin {"queue", "took", "drop"}
                          /\ pc'[b] \notin {"queue", "took", "drop"}
    /\ WorkersGoOn

\* Then all is as it was, but for who is in a call about which queue.
LEMMA StillTasks ==
    ASSUME TaskInv, Still, Owners'
    PROVE  TaskFacts'
<1>1. \A t : (Listed(t))' <=> Listed(t)
  BY DEF Still, Listed
<1>2. \A t : (Placed(t))' <=> Placed(t)
  BY <1>1 DEF Still, Placed, Held
<1>3. Lists'
  BY DEF Still, TaskInv, TaskFacts, Lists
<1>4. Holders'
  BY <1>1 DEF Still, TaskInv, TaskFacts, Holders, WorkersGoOn
<1>5. Placing' /\ Books' /\ Counts'
  BY <1>2, SameBooks DEF Still
<1>6. Shut'
  BY DEF Still, TaskInv, TaskFacts, Shut, WorkersGoOn
<1> QED  BY <1>3, <1>4, <1>5, <1>6 DEF TaskFacts

\* A task that was on no list is put on one.
LEMMA PutLists ==
    ASSUME Types, Lists, NEW t \in Tasks, ~Listed(t), Put(t),
           task'[t].queue \in Queues,
           \A s \in Tasks : Listed(s) => task'[s] = task[s]
    PROVE  Lists' /\ \A s : (Listed(s))' <=> Listed(s) \/ s = t
<1>1. /\ Range(pending) \subseteq Tasks
      /\ \A q \in Queues : Range(done[q]) \subseteq Tasks
  BY ListIs DEF Types
<1>2. CASE /\ Range(pending') = Range(pending) \cup {t}
           /\ \A q \in Queues : Range(done'[q]) = Range(done[q])
  <2>1. Lists'
    BY <1>1, <1>2 DEF Lists, Listed, Put
  <2>2. \A s : (Listed(s))' <=> Listed(s) \/ s = t
    BY <1>2 DEF Listed
  <2> QED  BY <2>1, <2>2
<1>3. CASE Range(pending') = Range(pending) /\ Delivered(t) /\ task'[t].queue \in Queues
  <2>1. Lists'
    BY <1>1, <1>3 DEF Lists, Listed, Put, Delivered
  <2>2. \A s : (Listed(s))' <=> Listed(s) \/ s = t
    BY <1>3 DEF Listed, Delivered
  <2> QED  BY <2>1, <2>2
<1> QED  BY <1>2, <1>3 DEF Put

-----------------------------------------------------------------------------
(* A task goes from one place to the next                                  *)

LEMMA QueueRequestStep ==
    ASSUME TaskInv, NEW a \in Apps, QueueRequest(a)
    PROVE  TaskFacts'
<1> DEFINE t == hand[a]
<1>1. /\ t \in Tasks /\ Placed(t) /\ ~Listed(t) /\ t # Nothing
      /\ task[t].queue \in Queues /\ pc[a] = "queue"
  BY HandIs, AsyncIOAssumption DEF QueueRequest
<1>2. Types /\ Lists /\ Holders /\ Books /\ Shut /\ Owners
  BY DEF TaskInv, TaskFacts
<1>3. /\ UNCHANGED <<task, of, closing, files, shut, inflight, queues, doomed, work>>
      /\ \A b \in Apps : hand'[b] = IF b = a THEN Nothing ELSE hand[b]
      /\ \A b \in Apps : target'[b] = IF b = a THEN Nothing ELSE target[b]
  BY <1>2 DEF QueueRequest, books, Types
<1>4. Put(t) /\ Stepped(At(a, "idle")) /\ WorkersGoOn
  <2>1. Steady(At(a, "idle")) /\ Submit(t, At(a, "idle"))
    BY <1>1, <1>2, SteadyAt DEF QueueRequest, Call
  <2> QED  BY <1>1, <1>2, <2>1, SubmitLists
<1>5. /\ \A b \in Apps : \/ pc'[b] = pc[b] /\ b # a
                         \/ b = a /\ pc'[b] = "idle"
                         \/ b # a /\ pc[b] = "asleep" /\ pc'[b] = "woken"
  BY <1>2, <1>4 DEF Stepped, Types, At
<1>6. Lists' /\ \A s : (Listed(s))' <=> Listed(s) \/ s = t
  BY <1>1, <1>2, <1>3, <1>4, PutLists
<1>7. ~Listed(Nothing)
  BY <1>2, NothingIsNowhere
<1>8. Holders'
  BY <1>1, <1>2, <1>3, <1>4, <1>5, <1>6, <1>7 DEF Holders, WorkersGoOn
<1>9. \A s \in Tasks : (Placed(s))' <=> Placed(s)
  <2>1. \A s \in Tasks : (Held(s))' \/ s = t <=> Held(s)
    BY <1>1, <1>3, AsyncIOAssumption DEF Held
  <2> QED  BY <1>1, <1>6, <2>1 DEF Placed
<1>10. Placing' /\ Books' /\ Counts'
  BY <1>1, <1>3, <1>5, <1>9, SameBooks
<1>11. Shut'
  <2>1. \A f \in shut : closing[f] # t
    BY <1>1, <1>2 DEF Books, Shut, Types
  <2>2. Range(pending') \subseteq Range(pending) \cup {t}
    BY <1>4 DEF Put
  <2> QED  BY <1>2, <1>3, <1>4, <2>1, <2>2 DEF Shut, WorkersGoOn
<1>12. Owners'
  <2>1. Live' = Live /\ \A f, q : (ClosesLate(f, q))' <=> ClosesLate(f, q)
    BY <1>3 DEF Live, ClosesLate
  <2>2. Nothing \notin doomed
    BY <1>2, AsyncIOAssumption DEF Types
  <2> QED  BY <1>1, <1>2, <1>3, <1>5, <2>1, <2>2 DEF Owners
<1> QED  BY <1>6, <1>8, <1>10, <1>11, <1>12 DEF TaskFacts

\* A worker that has run a task delivers it.
LEMMA CompleteTaskStep ==
    ASSUME TaskInv, NEW w \in Workers, CompleteTask(w)
    PROVE  TaskFacts'
<1> DEFINE t == work[w]
<1>1. /\ t \in Tasks /\ Placed(t) /\ ~Listed(t) /\ t # Nothing
      /\ task[t].queue \in Queues /\ wpc[w] = "ran"
  BY WorkIs, AsyncIOAssumption DEF CompleteTask
<1>2. Types /\ Lists /\ Holders /\ Books /\ Shut /\ Owners
  BY DEF TaskInv, TaskFacts
<1>3. /\ UNCHANGED <<task, of, closing, files, shut, inflight, queues, doomed>>
      /\ UNCHANGED <<hand, target, pending>>
      /\ \A v \in Workers : work'[v] = IF v = w THEN Nothing ELSE work[v]
      /\ \A v \in Workers : wpc'[v] = IF v = w THEN "round" ELSE wpc[v]
  BY <1>2 DEF CompleteTask, books, Types
<1>4. Delivered(t) /\ Stepped(pc)
  <2>1. Steady(pc)
    BY <1>2 DEF Steady, Types
  <2> QED  BY <1>1, <1>2, <2>1, DeliverLists DEF CompleteTask, Listed
<1>5. Put(t) /\ \A b \in Apps : \/ pc'[b] = pc[b]
                                \/ pc[b] = "asleep" /\ pc'[b] = "woken"
  BY <1>2, <1>3, <1>4 DEF Stepped, Put, Delivered, Types, Lists
<1>6. Lists' /\ \A s : (Listed(s))' <=> Listed(s) \/ s = t
  BY <1>1, <1>2, <1>3, <1>5, PutLists
<1>7. ~Listed(Nothing)
  BY <1>2, NothingIsNowhere
<1>8. Holders'
  BY <1>1, <1>2, <1>3, <1>5, <1>6, <1>7 DEF Holders
<1>9. \A s \in Tasks : (Placed(s))' <=> Placed(s)
  <2>1. \A s \in Tasks : (Held(s))' \/ s = t <=> Held(s)
    BY <1>1, <1>3, AsyncIOAssumption DEF Held
  <2> QED  BY <1>1, <1>6, <2>1 DEF Placed
<1>10. Placing' /\ Books' /\ Counts'
  BY <1>3, <1>5, <1>9, SameBooks
<1>11. Shut'
  BY <1>2, <1>3 DEF Shut
<1>12. Owners'
  <2>1. Live' = Live /\ \A f, q : (ClosesLate(f, q))' <=> ClosesLate(f, q)
    BY <1>3 DEF Live, ClosesLate
  <2> QED  BY <1>2, <1>3, <1>5, <2>1 DEF Owners
<1> QED  BY <1>6, <1>8, <1>10, <1>11, <1>12 DEF TaskFacts

\* Quitting takes the first task off the pool's list and delivers it.
LEMMA CancelTaskStep ==
    ASSUME TaskInv, NEW a \in Apps, CancelTask(a)
    PROVE  TaskFacts'
<1> DEFINE t == Head(pending)
<1>2. Types /\ Lists /\ Holders /\ Books /\ Shut /\ Owners
  BY DEF TaskInv, TaskFacts
<1>3. /\ UNCHANGED <<task, of, closing, files, shut, inflight, queues, doomed>>
      /\ UNCHANGED <<hand, target, work, wpc>>
  BY DEF CancelTask, books, workers
<1>1. /\ Taken(t) /\ Placed(t) /\ t \in Tasks /\ task[t].queue \in Queues
      /\ t \in Range(pending)
  <2>1. Taken(t)
    BY <1>2, TakeLists DEF CancelTask
  <2>2. t \in Tasks /\ t \in Range(pending) /\ Placed(t)
    BY <2>1 DEF Taken, Placed, Listed
  <2> QED  BY <2>1, <2>2, PlacedIs
<1>4. Delivered(t) /\ Stepped(pc)
  <2>1. Steady(pc)
    BY <1>2 DEF Steady, Types
  <2>2. \A q \in Queues : t \notin Range(done[q])
    BY <1>1, <1>2 DEF Lists
  <2> QED  BY <1>1, <1>2, <2>1, <2>2, DeliverLists DEF CancelTask
<1>5. \A b \in Apps : pc'[b] = pc[b] \/ (pc[b] = "asleep" /\ pc'[b] = "woken")
  BY <1>4 DEF Stepped
<1>6. Lists' /\ \A s : (Listed(s))' <=> Listed(s)
  <2>1. /\ Range(pending') = Range(pending) \ {t} /\ IsInjective(pending')
        /\ \A q \in Queues : Range(done'[q]) =
              IF q = task[t].queue THEN Range(done[q]) \cup {t} ELSE Range(done[q])
        /\ \A q \in Queues : IsInjective(done'[q])
    BY <1>1, <1>3, <1>4 DEF Taken, Delivered
  <2>2. ASSUME NEW q \in Queues
        PROVE  /\ Range(pending') \cap Range(done'[q]) = {}
               /\ \A s \in Range(done'[q]) : task'[s].queue = q
    <3>1. /\ Range(pending) \cap Range(done[q]) = {}
          /\ \A s \in Range(done[q]) : task[s].queue = q
      BY <1>2 DEF Lists
    <3>2. \/ Range(done'[q]) = Range(done[q]) \cup {t} /\ task[t].queue = q
          \/ Range(done'[q]) = Range(done[q])
      BY <2>1
    <3>3. t \notin Range(pending') /\ Range(pending') \subseteq Range(pending)
      BY <2>1
    <3> HIDE DEF t
    <3> QED  BY <1>3, <3>1, <3>2, <3>3
  <2>4. Lists'
    BY <2>1, <2>2 DEF Lists
  <2>3. \A s : (Listed(s))' <=> Listed(s)
    BY <1>1, <2>1 DEF Listed
  <2> QED  BY <2>3, <2>4
<1>8. Holders'
  BY <1>2, <1>3, <1>5, <1>6 DEF Holders
<1>9. \A s \in Tasks : (Placed(s))' <=> Placed(s)
  BY <1>3, <1>6 DEF Placed, Held
<1>10. Placing' /\ Books' /\ Counts'
  BY <1>3, <1>5, <1>9, SameBooks
<1>11. Shut'
  BY <1>1, <1>2, <1>3 DEF Shut, Taken
<1>12. Owners'
  <2>1. Live' = Live /\ \A f, q : (ClosesLate(f, q))' <=> ClosesLate(f, q)
    BY <1>3 DEF Live, ClosesLate
  <2> QED  BY <1>2, <1>3, <1>5, <2>1 DEF Owners
<1> QED  BY <1>6, <1>8, <1>10, <1>11, <1>12 DEF TaskFacts

\* A worker takes the first task of the pool.
LEMMA TakeTaskStep ==
    ASSUME TaskInv, NEW w \in Workers,
           wpc[w] \in {"round", "woken", "expired"},
           pending # <<>>, pending' = Tail(pending),
           work' = [work EXCEPT ![w] = Head(pending)],
           wpc' = [wpc EXCEPT ![w] = "took"],
           UNCHANGED <<pc, hand, target, books, lists>>
    PROVE  TaskFacts'
<1> DEFINE t == Head(pending)
<1>2. Types /\ Lists /\ Holders /\ Books /\ Shut /\ Owners
  BY DEF TaskInv, TaskFacts
<1>3. /\ UNCHANGED <<task, of, closing, files, shut, inflight, queues, doomed>>
      /\ UNCHANGED <<pc, hand, target, done>>
      /\ \A v \in Workers : work'[v] = IF v = w THEN t ELSE work[v]
      /\ \A v \in Workers : wpc'[v] = IF v = w THEN "took" ELSE wpc[v]
  BY <1>2 DEF books, lists, Types
<1>1. /\ Taken(t) /\ t \in Tasks /\ t # Nothing /\ t \in Range(pending)
      /\ Listed(t) /\ work[w] = Nothing
  <2>1. Taken(t)
    BY <1>2, TakeLists
  <2>2. t \in Tasks /\ t \in Range(pending) /\ work[w] = Nothing
    BY <1>2, <2>1 DEF Taken, Holders
  <2> QED  BY <2>1, <2>2, AsyncIOAssumption DEF Listed
<1>4. \A s : (Listed(s))' <=> Listed(s) /\ s # t
  <2>1. \A q \in Queues : t \notin Range(done[q])
    BY <1>1, <1>2 DEF Lists
  <2>2. Range(pending') = Range(pending) \ {t}
    BY <1>1 DEF Taken
  <2> QED  BY <1>3, <2>1, <2>2 DEF Listed
<1>6. Lists'
  BY <1>1, <1>2, <1>3 DEF Lists, Taken
<1>8. Holders'
  BY <1>1, <1>2, <1>3, <1>4 DEF Holders
<1>9. \A s \in Tasks : (Placed(s))' <=> Placed(s)
  <2>1. \A s \in Tasks : (Held(s))' <=> Held(s) \/ s = t
    BY <1>1, <1>3, AsyncIOAssumption DEF Held
  <2> QED  BY <1>1, <1>4, <2>1 DEF Placed
<1>10. Placing' /\ Books' /\ Counts'
  BY <1>3, <1>9, SameBooks
<1>11. Shut'
  BY <1>1, <1>2, <1>3 DEF Shut, Taken
<1>12. Owners'
  <2>1. Live' = Live /\ \A f, q : (ClosesLate(f, q))' <=> ClosesLate(f, q)
    BY <1>3 DEF Live, ClosesLate
  <2> QED  BY <1>2, <1>3, <2>1 DEF Owners
<1> QED  BY <1>6, <1>8, <1>10, <1>11, <1>12 DEF TaskFacts

\* Any call that fetches a result keeps the facts about tasks.
LEMMA FetchStep ==
    ASSUME TaskInv, NEW a \in Apps, NEW q \in queues, Fetch(a, q),
           pc[a] \in {"idle", "woken", "destroy"},
           target[a] = q \/ q \notin doomed,
           UNCHANGED <<books, queues, doomed, pending, workers>>
    PROVE  TaskFacts'
<1> DEFINE t == Head(done[q])
<1>2. Types /\ Lists /\ Holders /\ Books /\ Shut /\ Owners /\ q \in Queues
  BY DEF TaskInv, TaskFacts, Types
<1>3. UNCHANGED <<task, of, closing, files, shut, inflight, queues, doomed, pending, work, wpc>>
  BY DEF books, workers
<1>5. Fetched(a, q, t)
  BY <1>2, FetchLists
<1>1. /\ t \in Tasks /\ t # Nothing /\ t \in Range(done[q]) /\ Listed(t)
      /\ task[t].queue = q /\ hand[a] = Nothing
      /\ \A b \in Apps : hand'[b] = IF b = a THEN t ELSE hand[b]
      /\ \A b \in Apps : target'[b] = IF b = a THEN q ELSE target[b]
      /\ \A b \in Apps : pc'[b] = IF b = a THEN "took" ELSE pc[b]
  BY <1>2, <1>5, AsyncIOAssumption DEF Fetched, Listed, Lists, Holders
<1>4. \A s : (Listed(s))' <=> Listed(s) /\ s # t
  <2>1. t \notin Range(pending) /\ \A p \in Queues : p # q => t \notin Range(done[p])
    BY <1>1, <1>2 DEF Lists
  <2>2. \A p \in Queues : Range(done'[p]) =
           IF p = q THEN Range(done[p]) \ {t} ELSE Range(done[p])
    BY <1>5 DEF Fetched
  <2> QED  BY <1>2, <1>3, <2>1, <2>2 DEF Listed
<1>6. Lists'
  BY <1>1, <1>2, <1>3, <1>5 DEF Lists, Fetched
<1>8. Holders'
  BY <1>1, <1>2, <1>3, <1>4 DEF Holders
<1>9. \A s \in Tasks : (Placed(s))' <=> Placed(s)
  <2>1. \A s \in Tasks : (Held(s))' <=> Held(s) \/ s = t
    BY <1>1, <1>3, AsyncIOAssumption DEF Held
  <2> QED  BY <1>1, <1>4, <2>1 DEF Placed
<1>10. Placing' /\ Books' /\ Counts'
  BY <1>1, <1>3, <1>9, SameBooks
<1>11. Shut'
  BY <1>2, <1>3 DEF Shut
<1>12. Owners'
  <2>1. Live' = Live /\ \A f, p : (ClosesLate(f, p))' <=> ClosesLate(f, p)
    BY <1>3 DEF Live, ClosesLate
  <2>2. q # Nothing
    BY <1>2, AsyncIOAssumption
  <2> QED  BY <1>1, <1>2, <1>3, <2>1, <2>2 DEF Owners
<1> QED  BY <1>6, <1>8, <1>10, <1>11, <1>12 DEF TaskFacts

-----------------------------------------------------------------------------
(* Steps that leave every task where it is                                 *)

\* Closes that wait are the same if files and tasks are.
LEMMA SameClosesLate ==
    ASSUME UNCHANGED <<task, of, closing>>
    PROVE  Live' = Live /\ \A f, q : (ClosesLate(f, q))' <=> ClosesLate(f, q)
BY DEF Live, ClosesLate

\* A thread that sleeps, or is in no call, or shuts the pool down.
LEMMA QuietStep ==
    ASSUME TaskInv, WorkersGoOn, files \subseteq files',
           UNCHANGED <<hand, target, task, of, closing, shut, inflight, lists,
                       pending, work>>,
           \A b \in Apps :
              \/ pc'[b] = pc[b]
              \/ pc[b] = "asleep" /\ pc'[b] = "woken"
              \/ /\ pc[b] \in {"idle", "cancel", "quit", "quitting"}
                 /\ pc'[b] \in {"idle", "cancel", "quit", "quitting"}
    PROVE  TaskFacts'
<1>1. Still
  BY DEF Still, lists
<1>2. Owners'
  BY SameClosesLate DEF lists, TaskInv, TaskFacts, Owners
<1> QED  BY <1>1, <1>2, StillTasks

\* Any call that falls asleep on a queue does too.
LEMMA FallAsleepStep ==
    ASSUME TaskInv, NEW a \in Apps, NEW q \in queues, FallAsleep(a, q),
           pc[a] \in {"idle", "destroy"},
           target[a] = q \/ q \notin doomed,
           UNCHANGED <<books, queues, doomed, pending, workers>>
    PROVE  TaskFacts'
<1>1. /\ \A b \in Apps : target'[b] = IF b = a THEN q ELSE target[b]
      /\ \A b \in Apps : pc'[b] = IF b = a THEN "asleep" ELSE pc[b]
      /\ UNCHANGED <<hand, done>>
  BY DEF FallAsleep, At, TaskInv, Types
<1>2. UNCHANGED <<task, of, closing, files, shut, inflight, queues, doomed,
                  pending, work, wpc>>
  BY DEF books, workers
<1>3. Still
  BY <1>1, <1>2 DEF Still, WorkersGoOn, TaskInv, Types
<1>4. hand[a] = Nothing /\ q # Nothing
  BY AsyncIOAssumption DEF TaskInv, TaskFacts, Holders, Types
<1>5. Owners'
  BY <1>1, <1>2, <1>4, SameClosesLate DEF TaskInv, TaskFacts, Owners
<1> QED  BY <1>3, <1>5, StillTasks

\* A sleeper that was woken fetches a result or returns without one.
LEMMA WakeStep ==
    ASSUME TaskInv, NEW a \in Apps, Wake(a)
    PROVE  TaskFacts'
<1>1. /\ target[a] \in queues /\ target[a] # Nothing /\ pc[a] = "woken"
      /\ hand[a] = Nothing
  BY DEF Wake, TaskInv, TaskFacts, Owners, Holders
<1>2. UNCHANGED <<books, queues, doomed, pending, workers>>
  BY DEF Wake, workers
<1>3. CASE Fetch(a, target[a])
  BY <1>1, <1>2, <1>3, FetchStep
<1>4. CASE Return(a) /\ UNCHANGED <<hand, done>>
  <2>1. /\ \A b \in Apps : target'[b] = IF b = a /\ target[a] \notin doomed THEN Nothing
                                        ELSE target[b]
        /\ \A b \in Apps : pc'[b] = IF b # a THEN pc[b]
                                    ELSE IF target[a] \in doomed THEN "destroy"
                                    ELSE "idle"
    BY <1>4 DEF Return, At, TaskInv, Types
  <2>2. UNCHANGED <<task, of, closing, files, shut, inflight, queues, doomed,
                    pending, work, wpc>>
    BY <1>2 DEF books, workers
  <2>3. Still
    BY <1>1, <1>4, <2>1, <2>2 DEF Still, WorkersGoOn, TaskInv, Types
  <2>4. Nothing \notin doomed
    BY AsyncIOAssumption DEF TaskInv, Types
  <2>5. Owners'
    BY <1>1, <1>4, <2>1, <2>2, <2>4, SameClosesLate DEF TaskInv, TaskFacts, Owners
  <2> QED  BY <2>3, <2>5, StillTasks
<1> QED  BY <1>3, <1>4 DEF Wake

\* Nobody else is in a call about the queue, and no close waits for it.
LEMMA DestroyStep ==
    ASSUME TaskInv, ~ForeignClose, NEW a \in Apps, NEW q \in Queues, Destroy(a, q)
    PROVE  TaskFacts'
<1>1. /\ \A b \in Apps : target'[b] = IF b = a THEN q ELSE target[b]
      /\ \A b \in Apps : pc'[b] = IF b = a THEN "destroy" ELSE pc[b]
      /\ doomed' = doomed \cup {q} /\ q \in queues /\ pc[a] = "idle"
      /\ \A b \in Apps : target[b] # q
      /\ \A f \in Files : ~ClosesLate(f, q)
  BY DEF Destroy, At, TaskInv, Types
<1>2. UNCHANGED <<task, of, closing, files, shut, inflight, hand, done, queues,
                  pending, work, wpc>>
  BY DEF Destroy, books, workers
<1>3. Still
  BY <1>1, <1>2 DEF Still, WorkersGoOn, TaskInv, Types
<1>4. hand[a] = Nothing /\ q # Nothing
  BY <1>1, AsyncIOAssumption DEF TaskInv, TaskFacts, Holders
<1>5. Owners'
  BY <1>1, <1>2, <1>4, SameClosesLate DEF TaskInv, TaskFacts, Owners
<1> QED  BY <1>3, <1>5, StillTasks

\* A queue that counts no task and is waited for by no close has none.
LEMMA EmptyQueue ==
    ASSUME TaskInv, NEW q \in Queues, inflight[q] = 0,
           \A f \in Files : ~ClosesLate(f, q)
    PROVE  \A t \in Live : task[t].queue # q
<1>1. Counted(q) = {}
  <2>1. IsFiniteSet(Counted(q))
    <3>1. Counted(q) \subseteq Tasks
      BY DEF Counted, Live
    <3> QED  BY <3>1, AsyncIOAssumption, FS_Subset
  <2>2. Cardinality(Counted(q)) = 0
    BY DEF TaskInv, TaskFacts, Counts
  <2> QED  BY <2>1, <2>2, FS_EmptySet
<1>2. ASSUME NEW t \in Live, task[t].queue = q PROVE FALSE
  <2> DEFINE f == task[t].file
  <2>1. t \in Deferred /\ t \in Tasks
    BY <1>1, <1>2 DEF Counted, Live
  <2>2. f \in Files /\ closing[f] = t /\ t \notin of[f] /\ t # Nothing
    BY <2>1, LiveIs DEF Deferred, TaskInv
  <2>3. PICK s \in of[f] : TRUE
    BY <2>2 DEF TaskInv, TaskFacts, Books
  <2>4. s \in Live /\ s \in Tasks /\ Placed(s)
    BY <2>2, <2>3 DEF TaskInv, TaskFacts, Books, Live
  <2>5. s \notin Deferred
    BY <2>4, PlacedIs
  <2>6. task[s].queue = q
    BY <1>2, <2>2, <2>3 DEF ClosesLate
  <2>7. s \in Counted(q)
    BY <2>4, <2>5, <2>6 DEF Counted
  <2> QED  BY <1>1, <2>7
<1> QED  BY <1>2

\* A look of the destroying call fetches, sleeps or frees the queue.
LEMMA DestroyLooksStep ==
    ASSUME TaskInv, NEW a \in Apps, DestroyLooks(a)
    PROVE  TaskFacts'
<1> DEFINE q == target[a]
<1>1. /\ q \in queues /\ q \in Queues /\ q \in doomed /\ q # Nothing
      /\ pc[a] = "destroy" /\ hand[a] = Nothing
  BY DEF DestroyLooks, TaskInv, TaskFacts, Types, Owners, Holders
<1>2. UNCHANGED <<books, pending, workers>>
  BY DEF DestroyLooks, workers
<1>3. CASE Fetch(a, q) /\ UNCHANGED <<queues, doomed>>
  BY <1>1, <1>2, <1>3, FetchStep
<1>4. CASE FallAsleep(a, q) /\ UNCHANGED <<queues, doomed>>
  BY <1>1, <1>2, <1>4, FallAsleepStep
<1>5. CASE /\ NothingInflight(q)
           /\ queues' = queues \ {q} /\ doomed' = doomed \ {q}
           /\ target' = [target EXCEPT ![a] = Nothing]
           /\ pc' = At(a, "idle")
           /\ UNCHANGED <<hand, done>>
  <2>1. /\ \A b \in Apps : target'[b] = IF b = a THEN Nothing ELSE target[b]
        /\ \A b \in Apps : pc'[b] = IF b = a THEN "idle" ELSE pc[b]
    BY <1>5 DEF At, TaskInv, Types
  <2>2. UNCHANGED <<task, of, closing, files, shut, inflight, pending, work, wpc>>
    BY <1>2 DEF books, workers
  <2>3. Still
    BY <1>1, <1>5, <2>1, <2>2 DEF Still, WorkersGoOn, TaskInv, Types
  <2>4. \A t \in Live : task[t].queue # q
    <3>1. \A f \in Files : ~ClosesLate(f, q)
      BY <1>1 DEF TaskInv, TaskFacts, Owners
    <3> QED  BY <1>1, <1>5, <3>1, EmptyQueue DEF NothingInflight
  <2>5. Nothing \notin doomed /\ \A b \in Apps : b # a => target[b] # q
    BY <1>1, AsyncIOAssumption DEF TaskInv, TaskFacts, Types, Owners
  <2>6. Owners'
    BY <1>1, <1>5, <2>1, <2>2, <2>4, <2>5, SameClosesLate DEF TaskInv, TaskFacts, Owners
  <2> QED  BY <2>3, <2>6, StillTasks
<1> QED  BY <1>3, <1>4, <1>5 DEF DestroyLooks

\* No task is left of the time the queue was there before.
LEMMA CreateQueueStep ==
    ASSUME TaskInv, NEW a \in Apps, NEW q \in Queues, CreateQueue(a, q)
    PROVE  TaskFacts'
<1>1. q \notin queues /\ \A t \in Live : task[t].queue # q
  BY DEF CreateQueue, TaskInv, TaskFacts, Owners
<1>2. done[q] = <<>>
  <2>1. ASSUME NEW t \in Range(done[q]) PROVE FALSE
    <3>1. t \in Tasks /\ Placed(t) /\ task[t].queue = q
      BY ListIs DEF TaskInv, TaskFacts, Types, Lists, Placed, Listed
    <3> QED  BY <1>1, <3>1, PlacedIs
  <2> QED  BY <2>1, ListIs DEF TaskInv, Types
<1>3. inflight[q] = 0
  <2>1. Counted(q) = {}
    BY <1>1 DEF Counted
  <2> QED  BY <2>1, FS_EmptySet DEF TaskInv, TaskFacts, Counts
<1>4. done' = done /\ inflight' = inflight
  BY <1>2, <1>3 DEF CreateQueue, TaskInv, TaskFacts, Types, Counts
<1>5. /\ UNCHANGED <<pc, hand, target, task, of, closing, files, shut, doomed,
                     pending, work>>
      /\ queues' = queues \cup {q} /\ WorkersGoOn
  BY PrepareTypes DEF CreateQueue, app, TaskInv
<1>6. Still
  BY <1>4, <1>5 DEF Still
<1>7. Owners'
  BY <1>1, <1>5, SameClosesLate DEF TaskInv, TaskFacts, Owners
<1> QED  BY <1>6, <1>7, StillTasks

-----------------------------------------------------------------------------
(* Steps that change the books                                             *)

\* The tasks a queue counts can be counted.
LEMMA CountedIs ==
    ASSUME NEW q
    PROVE  IsFiniteSet(Counted(q)) /\ Cardinality(Counted(q)) \in Nat
<1>1. Counted(q) \subseteq Tasks
  BY DEF Counted, Live
<1> QED  BY <1>1, AsyncIOAssumption, FS_Subset, FS_CardinalityType

\* One more is counted by queue q.
LEMMA CountMore ==
    ASSUME Counts, NEW q \in Queues, NEW t, t \notin Counted(q),
           inflight' = [inflight EXCEPT ![q] = @ + 1],
           \A p \in Queues : (Counted(p))' =
              IF p = q THEN Counted(p) \cup {t} ELSE Counted(p)
    PROVE  Counts'
<1>1. /\ \A p \in Queues : inflight'[p] = IF p = q THEN inflight[p] + 1 ELSE inflight[p]
      /\ inflight' \in [Queues -> Nat]
  BY DEF Counts
<1>2. Cardinality(Counted(q) \cup {t}) = Cardinality(Counted(q)) + 1
  BY CountedIs, OneMore
<1>3. ASSUME NEW p \in Queues PROVE inflight'[p] = Cardinality((Counted(p))')
  <2>1. CASE p = q
    BY <1>1, <1>2, <2>1 DEF Counts
  <2>2. CASE p # q
    BY <1>1, <2>2 DEF Counts
  <2> QED  BY <2>1, <2>2
<1> QED  BY <1>1, <1>3 DEF Counts

\* The same number of tasks is counted.
LEMMA CountSame ==
    ASSUME Counts, inflight' = inflight,
           \A p \in Queues : (Counted(p))' = Counted(p)
    PROVE  Counts'
BY DEF Counts

\* A read or write is entered into the books before it is queued.
LEMMA RequestStep ==
    ASSUME TaskInv, NEW a \in Apps, NEW f \in Files, NEW q \in Queues,
           Request(a, f, q)
    PROVE  TaskFacts'
<1>1. PICK t \in Tasks :
         /\ task[t] = Nothing
         /\ task' = [task EXCEPT ![t] = NewTask(f, q)]
         /\ of' = [of EXCEPT ![f] = @ \cup {t}]
         /\ hand' = [hand EXCEPT ![a] = t]
  BY DEF Request
<1>2. Types /\ Lists /\ Holders /\ Placing /\ Books /\ Shut /\ Owners /\ Counts
  BY DEF TaskInv, TaskFacts
<1>3. /\ UNCHANGED <<closing, files, shut, done, queues, doomed, pending, work, wpc>>
      /\ \A s \in Tasks : task'[s] = IF s = t THEN NewTask(f, q) ELSE task[s]
      /\ \A g \in Files : of'[g] = IF g = f THEN of[g] \cup {t} ELSE of[g]
      /\ \A b \in Apps : hand'[b] = IF b = a THEN t ELSE hand[b]
      /\ \A b \in Apps : target'[b] = IF b = a THEN q ELSE target[b]
      /\ \A b \in Apps : pc'[b] = IF b = a THEN "queue" ELSE pc[b]
  BY <1>1, <1>2 DEF Request, lists, workers, At, Types
<1>4. /\ t \notin Live /\ t # Nothing /\ ~Placed(t) /\ ~Listed(t)
      /\ \A b \in Apps : hand[b] # t
      /\ \A w \in Workers : work[w] # t
      /\ \A g \in Files : t \notin of[g] /\ closing[g] # t
  BY <1>1, FreeIs
<1>5. /\ pc[a] = "idle" /\ f \in files /\ closing[f] = Nothing
      /\ q \in queues /\ q \notin doomed /\ hand[a] = Nothing
      /\ inflight' = [inflight EXCEPT ![q] = @ + 1]
  BY <1>2 DEF Request, MayUse, Holders
<1>6. /\ NewTask(f, q) # Nothing
      /\ NewTask(f, q).file = f /\ NewTask(f, q).queue = q
  BY NewTaskIs
<1>7. Live' = Live \cup {t} /\ Live \subseteq Tasks
  BY <1>3, <1>4, <1>6 DEF Live
<1>8. Deferred' = Deferred
  <2>1. ASSUME NEW s \in Live PROVE s \in Deferred' <=> s \in Deferred
    <3>1. task'[s] = task[s] /\ task[s].file \in Files /\ s \in Tasks /\ s # Nothing
      BY <1>2, <1>3, <1>4, <1>7, LiveIs
    <3>2. s # t /\ s \in Live'
      BY <1>4, <1>7
    <3>3. closing'[task'[s].file] = closing[task[s].file]
      BY <1>3, <3>1
    <3>4. s \in of'[task'[s].file] <=> s \in of[task[s].file]
      <4>1. \A g \in Files : s \in of'[g] <=> s \in of[g]
        BY <1>3, <3>2
      <4> QED  BY <3>1, <4>1
    <3> QED  BY <3>2, <3>3, <3>4 DEF Deferred
  <2>2. t \notin Deferred'
    BY <1>3, <1>4, <1>6 DEF Deferred
  <2> QED  BY <1>7, <2>1, <2>2 DEF Deferred
<1>9. \A s : (Listed(s))' <=> Listed(s)
  BY <1>3 DEF Listed
<1>10. \A s \in Tasks : (Placed(s))' <=> Placed(s) \/ s = t
  <2>1. \A s \in Tasks : (Held(s))' <=> Held(s) \/ s = t
    BY <1>3, <1>5, AsyncIOAssumption DEF Held
  <2> QED  BY <1>9, <2>1 DEF Placed
<1>11. \A s : (Settled(s))' <=> Settled(s)
  BY <1>3, <1>5 DEF Settled
<1>12. Lists'
  <2>1. /\ Range(pending) \subseteq Tasks
        /\ \A p \in Queues : Range(done[p]) \subseteq Tasks
    BY <1>2, ListIs DEF Types
  <2> QED  BY <1>2, <1>3, <1>4, <2>1 DEF Lists, Listed
<1>13. Holders'
  BY <1>2, <1>3, <1>4, <1>9 DEF Holders
<1>14. Placing'
  BY <1>2, <1>4, <1>7, <1>8, <1>10 DEF Placing, Deferred
<1>15. Books'
  <2>1. ASSUME NEW s \in Live', NEW g \in Files
        PROVE  s \in of'[g] <=> task'[s].file = g /\ (Placed(s))' /\ ~(Settled(s))'
    <3>1. CASE s = t
      <4>1. ~Settled(t)
        BY <1>4 DEF Settled
      <4> QED  BY <1>1, <1>3, <1>4, <1>6, <1>10, <1>11, <3>1, <4>1
    <3>2. CASE s # t
      <4>1. s \in Live /\ s \in Tasks /\ task'[s] = task[s]
        BY <1>3, <1>7, <3>2
      <4>2. s \in of[g] <=> task[s].file = g /\ Placed(s) /\ ~Settled(s)
        BY <1>2, <4>1 DEF Books
      <4>3. s \in of'[g] <=> s \in of[g]
        BY <1>3, <3>2
      <4> QED  BY <1>10, <1>11, <3>2, <4>1, <4>2, <4>3
    <3> QED  BY <3>1, <3>2
  <2>2. /\ \A g \in Files : of'[g] \subseteq Live'
        /\ \A g \in Files : of'[g] # {} => g \in files'
    <3>1. \A g \in Files : of[g] \subseteq Live /\ (of[g] # {} => g \in files)
      BY <1>2 DEF Books
    <3> QED  BY <1>3, <1>5, <1>7, <3>1
  <2>3. ASSUME NEW g \in Files, closing'[g] # Nothing
        PROVE  /\ closing'[g] \in Live' /\ task'[closing'[g]].file = g
               /\ of'[g] # {}
               /\ closing'[g] \in of'[g] => of'[g] = {closing'[g]}
    <3>1. g # f /\ closing'[g] = closing[g] /\ of'[g] = of[g]
      BY <1>3, <1>5, <2>3
    <3> QED  BY <1>2, <1>3, <1>4, <1>7, <2>3, <3>1 DEF Books
  <2>4. \A b \in Apps, g \in Files :
           pc'[b] \in {"queue", "drop"} /\ closing'[g] # Nothing
              => hand'[b] # closing'[g]
    BY <1>2, <1>3, <1>4 DEF Books
  <2> QED  BY <2>1, <2>2, <2>3, <2>4 DEF Books
<1>16. Shut'
  BY <1>2, <1>3, <1>5 DEF Shut, Types
<1>17. Owners'
  <2>1. ASSUME NEW d \in doomed, NEW g \in Files PROVE ~(ClosesLate(g, d))'
    <3>1. CASE closing[g] = Nothing
      BY <1>3, <3>1 DEF ClosesLate
    <3>2. CASE closing[g] # Nothing
      <4>1. /\ g # f /\ of'[g] = of[g] /\ closing'[g] = closing[g]
            /\ task'[closing[g]] = task[closing[g]]
            /\ \A s \in of[g] : task'[s] = task[s]
        <5>1. g # f /\ of'[g] = of[g] /\ closing'[g] = closing[g]
          BY <1>3, <1>5, <3>2
        <5>2. closing[g] \in Live /\ of[g] \subseteq Live
          BY <1>2, <3>2 DEF Books
        <5>3. \A s \in Live : task'[s] = task[s]
          BY <1>3, <1>4, <1>7
        <5> QED  BY <5>1, <5>2, <5>3
      <4>2. ~ClosesLate(g, d)
        BY <1>2 DEF Owners
      <4> QED  BY <4>1, <4>2 DEF ClosesLate
    <3> QED  BY <3>1, <3>2
  <2>2. q # Nothing /\ t \in Tasks
    BY <1>1, AsyncIOAssumption
  <2>3. \A s \in Live' : task'[s].queue \in queues'
    BY <1>2, <1>3, <1>5, <1>6, <1>7 DEF Owners
  <2>4. \A b \in Apps : hand'[b] # Nothing => task'[hand'[b]].queue = target'[b]
    <3>1. ASSUME NEW b \in Apps, b # a, hand[b] # Nothing
          PROVE  task'[hand[b]] = task[hand[b]]
      BY <1>2, <1>3, <1>4, <3>1 DEF Types
    <3> QED  BY <1>2, <1>3, <1>6, <2>2, <3>1 DEF Owners
  <2> QED  BY <1>2, <1>3, <1>5, <2>1, <2>2, <2>3, <2>4 DEF Owners
<1>18. Counts'
  <2>1. t \notin Counted(q)
    BY <1>4 DEF Counted
  <2>2. ASSUME NEW p \in Queues
        PROVE  (Counted(p))' = IF p = q THEN Counted(p) \cup {t} ELSE Counted(p)
    <3>1. t \notin Deferred
      BY <1>4 DEF Deferred
    <3>2. \A s \in Live : task'[s] = task[s]
      BY <1>3, <1>4, <1>7
    <3> QED  BY <1>1, <1>3, <1>4, <1>6, <1>7, <1>8, <3>1, <3>2 DEF Counted
  <2> QED  BY <1>2, <1>5, <2>1, <2>2, CountMore
<1> QED  BY <1>12, <1>13, <1>14, <1>15, <1>16, <1>17, <1>18 DEF TaskFacts

\* The close of a file is asked for, and goes to the pool at once.
LEMMA CloseNowStep ==
    ASSUME TaskInv, NEW f \in Files, NEW q \in Queues, NEW t \in Tasks,
           MayUse(f, q), task[t] = Nothing, of[f] = {},
           task' = [task EXCEPT ![t] = NewTask(f, q)],
           closing' = [closing EXCEPT ![f] = t],
           StartClose(t, f, {}, pc),
           UNCHANGED <<hand, target, files, shut, queues, doomed, work>>
    PROVE  TaskFacts'
<1>2. Types /\ Lists /\ Holders /\ Placing /\ Books /\ Shut /\ Owners /\ Counts
  BY DEF TaskInv, TaskFacts
<1>4. /\ t \notin Live /\ t # Nothing /\ ~Placed(t) /\ ~Listed(t)
      /\ \A b \in Apps : hand[b] # t
      /\ \A w \in Workers : work[w] # t
      /\ \A g \in Files : t \notin of[g] /\ closing[g] # t
  BY FreeIs
<1>5. /\ f \in files /\ closing[f] = Nothing /\ q \in queues /\ q \notin doomed
  BY DEF MayUse
<1>6. /\ NewTask(f, q) # Nothing
      /\ NewTask(f, q).file = f /\ NewTask(f, q).queue = q
  BY NewTaskIs
<1>3. /\ \A s \in Tasks : task'[s] = IF s = t THEN NewTask(f, q) ELSE task[s]
      /\ \A g \in Files : closing'[g] = IF g = f THEN t ELSE closing[g]
      /\ \A g \in Files : of'[g] = IF g = f THEN {t} ELSE of[g]
      /\ inflight' = [inflight EXCEPT ![q] = @ + 1]
  <2>1. /\ \A s \in Tasks : task'[s] = IF s = t THEN NewTask(f, q) ELSE task[s]
        /\ \A g \in Files : closing'[g] = IF g = f THEN t ELSE closing[g]
        /\ \A g \in Files : of'[g] = IF g = f THEN {t} ELSE of[g]
    BY <1>2 DEF Types, StartClose
  <2>2. task'[t].queue = q
    BY <1>6, <2>1
  <2> QED  BY <2>1, <2>2 DEF StartClose
<1>7. Live' = Live \cup {t} /\ Live \subseteq Tasks
  BY <1>3, <1>4, <1>6 DEF Live
<1>8. \A s \in Live : s # t /\ s \in Live' /\ s \in Tasks /\ task'[s] = task[s]
  BY <1>3, <1>4, <1>7
<1>9. Put(t) /\ WorkersGoOn
      /\ \A b \in Apps : pc'[b] = pc[b] \/ (pc[b] = "asleep" /\ pc'[b] = "woken")
  <2>1. Steady(pc)
    BY <1>2 DEF Steady, Types
  <2> QED  BY <1>2, <1>4, <2>1, SubmitLists DEF StartClose, Stepped
<1>10. Deferred' = Deferred
  <2>1. ASSUME NEW s \in Live PROVE s \in Deferred' <=> s \in Deferred
    <3>1. task'[s] = task[s] /\ task[s].file \in Files /\ s # Nothing /\ s # t
      BY <1>2, <1>8, LiveIs
    <3>2. \A g \in Files : closing'[g] = s /\ s \notin of'[g] <=>
             closing[g] = s /\ s \notin of[g]
      BY <1>3, <1>5, <3>1
    <3> QED  BY <1>8, <3>1, <3>2 DEF Deferred
  <2>2. t \notin Deferred'
    BY <1>3, <1>6 DEF Deferred
  <2> QED  BY <1>7, <2>1, <2>2 DEF Deferred
<1>11. Lists' /\ \A s : (Listed(s))' <=> Listed(s) \/ s = t
  <2>1. \A s \in Tasks : Listed(s) => task'[s] = task[s]
    BY <1>3, <1>4
  <2>2. task'[t].queue \in Queues
    BY <1>3, <1>6
  <2> QED  BY <1>2, <1>4, <1>9, <2>1, <2>2, PutLists
<1>12. \A s \in Tasks : (Placed(s))' <=> Placed(s) \/ s = t
  BY <1>11 DEF Placed, Held
<1>13. \A s : (Settled(s))' <=> Settled(s)
  BY <1>9 DEF Settled
<1>14. Holders'
  BY <1>2, <1>4, <1>9, <1>11 DEF Holders, WorkersGoOn
<1>15. Placing'
  BY <1>2, <1>4, <1>7, <1>10, <1>12 DEF Placing, Deferred
<1>16. Books'
  <2>1. ASSUME NEW s \in Live', NEW g \in Files
        PROVE  s \in of'[g] <=> task'[s].file = g /\ (Placed(s))' /\ ~(Settled(s))'
    <3>1. CASE s = t
      <4>1. ~Settled(t)
        BY <1>4 DEF Settled
      <4> QED  BY <1>3, <1>4, <1>6, <1>12, <1>13, <3>1, <4>1
    <3>2. CASE s # t
      <4>1. s \in Live /\ s \in Tasks /\ task'[s] = task[s]
        BY <1>7, <1>8, <3>2
      <4>2. s \in of[g] <=> task[s].file = g /\ Placed(s) /\ ~Settled(s)
        BY <1>2, <4>1 DEF Books
      <4>3. s \in of'[g] <=> s \in of[g]
        BY <1>3, <3>2
      <4> QED  BY <1>12, <1>13, <3>2, <4>1, <4>2, <4>3
    <3> QED  BY <3>1, <3>2
  <2>2. /\ \A g \in Files : of'[g] \subseteq Live'
        /\ \A g \in Files : of'[g] # {} => g \in files'
    <3>1. \A g \in Files : of[g] \subseteq Live /\ (of[g] # {} => g \in files)
      BY <1>2 DEF Books
    <3> QED  BY <1>3, <1>5, <1>7, <3>1
  <2>3. ASSUME NEW g \in Files, closing'[g] # Nothing
        PROVE  /\ closing'[g] \in Live' /\ task'[closing'[g]].file = g
               /\ of'[g] # {}
               /\ closing'[g] \in of'[g] => of'[g] = {closing'[g]}
    <3>1. CASE g = f
      BY <1>3, <1>6, <1>7, <3>1
    <3>2. CASE g # f
      <4>1. closing'[g] = closing[g] /\ of'[g] = of[g]
        BY <1>3, <3>2
      <4> QED  BY <1>2, <1>8, <2>3, <4>1 DEF Books
    <3> QED  BY <3>1, <3>2
  <2>4. \A b \in Apps, g \in Files :
           pc'[b] \in {"queue", "drop"} /\ closing'[g] # Nothing
              => hand'[b] # closing'[g]
    BY <1>2, <1>3, <1>4, <1>9 DEF Books
  <2> QED  BY <2>1, <2>2, <2>3, <2>4 DEF Books
<1>17. Shut'
  <2>1. \A g \in shut : g \in Files /\ g # f /\ closing'[g] = closing[g] /\ of'[g] = of[g]
    BY <1>2, <1>3, <1>5 DEF Shut, Types
  <2>2. /\ Range(pending') \subseteq Range(pending) \cup {t}
        /\ \A g \in shut : closing[g] # t
    BY <1>2, <1>4, <1>9 DEF Put, Types
  <2> QED  BY <1>2, <1>9, <2>1, <2>2 DEF Shut, WorkersGoOn
<1>18. Owners'
  <2>1. ASSUME NEW d \in doomed, NEW g \in Files PROVE ~(ClosesLate(g, d))'
    <3>1. CASE g = f
      <4>1. closing'[g] = t /\ task'[t].queue = q /\ d # q
        BY <1>3, <1>5, <1>6, <3>1
      <4> QED  BY <4>1 DEF ClosesLate
    <3>2. CASE g # f
      <4>1. of'[g] = of[g] /\ closing'[g] = closing[g]
        BY <1>3, <3>2
      <4>2. closing[g] # Nothing => closing[g] \in Live /\ of[g] \subseteq Live
        BY <1>2 DEF Books
      <4>3. ~ClosesLate(g, d)
        BY <1>2 DEF Owners
      <4> QED  BY <1>8, <4>1, <4>2, <4>3 DEF ClosesLate
    <3> QED  BY <3>1, <3>2
  <2>2. \A s \in Live' : task'[s].queue \in queues'
    BY <1>2, <1>3, <1>5, <1>6, <1>7, <1>8 DEF Owners
  <2>3. \A b \in Apps : hand'[b] # Nothing => task'[hand'[b]].queue = target'[b]
    <3>1. ASSUME NEW b \in Apps, hand[b] # Nothing
          PROVE  task'[hand[b]] = task[hand[b]]
      BY <1>2, <1>3, <1>4, <3>1 DEF Types
    <3> QED  BY <1>2, <3>1 DEF Owners
  <2> QED  BY <1>2, <1>9, <2>1, <2>2, <2>3 DEF Owners
<1>19. Counts'
  <2>1. t \notin Counted(q)
    BY <1>4 DEF Counted
  <2>2. ASSUME NEW p \in Queues
        PROVE  (Counted(p))' = IF p = q THEN Counted(p) \cup {t} ELSE Counted(p)
    <3>1. t \notin Deferred
      BY <1>4 DEF Deferred
    <3> QED  BY <1>3, <1>4, <1>6, <1>7, <1>8, <1>10, <3>1 DEF Counted
  <2> QED  BY <1>2, <1>3, <2>1, <2>2, CountMore
<1> QED  BY <1>11, <1>14, <1>15, <1>16, <1>17, <1>18, <1>19 DEF TaskFacts

\* It waits for the tasks its file has.
LEMMA CloseLaterStep ==
    ASSUME TaskInv, NEW f \in Files, NEW q \in Queues, NEW t \in Tasks,
           MayUse(f, q), task[t] = Nothing, of[f] # {},
           task' = [task EXCEPT ![t] = NewTask(f, q)],
           closing' = [closing EXCEPT ![f] = t],
           UNCHANGED <<pc, of, inflight, done, pending, wpc>>,
           UNCHANGED <<hand, target, files, shut, queues, doomed, work>>
    PROVE  TaskFacts'
<1>2. Types /\ Lists /\ Holders /\ Placing /\ Books /\ Shut /\ Owners /\ Counts
  BY DEF TaskInv, TaskFacts
<1>3. /\ \A s \in Tasks : task'[s] = IF s = t THEN NewTask(f, q) ELSE task[s]
      /\ \A g \in Files : closing'[g] = IF g = f THEN t ELSE closing[g]
  BY <1>2 DEF Types
<1>4. /\ t \notin Live /\ t # Nothing /\ ~Placed(t) /\ ~Listed(t)
      /\ \A b \in Apps : hand[b] # t
      /\ \A w \in Workers : work[w] # t
      /\ \A g \in Files : t \notin of[g] /\ closing[g] # t
  BY FreeIs
<1>5. /\ f \in files /\ closing[f] = Nothing /\ q \in queues /\ q \notin doomed
  BY DEF MayUse
<1>6. /\ NewTask(f, q) # Nothing
      /\ NewTask(f, q).file = f /\ NewTask(f, q).queue = q
  BY NewTaskIs
<1>7. Live' = Live \cup {t} /\ Live \subseteq Tasks
  BY <1>3, <1>4, <1>6 DEF Live
<1>8. \A s \in Live : s # t /\ s \in Live' /\ s \in Tasks /\ task'[s] = task[s]
  BY <1>3, <1>4, <1>7
<1>10. Deferred' = Deferred \cup {t}
  <2>1. ASSUME NEW s \in Live PROVE s \in Deferred' <=> s \in Deferred
    <3>1. task'[s] = task[s] /\ task[s].file \in Files /\ s # Nothing /\ s # t
      BY <1>2, <1>8, LiveIs
    <3>2. \A g \in Files : closing'[g] = s <=> closing[g] = s
      BY <1>3, <1>5, <3>1
    <3> QED  BY <1>8, <3>1, <3>2 DEF Deferred
  <2>2. t \in Deferred'
    BY <1>3, <1>4, <1>6, <1>7 DEF Deferred
  <2> QED  BY <1>7, <2>1, <2>2 DEF Deferred
<1>11. \A s : (Listed(s))' <=> Listed(s)
  BY DEF Listed
<1>12. \A s : (Placed(s))' <=> Placed(s)
  BY <1>11 DEF Placed, Held
<1>13. \A s : (Settled(s))' <=> Settled(s)
  BY DEF Settled
<1>9. Lists'
  <2>1. /\ Range(pending) \subseteq Tasks
        /\ \A p \in Queues : Range(done[p]) \subseteq Tasks
    BY <1>2, ListIs DEF Types
  <2> QED  BY <1>2, <1>3, <1>4, <2>1 DEF Lists, Listed
<1>14. Holders'
  BY <1>2, <1>11 DEF Holders
<1>15. Placing'
  BY <1>2, <1>4, <1>7, <1>10, <1>12 DEF Placing
<1>16. Books'
  <2>0. \A g \in Files : of[g] \subseteq Live /\ (of[g] # {} => g \in files)
    BY <1>2 DEF Books
  <2>1. ASSUME NEW s \in Live', NEW g \in Files
        PROVE  s \in of'[g] <=> task'[s].file = g /\ (Placed(s))' /\ ~(Settled(s))'
    <3>1. CASE s = t
      BY <1>4, <1>12, <3>1
    <3>2. CASE s # t
      <4>1. s \in Live /\ s \in Tasks /\ task'[s] = task[s]
        BY <1>7, <1>8, <3>2
      <4>2. s \in of[g] <=> task[s].file = g /\ Placed(s) /\ ~Settled(s)
        BY <1>2, <4>1 DEF Books
      <4> QED  BY <1>12, <1>13, <4>1, <4>2
    <3> QED  BY <3>1, <3>2
  <2>2. /\ \A g \in Files : of'[g] \subseteq Live'
        /\ \A g \in Files : of'[g] # {} => g \in files'
    BY <1>7, <2>0
  <2>3. ASSUME NEW g \in Files, closing'[g] # Nothing
        PROVE  /\ closing'[g] \in Live' /\ task'[closing'[g]].file = g
               /\ of'[g] # {}
               /\ closing'[g] \in of'[g] => of'[g] = {closing'[g]}
    <3>1. CASE g = f
      BY <1>3, <1>4, <1>6, <1>7, <3>1
    <3>2. CASE g # f
      <4>1. closing'[g] = closing[g]
        BY <1>3, <3>2
      <4> QED  BY <1>2, <1>8, <2>3, <4>1 DEF Books
    <3> QED  BY <3>1, <3>2
  <2>4. \A b \in Apps, g \in Files :
           pc'[b] \in {"queue", "drop"} /\ closing'[g] # Nothing
              => hand'[b] # closing'[g]
    BY <1>2, <1>3, <1>4 DEF Books
  <2> QED  BY <2>1, <2>2, <2>3, <2>4 DEF Books
<1>17. Shut'
  <2>1. \A g \in shut : g \in Files /\ g # f /\ closing'[g] = closing[g]
    BY <1>2, <1>3, <1>5 DEF Shut, Types
  <2> QED  BY <1>2, <2>1 DEF Shut
<1>18. Owners'
  <2>1. ASSUME NEW d \in doomed, NEW g \in Files PROVE ~(ClosesLate(g, d))'
    <3>1. CASE g = f
      <4>1. closing'[g] = t /\ task'[t].queue = q /\ d # q
        BY <1>3, <1>5, <1>6, <3>1
      <4> QED  BY <4>1 DEF ClosesLate
    <3>2. CASE g # f
      <4>1. closing'[g] = closing[g]
        BY <1>3, <3>2
      <4>2. closing[g] # Nothing => closing[g] \in Live /\ of[g] \subseteq Live
        BY <1>2 DEF Books
      <4>3. ~ClosesLate(g, d)
        BY <1>2 DEF Owners
      <4> QED  BY <1>8, <4>1, <4>2, <4>3 DEF ClosesLate
    <3> QED  BY <3>1, <3>2
  <2>2. \A s \in Live' : task'[s].queue \in queues'
    BY <1>2, <1>3, <1>5, <1>6, <1>7, <1>8 DEF Owners
  <2>3. \A b \in Apps : hand'[b] # Nothing => task'[hand'[b]].queue = target'[b]
    <3>1. ASSUME NEW b \in Apps, hand[b] # Nothing
          PROVE  task'[hand[b]] = task[hand[b]]
      BY <1>2, <1>3, <1>4, <3>1 DEF Types
    <3> QED  BY <1>2, <3>1 DEF Owners
  <2> QED  BY <1>2, <2>1, <2>2, <2>3 DEF Owners
<1>19. Counts'
  <2>1. \A p \in Queues : (Counted(p))' = Counted(p)
    BY <1>4, <1>7, <1>8, <1>10 DEF Counted
  <2> QED  BY <1>2, <2>1, CountSame
<1> QED  BY <1>9, <1>14, <1>15, <1>16, <1>17, <1>18, <1>19 DEF TaskFacts

\* A result that is settled is one of its file's tasks.
LEMMA SettledIs ==
    ASSUME TaskInv, NEW a \in Apps, pc[a] = "took"
    PROVE  /\ hand[a] \in of[task[hand[a]].file]
           /\ task[hand[a]].file \in Files
           /\ hand[a] \in Live /\ hand[a] \in Tasks /\ hand[a] # Nothing
           /\ \A b \in Apps : hand[b] = hand[a] => b = a
<1>1. /\ hand[a] \in Live /\ Placed(hand[a]) /\ hand[a] \in Tasks
      /\ task[hand[a]].file \in Files
  BY HandIs
<1>2. /\ \A b \in Apps : hand[b] = hand[a] => b = a
      /\ hand[a] # Nothing
  BY DEF TaskInv, TaskFacts, Holders
<1>3. ~Settled(hand[a])
  BY <1>2 DEF Settled
<1> QED  BY <1>1, <1>2, <1>3 DEF TaskInv, TaskFacts, Books

\* The result leaves its file, which nobody closes or which has others.
LEMMA SettleOneStep ==
    ASSUME TaskInv, NEW a \in Apps, pc[a] = "took",
           \/ closing[task[hand[a]].file] = Nothing
           \/ closing[task[hand[a]].file] # hand[a] /\ Others(hand[a]) # {},
           of' = [of EXCEPT ![task[hand[a]].file] = Others(hand[a])],
           pc' = At(a, "drop"),
           UNCHANGED <<closing, files, shut, task, hand, target, lists, work>>,
           UNCHANGED <<inflight, pending, wpc>>
    PROVE  TaskFacts'
<1> DEFINE t == hand[a]  f == task[t].file
<1>1. /\ t \in of[f] /\ f \in Files /\ t \in Live /\ t \in Tasks /\ t # Nothing
      /\ \A b \in Apps : hand[b] = t => b = a
  BY SettledIs
<1>2. Types /\ Lists /\ Holders /\ Placing /\ Books /\ Shut /\ Owners /\ Counts
  BY DEF TaskInv, TaskFacts
<1>3. /\ \A g \in Files : of'[g] = IF g = f THEN of[f] \ {t} ELSE of[g]
      /\ \A b \in Apps : pc'[b] = IF b = a THEN "drop" ELSE pc[b]
      /\ UNCHANGED <<done, queues, doomed>>
  BY <1>1, <1>2 DEF Types, Others, At, lists
<1>4. closing[f] # t /\ (closing[f] # Nothing => of[f] \ {t} # {})
  BY <1>1 DEF Others
<1>5. Live' = Live
  BY DEF Live
<1>6. Deferred' = Deferred
  <2>1. ASSUME NEW s \in Live PROVE s \in Deferred' <=> s \in Deferred
    <3>1. task[s].file \in Files /\ s \in Tasks
      BY <1>2, LiveIs DEF Live
    <3>2. \A g \in Files : closing[g] = s /\ s \notin of'[g] <=>
             closing[g] = s /\ s \notin of[g]
      BY <1>3, <1>4
    <3> QED  BY <1>5, <3>1, <3>2 DEF Deferred
  <2> QED  BY <1>5, <2>1 DEF Deferred
<1>7. /\ \A s : (Listed(s))' <=> Listed(s)
      /\ \A s : (Placed(s))' <=> Placed(s)
      /\ \A s : (Settled(s))' <=> Settled(s) \/ s = t
  <2>1. \A s : (Listed(s))' <=> Listed(s)
    BY <1>3 DEF Listed
  <2>2. \A s : (Settled(s))' <=> Settled(s) \/ s = t
    BY <1>1, <1>3 DEF Settled
  <2> QED  BY <2>1, <2>2 DEF Placed, Held
<1>8. Lists'
  BY <1>2, <1>3 DEF Lists
<1>9. Holders'
  BY <1>2, <1>3, <1>7 DEF Holders
<1>10. Placing'
  BY <1>2, <1>5, <1>6, <1>7 DEF Placing
<1>11. Books'
  <2>0. \A g \in Files : of[g] \subseteq Live /\ (of[g] # {} => g \in files)
    BY <1>2 DEF Books
  <2>1. ASSUME NEW s \in Live', NEW g \in Files
        PROVE  s \in of'[g] <=> task'[s].file = g /\ (Placed(s))' /\ ~(Settled(s))'
    <3>1. s \in of[g] <=> task[s].file = g /\ Placed(s) /\ ~Settled(s)
      BY <1>2, <1>5 DEF Books
    <3>2. s \in of'[g] <=> s \in of[g] /\ ~(g = f /\ s = t)
      BY <1>3
    <3> QED  BY <1>7, <3>1, <3>2
  <2>2. /\ \A g \in Files : of'[g] \subseteq Live'
        /\ \A g \in Files : of'[g] # {} => g \in files'
    BY <1>1, <1>3, <1>5, <2>0
  <2>3. ASSUME NEW g \in Files, closing'[g] # Nothing
        PROVE  /\ closing'[g] \in Live' /\ task'[closing'[g]].file = g
               /\ of'[g] # {}
               /\ closing'[g] \in of'[g] => of'[g] = {closing'[g]}
    <3>1. /\ closing[g] \in Live /\ task[closing[g]].file = g /\ of[g] # {}
          /\ closing[g] \in of[g] => of[g] = {closing[g]}
      BY <1>2, <2>3 DEF Books
    <3> QED  BY <1>1, <1>3, <1>4, <1>5, <2>3, <3>1
  <2>4. ASSUME NEW b \in Apps, NEW g \in Files, closing'[g] # Nothing,
               pc'[b] \in {"queue", "drop"}
        PROVE  hand'[b] # closing'[g]
    <3>1. CASE b = a
      <4>1. task[closing[g]].file = g
        BY <1>2, <2>4 DEF Books
      <4> QED  BY <1>4, <3>1, <4>1
    <3>2. CASE b # a
      BY <1>2, <1>3, <2>4, <3>2 DEF Books
    <3> QED  BY <3>1, <3>2
  <2> QED  BY <2>1, <2>2, <2>3, <2>4 DEF Books
<1>12. Shut'
  <2>1. \A g \in shut : of'[g] = of[g]
    BY <1>1, <1>2, <1>3, <1>4 DEF Shut, Types
  <2> QED  BY <1>2, <2>1 DEF Shut
<1>13. Owners'
  <2>1. \A d, g : g \in Files /\ (ClosesLate(g, d))' => ClosesLate(g, d)
    BY <1>3 DEF ClosesLate
  <2> QED  BY <1>2, <1>3, <1>5, <2>1 DEF Owners
<1>14. Counts'
  <2>1. \A p \in Queues : (Counted(p))' = Counted(p)
    BY <1>5, <1>6 DEF Counted
  <2> QED  BY <1>2, <2>1, CountSame
<1> QED  BY <1>8, <1>9, <1>10, <1>11, <1>12, <1>13, <1>14 DEF TaskFacts

\* The close is settled: the file is no more.
LEMMA SettleCloseStep ==
    ASSUME TaskInv, NEW a \in Apps, pc[a] = "took",
           closing[task[hand[a]].file] = hand[a],
           of' = [of EXCEPT ![task[hand[a]].file] = Others(hand[a])],
           closing' = [closing EXCEPT ![task[hand[a]].file] = Nothing],
           files' = files \ {task[hand[a]].file},
           shut' = shut \ {task[hand[a]].file},
           pc' = At(a, "drop"),
           UNCHANGED <<task, hand, target, lists, work>>,
           UNCHANGED <<inflight, pending, wpc>>
    PROVE  TaskFacts'
<1> DEFINE t == hand[a]  f == task[t].file
<1>1. /\ t \in of[f] /\ f \in Files /\ t \in Live /\ t \in Tasks /\ t # Nothing
      /\ \A b \in Apps : hand[b] = t => b = a
  BY SettledIs
<1>2. Types /\ Lists /\ Holders /\ Placing /\ Books /\ Shut /\ Owners /\ Counts
  BY DEF TaskInv, TaskFacts
<1>4. of[f] = {t}
  BY <1>1, <1>2 DEF Books
<1>3. /\ \A g \in Files : of'[g] = IF g = f THEN {} ELSE of[g]
      /\ \A g \in Files : closing'[g] = IF g = f THEN Nothing ELSE closing[g]
      /\ \A b \in Apps : pc'[b] = IF b = a THEN "drop" ELSE pc[b]
      /\ UNCHANGED <<done, queues, doomed>>
  BY <1>1, <1>2, <1>4 DEF Types, Others, At, lists
<1>5. Live' = Live
  BY DEF Live
<1>6. Deferred' = Deferred
  <2>1. ASSUME NEW s \in Live PROVE s \in Deferred' <=> s \in Deferred
    <3>1. task[s].file \in Files /\ s \in Tasks /\ s # Nothing
      BY <1>2, LiveIs DEF Live
    <3>2. \A g \in Files : closing'[g] = s /\ s \notin of'[g] <=>
             closing[g] = s /\ s \notin of[g]
      BY <1>1, <1>3, <3>1
    <3> QED  BY <1>5, <3>1, <3>2 DEF Deferred
  <2> QED  BY <1>5, <2>1 DEF Deferred
<1>7. /\ \A s : (Listed(s))' <=> Listed(s)
      /\ \A s : (Placed(s))' <=> Placed(s)
      /\ \A s : (Settled(s))' <=> Settled(s) \/ s = t
  <2>1. \A s : (Listed(s))' <=> Listed(s)
    BY <1>3 DEF Listed
  <2>2. \A s : (Settled(s))' <=> Settled(s) \/ s = t
    BY <1>1, <1>3 DEF Settled
  <2> QED  BY <2>1, <2>2 DEF Placed, Held
<1>8. Lists'
  BY <1>2, <1>3 DEF Lists
<1>9. Holders'
  BY <1>2, <1>3, <1>7 DEF Holders
<1>10. Placing'
  BY <1>2, <1>5, <1>6, <1>7 DEF Placing
<1>11. Books'
  <2>0. \A g \in Files : of[g] \subseteq Live /\ (of[g] # {} => g \in files)
    BY <1>2 DEF Books
  <2>1. ASSUME NEW s \in Live', NEW g \in Files
        PROVE  s \in of'[g] <=> task'[s].file = g /\ (Placed(s))' /\ ~(Settled(s))'
    <3>1. s \in of[g] <=> task[s].file = g /\ Placed(s) /\ ~Settled(s)
      BY <1>2, <1>5 DEF Books
    <3>2. s \in of'[g] <=> s \in of[g] /\ ~(g = f /\ s = t)
      BY <1>3, <1>4
    <3> QED  BY <1>7, <3>1, <3>2
  <2>2. /\ \A g \in Files : of'[g] \subseteq Live'
        /\ \A g \in Files : of'[g] # {} => g \in files'
    BY <1>3, <1>5, <2>0
  <2>3. ASSUME NEW g \in Files, closing'[g] # Nothing
        PROVE  /\ closing'[g] \in Live' /\ task'[closing'[g]].file = g
               /\ of'[g] # {}
               /\ closing'[g] \in of'[g] => of'[g] = {closing'[g]}
    <3>1. g # f /\ closing'[g] = closing[g] /\ of'[g] = of[g]
      BY <1>3, <2>3
    <3> QED  BY <1>2, <1>5, <2>3, <3>1 DEF Books
  <2>4. ASSUME NEW b \in Apps, NEW g \in Files, closing'[g] # Nothing,
               pc'[b] \in {"queue", "drop"}
        PROVE  hand'[b] # closing'[g]
    <3>1. g # f /\ closing'[g] = closing[g]
      BY <1>3, <2>4
    <3>2. CASE b = a
      <4>1. task[closing[g]].file = g
        BY <1>2, <2>4, <3>1 DEF Books
      <4> QED  BY <3>1, <3>2, <4>1
    <3>3. CASE b # a
      BY <1>2, <1>3, <2>4, <3>1, <3>3 DEF Books
    <3> QED  BY <3>2, <3>3
  <2> QED  BY <2>1, <2>2, <2>3, <2>4 DEF Books
<1>12. Shut'
  <2>1. \A g \in shut' : g \in shut /\ of'[g] = of[g] /\ closing'[g] = closing[g]
    BY <1>2, <1>3 DEF Types
  <2> QED  BY <1>2, <2>1 DEF Shut
<1>13. Owners'
  <2>1. \A d, g : g \in Files /\ (ClosesLate(g, d))' => ClosesLate(g, d)
    BY <1>3 DEF ClosesLate
  <2> QED  BY <1>2, <1>3, <1>5, <2>1 DEF Owners
<1>14. Counts'
  <2>1. \A p \in Queues : (Counted(p))' = Counted(p)
    BY <1>5, <1>6 DEF Counted
  <2> QED  BY <1>2, <2>1, CountSame
<1> QED  BY <1>8, <1>9, <1>10, <1>11, <1>12, <1>13, <1>14 DEF TaskFacts

\* It was the last one the close had waited for.
LEMMA SettleLastStep ==
    ASSUME TaskInv, NEW a \in Apps, pc[a] = "took",
           closing[task[hand[a]].file] \notin {Nothing, hand[a]},
           Others(hand[a]) = {},
           StartClose(closing[task[hand[a]].file], task[hand[a]].file,
                      Others(hand[a]), At(a, "drop")),
           UNCHANGED <<closing, files, shut, task, hand, target, queues, doomed, work>>
    PROVE  TaskFacts'
<1> DEFINE t == hand[a]  f == task[t].file  c == closing[f]
<1>1. /\ t \in of[f] /\ f \in Files /\ t \in Live /\ t \in Tasks /\ t # Nothing
      /\ \A b \in Apps : hand[b] = t => b = a
  BY SettledIs
<1>2. Types /\ Lists /\ Holders /\ Placing /\ Books /\ Shut /\ Owners /\ Counts
  BY DEF TaskInv, TaskFacts
<1>3. of[f] = {t} /\ c # Nothing /\ c # t /\ c \notin of[f]
  BY <1>1 DEF Others
<1>4. /\ c \in Live /\ c \in Tasks /\ c \in Deferred /\ task[c].file = f
      /\ task[c].queue \in Queues
      /\ ~Placed(c) /\ ~Listed(c)
      /\ \A b \in Apps : hand[b] # c
      /\ \A w \in Workers : work[w] # c
  <2>1. /\ c \in Live /\ c \in Deferred /\ task[c].file = f
        /\ ~Placed(c) /\ ~Listed(c)
        /\ \A b \in Apps : hand[b] # c
        /\ \A w \in Workers : work[w] # c
    BY <1>1, <1>3, WaitingIs
  <2>2. c \in Tasks /\ task[c].queue \in Queues
    BY <1>2, <2>1, LiveIs DEF Live
  <2> QED  BY <2>1, <2>2
<1>5. /\ \A g \in Files : of'[g] = IF g = f THEN {c} ELSE of[g]
      /\ inflight' = [inflight EXCEPT ![task[c].queue] = @ + 1]
  BY <1>1, <1>2 DEF Types, StartClose
<1>6. /\ Put(c) /\ WorkersGoOn
      /\ \A b \in Apps : \/ pc'[b] = pc[b] /\ b # a
                         \/ b = a /\ pc'[b] = "drop"
                         \/ b # a /\ pc[b] = "asleep" /\ pc'[b] = "woken"
  <2>1. Steady(At(a, "drop")) /\ \A b \in Apps : At(a, "drop")[b] = IF b = a THEN "drop" ELSE pc[b]
    BY <1>2, SteadyAt DEF Call
  <2>2. Put(c) /\ WorkersGoOn /\ Stepped(At(a, "drop"))
    BY <1>2, <1>4, <2>1, SubmitLists DEF StartClose
  <2> QED  BY <2>1, <2>2 DEF Stepped
<1> HIDE DEF c, f
<1>7. Live' = Live
  BY DEF Live
<1>8. Deferred' = Deferred \ {c}
  <2>1. ASSUME NEW s \in Live PROVE s \in Deferred' <=> s \in Deferred /\ s # c
    <3>1. task[s].file \in Files /\ s \in Tasks
      BY <1>2, LiveIs DEF Live
    <3>2. CASE task[s].file = f
      BY <1>3, <1>5, <1>7, <3>1, <3>2 DEF Deferred, c
    <3>3. CASE task[s].file # f
      <4>1. s # c
        BY <1>4, <3>3
      <4> QED  BY <1>5, <1>7, <3>1, <3>3, <4>1 DEF Deferred
    <3> QED  BY <3>2, <3>3
  <2> QED  BY <1>7, <2>1 DEF Deferred
<1>9. Lists' /\ \A s : (Listed(s))' <=> Listed(s) \/ s = c
  BY <1>2, <1>4, <1>6, PutLists
<1>10. /\ \A s : (Placed(s))' <=> Placed(s) \/ s = c
       /\ \A s : (Settled(s))' <=> Settled(s) \/ s = t
  <2>1. \A s : (Settled(s))' <=> Settled(s) \/ s = t
    BY <1>1, <1>6 DEF Settled
  <2> QED  BY <1>9, <2>1 DEF Placed, Held
<1>11. Holders'
  BY <1>2, <1>4, <1>6, <1>9 DEF Holders, WorkersGoOn
<1>12. Placing'
  BY <1>2, <1>4, <1>7, <1>8, <1>10 DEF Placing
<1>13. Books'
  <2>0. \A g \in Files : of[g] \subseteq Live /\ (of[g] # {} => g \in files)
    BY <1>2 DEF Books
  <2>1. ASSUME NEW s \in Live', NEW g \in Files
        PROVE  s \in of'[g] <=> task'[s].file = g /\ (Placed(s))' /\ ~(Settled(s))'
    <3>1. s \in of[g] <=> task[s].file = g /\ Placed(s) /\ ~Settled(s)
      BY <1>2, <1>7 DEF Books
    <3>2. CASE s = c
      <4>1. ~Settled(c) /\ c # t
        BY <1>3, <1>4 DEF Settled
      <4>2. c \in of'[g] <=> g = f
        <5>1. g # f => c \notin of[g]
          BY <1>4, <3>1, <3>2
        <5> QED  BY <1>5, <5>1
      <4> QED  BY <1>4, <1>10, <3>2, <4>1, <4>2
    <3>3. CASE s # c
      <4>1. s \in of'[g] <=> s \in of[g] /\ ~(g = f /\ s = t)
        BY <1>3, <1>5, <3>3
      <4> QED  BY <1>10, <3>1, <3>3, <4>1 DEF f
    <3> QED  BY <3>2, <3>3
  <2>2. /\ \A g \in Files : of'[g] \subseteq Live'
        /\ \A g \in Files : of'[g] # {} => g \in files'
    BY <1>1, <1>3, <1>4, <1>5, <1>7, <2>0
  <2>3. ASSUME NEW g \in Files, closing'[g] # Nothing
        PROVE  /\ closing'[g] \in Live' /\ task'[closing'[g]].file = g
               /\ of'[g] # {}
               /\ closing'[g] \in of'[g] => of'[g] = {closing'[g]}
    <3>1. /\ closing[g] \in Live /\ task[closing[g]].file = g /\ of[g] # {}
          /\ closing[g] \in of[g] => of[g] = {closing[g]}
      BY <1>2, <2>3 DEF Books
    <3> QED  BY <1>5, <1>7, <3>1 DEF c
  <2>4. ASSUME NEW b \in Apps, NEW g \in Files, closing'[g] # Nothing,
               pc'[b] \in {"queue", "drop"}
        PROVE  hand'[b] # closing'[g]
    <3>1. CASE b = a
      <4>1. task[closing[g]].file = g
        BY <1>2, <2>4 DEF Books
      <4> QED  BY <1>3, <3>1, <4>1 DEF c, f
    <3>2. CASE b # a
      BY <1>2, <1>6, <2>4, <3>2 DEF Books
    <3> QED  BY <3>1, <3>2
  <2> QED  BY <2>1, <2>2, <2>3, <2>4 DEF Books
<1>14. Shut'
  <2>1. \A g \in shut : g \in Files /\ g # f /\ of'[g] = of[g]
    BY <1>1, <1>2, <1>3, <1>5 DEF Shut, Types, c
  <2>2. \A g \in shut : closing[g] # c
    <3>1. \A g \in shut : closing[g] # Nothing /\ task[closing[g]].file = g
      BY <1>2 DEF Shut, Types, Books
    <3> QED  BY <1>4, <2>1, <3>1
  <2>3. Range(pending') \subseteq Range(pending) \cup {c}
    BY <1>6 DEF Put
  <2> QED  BY <1>2, <1>6, <2>1, <2>2, <2>3 DEF Shut, WorkersGoOn
<1>15. Owners'
  <2>1. ASSUME NEW d \in doomed, NEW g \in Files PROVE ~(ClosesLate(g, d))'
    <3>1. CASE g = f
      <4>1. closing'[g] = c /\ of'[g] = {c}
        BY <1>5, <3>1 DEF c
      <4> QED  BY <4>1 DEF ClosesLate
    <3>2. CASE g # f
      <4>1. of'[g] = of[g]
        BY <1>5, <3>2
      <4>2. ~ClosesLate(g, d)
        BY <1>2 DEF Owners
      <4> QED  BY <4>1, <4>2 DEF ClosesLate
    <3> QED  BY <3>1, <3>2
  <2> QED  BY <1>2, <1>6, <1>7, <2>1 DEF Owners
<1>16. Counts'
  <2>1. c \notin Counted(task[c].queue)
    BY <1>4 DEF Counted
  <2>2. ASSUME NEW p \in Queues
        PROVE  (Counted(p))' = IF p = task[c].queue THEN Counted(p) \cup {c}
                               ELSE Counted(p)
    BY <1>4, <1>7, <1>8 DEF Counted
  <2> QED  BY <1>2, <1>4, <1>5, <2>1, <2>2, CountMore
<1> QED  BY <1>9, <1>11, <1>12, <1>13, <1>14, <1>15, <1>16 DEF TaskFacts

\* A task is freed.
LEMMA DropStep ==
    ASSUME TaskInv, NEW a \in Apps, Drop(a)
    PROVE  TaskFacts'
<1> DEFINE t == hand[a]  q == target[a]
<1>1. /\ pc[a] = "drop" /\ t \in Tasks /\ Placed(t) /\ ~Listed(t)
      /\ t \in Live /\ t \notin Deferred /\ t # Nothing
      /\ task[t].queue = q /\ q \in Queues /\ q \in queues /\ q # Nothing
  BY HandIs, AsyncIOAssumption DEF Drop, TaskInv, TaskFacts, Owners
<1>2. Types /\ Lists /\ Holders /\ Placing /\ Books /\ Shut /\ Owners /\ Counts
  BY DEF TaskInv, TaskFacts
<1>3. /\ UNCHANGED <<of, closing, files, shut, done, queues, doomed, pending, wpc, work>>
      /\ \A s \in Tasks : task'[s] = IF s = t THEN Nothing ELSE task[s]
      /\ \A b \in Apps : hand'[b] = IF b = a THEN Nothing ELSE hand[b]
      /\ \A b \in Apps : target'[b] = IF b = a /\ q \notin doomed THEN Nothing
                                      ELSE target[b]
      /\ \A b \in Apps : pc'[b] = IF b # a THEN pc[b]
                                  ELSE IF q \in doomed THEN "destroy" ELSE "idle"
      /\ inflight' = [inflight EXCEPT ![q] = @ - 1]
  BY <1>2 DEF Drop, Return, At, Types, lists, workers
<1>4. /\ \A b \in Apps : hand[b] = t => b = a
      /\ \A w \in Workers : work[w] # t
      /\ \A g \in Files : t \notin of[g] /\ closing[g] # t
  <2>1. /\ \A b \in Apps : hand[b] = t => b = a
        /\ \A w \in Workers : work[w] # t
    BY <1>1, <1>2 DEF Holders
  <2>2. Settled(t)
    BY <1>1 DEF Settled
  <2>3. \A g \in Files : t \notin of[g] /\ closing[g] # t
    BY <1>1, <1>2, <2>2 DEF Books
  <2> QED  BY <2>1, <2>3
<1> HIDE DEF t, q
<1>5. /\ Live' = Live \ {t} /\ Live \subseteq Tasks
      /\ \A s \in Live' : s \in Live /\ s \in Tasks /\ s # t /\ task'[s] = task[s]
  BY <1>3 DEF Live
<1>6. Deferred' = Deferred
  BY <1>1, <1>3, <1>5 DEF Deferred
<1>7. /\ \A s : (Listed(s))' <=> Listed(s)
      /\ \A s \in Tasks : (Placed(s))' <=> Placed(s) /\ s # t
  <2>1. \A s : (Listed(s))' <=> Listed(s)
    BY <1>3 DEF Listed
  <2>2. \A s \in Tasks : (Held(s))' <=> Held(s) /\ s # t
    BY <1>3, <1>4, AsyncIOAssumption DEF Held, t
  <2> QED  BY <1>1, <2>1, <2>2 DEF Placed
<1>8. \A s \in Tasks : s # t => ((Settled(s))' <=> Settled(s))
  BY <1>3, AsyncIOAssumption DEF Settled, t
<1>9. Lists'
  <2>1. /\ Range(pending) \subseteq Tasks
        /\ \A p \in Queues : Range(done[p]) \subseteq Tasks
    BY <1>2, ListIs DEF Types
  <2> QED  BY <1>1, <1>2, <1>3, <2>1 DEF Lists, Listed
<1>10. Holders'
  <2>1. ~Listed(Nothing)
    BY <1>2, NothingIsNowhere
  <2> QED  BY <1>1, <1>2, <1>3, <1>7, <2>1 DEF Holders
<1>11. Placing'
  BY <1>2, <1>5, <1>6, <1>7 DEF Placing
<1>12. Books'
  <2>0. \A g \in Files : of[g] \subseteq Live /\ (of[g] # {} => g \in files)
    BY <1>2 DEF Books
  <2>1. ASSUME NEW s \in Live', NEW g \in Files
        PROVE  s \in of'[g] <=> task'[s].file = g /\ (Placed(s))' /\ ~(Settled(s))'
    <3>1. s \in of[g] <=> task[s].file = g /\ Placed(s) /\ ~Settled(s)
      BY <1>2, <1>5 DEF Books
    <3> QED  BY <1>3, <1>5, <1>7, <1>8, <3>1
  <2>2. /\ \A g \in Files : of'[g] \subseteq Live'
        /\ \A g \in Files : of'[g] # {} => g \in files'
    BY <1>3, <1>4, <1>5, <2>0
  <2>3. ASSUME NEW g \in Files, closing'[g] # Nothing
        PROVE  /\ closing'[g] \in Live' /\ task'[closing'[g]].file = g
               /\ of'[g] # {}
               /\ closing'[g] \in of'[g] => of'[g] = {closing'[g]}
    <3>1. /\ closing[g] \in Live /\ task[closing[g]].file = g /\ of[g] # {}
          /\ closing[g] \in of[g] => of[g] = {closing[g]}
      BY <1>2, <1>3, <2>3 DEF Books
    <3> QED  BY <1>3, <1>4, <1>5, <3>1
  <2>4. \A b \in Apps, g \in Files :
           pc'[b] \in {"queue", "drop"} /\ closing'[g] # Nothing
              => hand'[b] # closing'[g]
    BY <1>2, <1>3 DEF Books
  <2> QED  BY <2>1, <2>2, <2>3, <2>4 DEF Books
<1>13. Shut'
  BY <1>2, <1>3 DEF Shut
<1>14. Owners'
  <2>1. ASSUME NEW d \in doomed, NEW g \in Files PROVE ~(ClosesLate(g, d))'
    <3>1. closing[g] # Nothing => closing[g] \in Live' /\ of[g] \subseteq Live'
      BY <1>2, <1>4, <1>5 DEF Books
    <3>2. ~ClosesLate(g, d)
      BY <1>2 DEF Owners
    <3> QED  BY <1>3, <1>5, <3>1, <3>2 DEF ClosesLate
  <2>2. \A s \in Live' : task'[s].queue \in queues'
    BY <1>2, <1>3, <1>5 DEF Owners
  <2>3. \A b \in Apps : hand'[b] # Nothing => task'[hand'[b]].queue = target'[b]
    <3>1. ASSUME NEW b \in Apps, hand'[b] # Nothing
          PROVE  task'[hand'[b]].queue = target'[b]
      <4>1. /\ b # a /\ hand'[b] = hand[b] /\ hand[b] # t /\ hand[b] \in Tasks
            /\ target'[b] = target[b]
        BY <1>2, <1>3, <1>4, <3>1 DEF Types
      <4> QED  BY <1>2, <1>3, <3>1, <4>1 DEF Owners
    <3> QED  BY <3>1
  <2>4. Nothing \notin doomed /\ q = target[a]
    BY <1>2, AsyncIOAssumption DEF Types, q
  <2> QED  BY <1>1, <1>2, <1>3, <2>1, <2>2, <2>3, <2>4 DEF Owners
<1>15. Counts'
  <2>1. t \in Counted(q)
    BY <1>1 DEF Counted
  <2>2. ASSUME NEW p \in Queues
        PROVE  (Counted(p))' = IF p = q THEN Counted(p) \ {t} ELSE Counted(p)
    BY <1>1, <1>5, <1>6 DEF Counted
  <2>3. /\ Cardinality(Counted(q) \ {t}) = Cardinality(Counted(q)) - 1
        /\ Cardinality(Counted(q) \ {t}) \in Nat
    <3>1. IsFiniteSet(Counted(q) \ {t})
      BY CountedIs, FS_RemoveElement
    <3> QED  BY <2>1, <3>1, CountedIs, OneLess, FS_CardinalityType
  <2>4. inflight[q] - 1 \in Nat
    BY <1>1, <1>2, <2>3 DEF Counts
  <2>5. /\ \A p \in Queues : inflight'[p] = IF p = q THEN inflight[p] - 1
                                            ELSE inflight[p]
        /\ inflight' \in [Queues -> Nat]
    BY <1>1, <1>2, <1>3, <2>4 DEF Counts
  <2>6. ASSUME NEW p \in Queues PROVE inflight'[p] = Cardinality((Counted(p))')
    <3>1. CASE p = q
      BY <1>2, <2>2, <2>3, <2>5, <3>1 DEF Counts
    <3>2. CASE p # q
      BY <1>2, <2>2, <2>5, <3>2 DEF Counts
    <3> QED  BY <3>1, <3>2
  <2> QED  BY <2>5, <2>6 DEF Counts
<1> QED  BY <1>9, <1>10, <1>11, <1>12, <1>13, <1>14, <1>15 DEF TaskFacts

\* A worker runs its task; a close is alone.
LEMMA RunTaskStep ==
    ASSUME TaskInv, NEW w \in Workers, RunTask(w)
    PROVE  TaskFacts'
<1> DEFINE t == work[w]
<1>1. /\ wpc[w] = "took" /\ t \in Tasks /\ Placed(t) /\ ~Listed(t)
      /\ t \in Live /\ t \notin Deferred /\ t # Nothing
  BY WorkIs, AsyncIOAssumption DEF RunTask
<1>2. Types /\ Lists /\ Holders /\ Placing /\ Books /\ Shut /\ Owners /\ Counts
  BY DEF TaskInv, TaskFacts
<1>3. /\ UNCHANGED <<pc, hand, target, task, of, closing, files, inflight>>
      /\ UNCHANGED <<done, queues, doomed, pending, work>>
      /\ \A v \in Workers : wpc'[v] = IF v = w THEN "ran" ELSE wpc[v]
      /\ shut' = shut \cup {f \in Files : closing[f] = t}
  BY <1>2 DEF RunTask, app, lists, Types
<1>4. \A s : (Listed(s))' <=> Listed(s)
  BY <1>3 DEF Listed
<1>5. \A s : (Placed(s))' <=> Placed(s)
  BY <1>3, <1>4 DEF Placed, Held
<1>6. Lists'
  BY <1>2, <1>3 DEF Lists
<1>7. Holders'
  BY <1>1, <1>2, <1>3, <1>4 DEF Holders
<1>8. Placing' /\ Books' /\ Counts'
  BY <1>3, <1>5, SameBooks
<1>9. Shut'
  <2>1. ASSUME NEW f \in Files, closing[f] = t
        PROVE  /\ closing[f] # Nothing /\ of[f] = {closing[f]}
               /\ closing[f] \notin Range(pending)
    <3>1. task[t].file = f /\ (t \in of[f] => of[f] = {t})
      BY <1>1, <1>2, <2>1 DEF Books
    <3>2. t \in of[f]
      BY <1>1, <2>1, <3>1 DEF Deferred
    <3> QED  BY <1>1, <2>1, <3>1, <3>2 DEF Listed
  <2>2. \A v \in Workers : work[v] = t => v = w
    BY <1>1, <1>2 DEF Holders
  <2>3. ASSUME NEW f \in shut'
        PROVE  /\ closing'[f] # Nothing /\ of'[f] = {closing'[f]}
               /\ closing'[f] \notin Range(pending')
               /\ \A v \in Workers : work'[v] = closing'[f] => wpc'[v] = "ran"
    <3>1. CASE f \in Files /\ closing[f] = t
      BY <1>3, <2>1, <2>2, <3>1
    <3>2. CASE f \in shut
      BY <1>2, <1>3, <3>2 DEF Shut
    <3> QED  BY <1>3, <2>3, <3>1, <3>2
  <2> QED  BY <2>3 DEF Shut
<1>10. Owners'
  BY <1>2, <1>3, SameClosesLate DEF Owners
<1> QED  BY <1>6, <1>7, <1>8, <1>9, <1>10 DEF TaskFacts

-----------------------------------------------------------------------------
(* The invariant                                                           *)

\* Nothing is in use.
LEMMA TaskInit == Init => TaskInv
<1> SUFFICES ASSUME Init PROVE TaskInv
  OBVIOUS
<1>1. Types
  BY DEF Init, Types, Call
<1>2. Live = {} /\ Deferred = {}
  BY DEF Init, Live, Deferred
<1>3. \A t \in Tasks \cup {Nothing} : ~Listed(t)
  BY EmptyList DEF Init, Listed
<1>4. \A t \in Tasks : ~Placed(t)
  BY <1>3, AsyncIOAssumption DEF Init, Placed, Held
<1>5. Lists
  BY EmptyList DEF Init, Lists
<1>6. Holders
  BY <1>3 DEF Init, Holders
<1>7. Placing
  BY <1>2, <1>4 DEF Placing
<1>8. Books
  BY <1>2 DEF Init, Books
<1>9. Shut
  BY DEF Init, Shut
<1>10. Owners
  BY <1>2 DEF Init, Owners
<1>11. Counts
  <2>1. \A q \in Queues : Counted(q) = {}
    BY <1>2 DEF Counted
  <2> QED  BY <2>1, FS_EmptySet DEF Init, Counts
<1> QED  BY <1>1, <1>5, <1>6, <1>7, <1>8, <1>9, <1>10, <1>11 DEF TaskInv, TaskFacts

\* Every step keeps it, if no queue is destroyed under a close that waits.
LEMMA TaskStep ==
    ASSUME TaskInv, ~ForeignClose, [Next]_vars
    PROVE  TaskInv'
<1>0. Types'
  BY TypesStep
<1> SUFFICES TaskFacts'
  BY <1>0 DEF TaskInv
<1> USE DEF TaskInv, Types
<1>1. ASSUME NEW a \in Apps, QueueRequest(a) PROVE TaskFacts'
  BY <1>1, QueueRequestStep
<1>2. ASSUME NEW a \in Apps, Wake(a) PROVE TaskFacts'
  BY <1>2, WakeStep
<1>3. ASSUME NEW a \in Apps, Settle(a) PROVE TaskFacts'
  <2> DEFINE t == hand[a]  f == task[t].file
  <2>1. /\ pc[a] = "took"
        /\ UNCHANGED <<task, hand, target, queues, doomed, work>>
    BY <1>3 DEF Settle
  <2>2. CASE /\ closing[f] \notin {Nothing, t} /\ Others(t) = {}
             /\ StartClose(closing[f], f, Others(t), At(a, "drop"))
             /\ UNCHANGED <<closing, files, shut>>
    BY <2>1, <2>2, SettleLastStep
  <2>3. CASE /\ closing[f] = Nothing \/ (closing[f] # t /\ Others(t) # {})
             /\ of' = [of EXCEPT ![f] = Others(t)]
             /\ pc' = At(a, "drop")
             /\ UNCHANGED <<closing, files, shut, inflight, done, pending, pool, wpc>>
    BY <2>1, <2>3, SettleOneStep DEF lists
  <2>4. CASE /\ closing[f] = t
             /\ of' = [of EXCEPT ![f] = Others(t)]
             /\ closing' = [closing EXCEPT ![f] = Nothing]
             /\ files' = files \ {f} /\ shut' = shut \ {f}
             /\ pc' = At(a, "drop")
             /\ UNCHANGED <<inflight, done, pending, pool, wpc>>
    BY <2>1, <2>4, SettleCloseStep DEF lists
  <2> QED  BY <1>3, <2>2, <2>3, <2>4 DEF Settle
<1>4. ASSUME NEW a \in Apps, Drop(a) PROVE TaskFacts'
  BY <1>4, DropStep
<1>5. ASSUME NEW a \in Apps, DestroyLooks(a) PROVE TaskFacts'
  BY <1>5, DestroyLooksStep
<1>6. ASSUME NEW a \in Apps, CancelTask(a) PROVE TaskFacts'
  BY <1>6, CancelTaskStep
<1>7. ASSUME NEW a \in Apps, StopPool(a) PROVE TaskFacts'
  <2>1. WorkersGoOn /\ \A b \in Apps : pc'[b] = IF b = a THEN "quit" ELSE pc[b]
    BY <1>7 DEF StopPool, Roused, WorkersGoOn, At
  <2> QED  BY <1>7, <2>1, QuietStep DEF StopPool, books
<1>8. ASSUME NEW a \in Apps, QuitLooks(a) PROVE TaskFacts'
  <2>1. WorkersGoOn /\ \A b \in Apps : \/ b # a /\ pc'[b] = pc[b]
                                       \/ b = a /\ pc'[b] \in {"quit", "idle"}
    BY <1>8 DEF QuitLooks, WorkersGoOn, At, workers
  <2> QED  BY <1>8, <2>1, QuietStep DEF QuitLooks, books, workers
<1>9. ASSUME NEW a \in Apps, NEW f \in Files, NEW q \in Queues, Request(a, f, q)
      PROVE  TaskFacts'
  BY <1>9, RequestStep
<1>10. ASSUME NEW a \in Apps, NEW f \in Files, NEW q \in Queues, Close(a, f, q)
       PROVE  TaskFacts'
  <2>1. PICK t \in Tasks :
          /\ task[t] = Nothing
          /\ task' = [task EXCEPT ![t] = NewTask(f, q)]
          /\ closing' = [closing EXCEPT ![f] = t]
          /\ \/ of[f] = {} /\ StartClose(t, f, {}, pc)
             \/ /\ of[f] # {}
                /\ UNCHANGED <<pc, of, inflight, done, pending, pool, wpc>>
    BY <1>10 DEF Close
  <2>2. MayUse(f, q) /\ UNCHANGED <<hand, target, files, shut, queues, doomed, work>>
    BY <1>10 DEF Close
  <2>3. CASE of[f] = {} /\ StartClose(t, f, {}, pc)
    BY <2>1, <2>2, <2>3, CloseNowStep
  <2>4. CASE of[f] # {} /\ UNCHANGED <<pc, of, inflight, done, pending, pool, wpc>>
    BY <2>1, <2>2, <2>4, CloseLaterStep
  <2> QED  BY <2>1, <2>3, <2>4
<1>11. ASSUME NEW a \in Apps, Rouse(a) PROVE TaskFacts'
  <2>1. WorkersGoOn /\ \A b \in Apps : pc'[b] = IF b = a THEN "woken" ELSE pc[b]
    BY <1>11 DEF Rouse, WorkersGoOn, At, workers
  <2> QED  BY <1>11, <2>1, QuietStep DEF Rouse, books, workers
<1>12. ASSUME NEW a \in Apps, Quit(a) PROVE TaskFacts'
  <2>1. WorkersGoOn /\ \A b \in Apps : pc'[b] = IF b = a THEN "cancel" ELSE pc[b]
    BY <1>12 DEF Quit, WorkersGoOn, At, workers
  <2> QED  BY <1>12, <2>1, QuietStep DEF Quit, books, workers
<1>13. ASSUME NEW a \in Apps, NEW f \in Files, OpenFile(a, f) PROVE TaskFacts'
  <2>1. WorkersGoOn
    BY <1>13, PrepareTypes DEF OpenFile
  <2> QED  BY <1>13, <2>1, QuietStep DEF OpenFile, app
<1>14. ASSUME NEW a \in Apps, NEW q \in Queues, CreateQueue(a, q) PROVE TaskFacts'
  BY <1>14, CreateQueueStep
<1>15. ASSUME NEW a \in Apps, NEW q \in Queues, GetResult(a, q) PROVE TaskFacts'
  BY <1>15, FetchStep DEF GetResult
<1>16. ASSUME NEW a \in Apps, NEW q \in Queues, WaitResult(a, q) PROVE TaskFacts'
  BY <1>16, FallAsleepStep DEF WaitResult
<1>17. ASSUME NEW a \in Apps, NEW q \in Queues, SignalQueue(a, q) PROVE TaskFacts'
  <2>1. WorkersGoOn /\ \A b \in Apps :
           pc'[b] = pc[b] \/ (pc[b] = "asleep" /\ pc'[b] = "woken")
    BY <1>17 DEF SignalQueue, Sleepers, WorkersGoOn, workers
  <2> QED  BY <1>17, <2>1, QuietStep DEF SignalQueue, books, workers
<1>18. ASSUME NEW a \in Apps, NEW q \in Queues, Destroy(a, q) PROVE TaskFacts'
  BY <1>18, DestroyStep
<1>19. ASSUME NEW w \in Workers, Round(w) PROVE TaskFacts'
  <2>1. wpc[w] \in {"round", "woken", "expired"} /\ UNCHANGED <<hand, target, books, lists>>
    BY <1>19 DEF Round
  <2>2. CASE /\ UNCHANGED <<pending, work>>
             /\ wpc' \in {[IF pool.stop THEN Roused ELSE wpc EXCEPT ![w] = "none"],
                          [wpc EXCEPT ![w] = "asleep"]}
    <3>1. WorkersGoOn
      <4>1. \/ wpc' = [wpc EXCEPT ![w] = "none"]
            \/ wpc' = [wpc EXCEPT ![w] = "asleep"]
            \/ wpc' = [Roused EXCEPT ![w] = "none"]
        BY <2>2
      <4>2. CASE wpc' = [Roused EXCEPT ![w] = "none"]
        BY <2>1, <4>2 DEF Roused, WorkersGoOn
      <4>3. CASE wpc' = [wpc EXCEPT ![w] = "none"] \/ wpc' = [wpc EXCEPT ![w] = "asleep"]
        BY <2>1, <4>3 DEF WorkersGoOn
      <4> QED  BY <4>1, <4>2, <4>3
    <3>2. \A b \in Apps : pc'[b] = pc[b] \/ (pc[b] = "quit" /\ pc'[b] = "quitting")
      BY <1>19 DEF Round, QuitWoken
    <3> QED  BY <2>1, <2>2, <3>1, <3>2, QuietStep DEF books
  <2>3. CASE /\ pending # <<>> /\ pending' = Tail(pending)
             /\ work' = [work EXCEPT ![w] = Head(pending)]
             /\ wpc' = [wpc EXCEPT ![w] = "took"] /\ pc' = pc
    BY <2>1, <2>3, TakeTaskStep
  <2> QED  BY <1>19, <2>2, <2>3 DEF Round
<1>20. ASSUME NEW w \in Workers, RunTask(w) PROVE TaskFacts'
  BY <1>20, RunTaskStep
<1>21. ASSUME NEW w \in Workers, CompleteTask(w) PROVE TaskFacts'
  BY <1>21, CompleteTaskStep
<1>22. ASSUME NEW w \in Workers, Stir(w) PROVE TaskFacts'
  <2>1. WorkersGoOn
    BY <1>22 DEF Stir, WorkersGoOn
  <2> QED  BY <1>22, <2>1, QuietStep DEF Stir, app, books
<1>23. CASE UNCHANGED vars
  <2>1. WorkersGoOn
    BY <1>23 DEF vars, workers, WorkersGoOn
  <2> QED  BY <1>23, <2>1, QuietStep DEF vars, app, books, workers
<1> QED  BY <1>1, <1>2, <1>3, <1>4, <1>5, <1>6, <1>7, <1>8, <1>9, <1>10, <1>11,
            <1>12, <1>13, <1>14, <1>15, <1>16, <1>17, <1>18, <1>19, <1>20, <1>21,
            <1>22, <1>23
         DEF Next, AppStep, Asks, WorkerStep

\* The facts about tasks hold in every reachable state.
LEMMA TaskInvariant == ASSUME ~ForeignClose PROVE Spec => []TaskInv
BY TaskInit, TaskStep, PTL DEF Spec

\* Asynchronous I/O never leaves its types; the count of a queue never
\* exceeds the tasks there are, nor falls below zero.
THEOREM TypeCorrect == ASSUME ~ForeignClose PROVE Spec => []TypeOK
<1>1. ASSUME TaskInv, Pool PROVE TypeOK
  <2>1. Types /\ Counts
    BY <1>1 DEF TaskInv, TaskFacts
  <2>2. inflight \in [Queues -> 0..Cardinality(Tasks)]
    <3>1. ASSUME NEW q \in Queues PROVE inflight[q] \in 0..Cardinality(Tasks)
      <4>1. Counted(q) \subseteq Tasks
        BY DEF Counted, Live
      <4>2. Cardinality(Counted(q)) <= Cardinality(Tasks)
        BY <4>1, AsyncIOAssumption, FS_Subset
      <4>3. Cardinality(Counted(q)) \in Nat /\ Cardinality(Tasks) \in Nat
        BY CountedIs, AsyncIOAssumption, FS_CardinalityType
      <4> QED  BY <2>1, <4>2, <4>3 DEF Counts
    <3> QED  BY <2>1, <3>1 DEF Counts
  <2>3. pool \in [up : BOOLEAN, stop : BOOLEAN,
                  running : 0..Cardinality(Workers),
                  idle : 0..Cardinality(Workers)]
    BY <1>1, PoolSets DEF Pool
  <2> QED  BY <2>1, <2>2, <2>3 DEF TypeOK, Types
<1> QED  BY <1>1, TaskInvariant, PoolInit, PoolStep, PTL DEF Spec

\* Where a list has t: at one position if it has no duplicates.
Positions(s, t) == {i \in DOMAIN s : s[i] = t}

\* A list without duplicates has a task at one position or at none.
LEMMA OnePosition ==
    ASSUME NEW s \in Seq(Tasks), IsInjective(s), NEW t
    PROVE  /\ t \in Range(s) => \E i : Positions(s, t) = {i}
           /\ t \notin Range(s) => Positions(s, t) = {}
<1>1. DOMAIN s = 1..Len(s)
  BY LenProperties
<1>2. \A i, j \in DOMAIN s : s[i] = s[j] => i = j
  BY <1>1, ListIs
<1>3. ASSUME t \in Range(s)
      PROVE  \E i : Positions(s, t) = {i}
  <2>1. PICK i \in DOMAIN s : s[i] = t
    BY <1>3 DEF Range
  <2>2. Positions(s, t) = {i}
    BY <1>2, <2>1 DEF Positions
  <2> QED  BY <2>2
<1>4. t \notin Range(s) => Positions(s, t) = {}
  BY DEF Range, Positions
<1> QED  BY <1>3, <1>4

\* The places of Places, one set for each kind.
OnPool(t) == Positions(pending, t)
OnQueues(t) == UNION {{q} \X Positions(done[q], t) : q \in Queues}
InHands(t) == {a \in Apps : hand[a] = t}
AtWork(t) == {w \in Workers : work[w] = t}

\* A set is counted as one or as none.
Unit(S, here) == IF here THEN \E x : S = {x} ELSE S = {}

\* The cardinality of such a set.
LEMMA CountUnit ==
    ASSUME NEW S, NEW here \in BOOLEAN, Unit(S, here)
    PROVE  Cardinality(S) = IF here THEN 1 ELSE 0
BY FS_Singleton, FS_EmptySet DEF Unit

\* Each kind of place has the task at most once, and only one kind has it.
LEMMA OnlyPlace ==
    ASSUME TaskInv, NEW t \in Tasks
    PROVE  Places(t) = IF Placed(t) THEN 1 ELSE 0
<1> DEFINE p == t \in Range(pending)
           d == \E q \in Queues : t \in Range(done[q])
           h == \E a \in Apps : hand[a] = t
           k == \E w \in Workers : work[w] = t
<1>1. Types /\ Lists /\ Holders /\ t # Nothing
  BY AsyncIOAssumption DEF TaskInv, TaskFacts
<1>2. Unit(OnPool(t), p)
  <2>1. pending \in Seq(Tasks) /\ IsInjective(pending)
    BY <1>1 DEF Types, Lists
  <2> QED  BY <2>1, OnePosition DEF Unit, OnPool
<1>3. Unit(OnQueues(t), d)
  <2>1. ASSUME NEW q \in Queues
        PROVE  /\ t \in Range(done[q]) => \E i : Positions(done[q], t) = {i}
               /\ t \notin Range(done[q]) => Positions(done[q], t) = {}
    <3>1. done[q] \in Seq(Tasks) /\ IsInjective(done[q])
      BY <1>1 DEF Types, Lists
    <3> QED  BY <3>1, OnePosition
  <2>2. CASE ~d
    <3>1. OnQueues(t) = {}
      BY <2>1, <2>2 DEF OnQueues
    <3> QED  BY <2>2, <3>1 DEF Unit
  <2>3. CASE d
    <3>1. PICK q \in Queues : t \in Range(done[q])
      BY <2>3
    <3>2. \A r \in Queues : r # q => t \notin Range(done[r])
      BY <1>1, <3>1 DEF Lists
    <3>3. PICK i : Positions(done[q], t) = {i}
      BY <2>1, <3>1
    <3>4. \A r \in Queues : r # q => Positions(done[r], t) = {}
      BY <2>1, <3>2
    <3>5. OnQueues(t) = {q} \X {i}
      BY <3>1, <3>3, <3>4 DEF OnQueues
    <3>6. OnQueues(t) = {<<q, i>>}
      BY <3>5
    <3> QED  BY <2>3, <3>6 DEF Unit
  <2> QED  BY <2>2, <2>3
<1>4. Unit(InHands(t), h)
  <2>1. CASE h
    <3>1. PICK a \in Apps : hand[a] = t
      BY <2>1
    <3>2. InHands(t) = {a}
      BY <1>1, <3>1 DEF InHands, Holders
    <3> QED  BY <2>1, <3>2 DEF Unit
  <2>2. CASE ~h
    BY <2>2 DEF Unit, InHands
  <2> QED  BY <2>1, <2>2
<1>5. Unit(AtWork(t), k)
  <2>1. CASE k
    <3>1. PICK w \in Workers : work[w] = t
      BY <2>1
    <3>2. AtWork(t) = {w}
      BY <1>1, <3>1 DEF AtWork, Holders
    <3> QED  BY <2>1, <3>2 DEF Unit
  <2>2. CASE ~k
    BY <2>2 DEF Unit, AtWork
  <2> QED  BY <2>1, <2>2
<1>6. /\ p => ~d /\ ~h /\ ~k
      /\ d => ~h /\ ~k
      /\ h => ~k
  BY <1>1 DEF Lists, Holders, Listed
<1>7. Placed(t) <=> p \/ d \/ h \/ k
  BY DEF Placed, Listed, Held
<1>8. Places(t) = Cardinality(OnPool(t)) + Cardinality(OnQueues(t))
                  + Cardinality(InHands(t)) + Cardinality(AtWork(t))
  BY DEF Places, Positions, OnPool, OnQueues, InHands, AtWork
<1> HIDE DEF p, d, h, k
<1>9. /\ p \in BOOLEAN /\ d \in BOOLEAN /\ h \in BOOLEAN /\ k \in BOOLEAN
  BY DEF p, d, h, k
<1>10. /\ Cardinality(OnPool(t)) = IF p THEN 1 ELSE 0
       /\ Cardinality(OnQueues(t)) = IF d THEN 1 ELSE 0
       /\ Cardinality(InHands(t)) = IF h THEN 1 ELSE 0
       /\ Cardinality(AtWork(t)) = IF k THEN 1 ELSE 0
  BY <1>2, <1>3, <1>4, <1>5, <1>9, CountUnit
<1> QED  BY <1>6, <1>7, <1>8, <1>10

\* No task is lost, run twice or answered twice, and the count by which
\* SDL_DestroyAsyncIOQueue decides is the number of tasks that are still to
\* be settled for its queue.
THEOREM Counting == ASSUME ~ForeignClose PROVE Spec => []TasksAreCounted
<1>1. ASSUME TaskInv PROVE TasksAreCounted
  <2>1. \A t \in Tasks : Places(t) = IF t \in Live \ Deferred THEN 1 ELSE 0
    BY <1>1, OnlyPlace DEF TaskInv, TaskFacts, Placing
  <2>2. InflightCounts
    BY <1>1 DEF TaskInv, TaskFacts, Types, Counts, Counted, InflightCounts
  <2> QED  BY <2>1, <2>2 DEF TasksAreCounted, OnePlace
<1> QED  BY <1>1, TaskInvariant, PTL

\* The close of a file comes after all its other tasks, and the file stays
\* until then.
THEOREM CloseComesLast == ASSUME ~ForeignClose PROVE Spec => []CloseIsLast
<1>1. ASSUME TaskInv PROVE CloseIsLast
  <2>1. Types /\ Holders /\ Placing /\ Books /\ Shut
    BY <1>1 DEF TaskInv, TaskFacts
  <2>2. \A f \in shut : of[f] \subseteq {closing[f]}
    BY <2>1 DEF Shut
  <2>3. ASSUME NEW t \in Live, t \notin {hand[a] : a \in Apps}
        PROVE  task[t].file \in files
    <3> DEFINE f == task[t].file
    <3>1. f \in Files /\ t \in Tasks /\ t # Nothing
      BY <2>1, LiveIs DEF Live
    <3>2. CASE t \in Deferred
      <4>1. closing[f] = t
        BY <3>2 DEF Deferred
      <4> QED  BY <2>1, <3>1, <4>1 DEF Books
    <3>3. CASE t \notin Deferred
      <4>1. Placed(t) /\ ~Settled(t)
        BY <2>1, <2>3, <3>1, <3>3 DEF Placing, Settled
      <4>2. t \in of[f]
        BY <2>1, <3>1, <4>1 DEF Books
      <4> QED  BY <2>1, <3>1, <4>2 DEF Books
    <3> QED  BY <3>2, <3>3
  <2>4. ASSUME NEW w \in Workers, wpc[w] = "took"
        PROVE  task[work[w]].file \notin shut
    <3> DEFINE t == work[w]  f == task[t].file
    <3>1. t \in Live /\ Placed(t) /\ f \in Files /\ t # Nothing
      BY <1>1, <2>4, WorkIs, AsyncIOAssumption
    <3>2. ~Settled(t)
      BY <2>1, <3>1 DEF Settled, Holders
    <3>3. t \in of[f]
      BY <2>1, <3>1, <3>2 DEF Books
    <3> QED  BY <2>1, <2>4, <3>3 DEF Shut
  <2> QED  BY <2>2, <2>3, <2>4 DEF CloseIsLast
<1> QED  BY <1>1, TaskInvariant, PTL

\* A queue is there as long as a task or a thread refers to it.
THEOREM QueuesAreThere == ASSUME ~ForeignClose PROVE Spec => []QueuesOutliveTasks
<1>1. ASSUME TaskInv PROVE QueuesOutliveTasks
  BY <1>1 DEF TaskInv, TaskFacts, Owners, QueuesOutliveTasks
<1> QED  BY <1>1, TaskInvariant, PTL

=============================================================================

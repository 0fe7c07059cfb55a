-------------------------- MODULE OS3ThreadProofs --------------------------
(***************************************************************************)
(* Theorems about the life of an SDL_Thread, for any tasks and threads.    *)
(*                                                                         *)
(* The argument: a thread is passed to SDL_WaitThread or SDL_DetachThread  *)
(* once, so at most one task is concerned with it (Claims).  Before that   *)
(* both its blocks are allocated and nothing is marked (Unclaimed).  After *)
(* it, the thread itself and that task each keep alive what they still     *)
(* use (Uses, Joins, Detaches), and td->complete tells a joiner that the   *)
(* thread is through with both (Progress).                                 *)
(***************************************************************************)
EXTENDS OS3Thread, TLAPS

\* A thread that was never created has left no trace.
Unborn ==
    \A h \in Threads : object[h] = "none" =>
       /\ run[h] = "none"
       /\ h \notin claimed
       /\ state[h] = "alive"
       /\ ~complete[h]
       /\ ~detached[h]
       /\ joiner[h] = NoTask

\* A task inside a call has a thread of its own.
Claims ==
    /\ \A k \in Tasks : pc[k] # "idle" => arg[k] \in claimed
    /\ \A k, l \in Tasks :
          pc[k] # "idle" /\ pc[l] # "idle" /\ arg[k] = arg[l] => k = l

\* Until then nothing has happened to the thread but its own execution.
Unclaimed ==
    \A h \in Threads \ claimed : object[h] # "none" =>
       /\ object[h] = "live"
       /\ data[h] = "live"
       /\ handle[h]
       /\ ~detached[h]
       /\ state[h] # "detached"

\* td->complete is the end of the thread; what it read of td->detached then
\* stays true.
Progress ==
    \A h \in Threads :
       /\ complete[h] => run[h] \in {"free", "gone"}
       /\ run[h] = "free" => complete[h]
       /\ sawDetached[h] = (complete[h] /\ detached[h])

\* The thread keeps what it still uses.
Uses ==
    \A h \in Threads :
       /\ run[h] \in {"user", "exit"} => object[h] = "live"
       /\ run[h] \in {"user", "exit", "entry"} => data[h] = "live"
       /\ run[h] = "free" /\ detached[h] => data[h] = "live"

\* A joiner keeps both blocks and believes in the end of the thread only when
\* td->complete is set.
Joins ==
    \A k \in Tasks :
       /\ pc[k] \in Joining =>
             /\ object[arg[k]] = "live"
             /\ data[arg[k]] = "live"
             /\ handle[arg[k]]
             /\ ~detached[arg[k]]
             /\ state[arg[k]] # "detached"
       /\ pc[k] \in {"unregister", "finish"} => complete[arg[k]]
       /\ pc[k] = "register" => ~signalled[k]
       /\ pc[k] = "sleep" /\ signalled[k] => complete[arg[k]]

\* A detacher keeps the data until it has decided who frees it.
Detaches ==
    \A k \in Tasks :
       pc[k] \in {"invalid", "sysdetach"} =>
          data[arg[k]] = "live" /\ ~detached[arg[k]]

\* td->join_task is a task that waits for this very thread.
Registered ==
    \A h \in Threads : joiner[h] # NoTask =>
       arg[joiner[h]] = h /\ pc[joiner[h]] \in {"sleep", "unregister"}

Inv ==
    /\ TypeOK
    /\ Unborn
    /\ Claims
    /\ Unclaimed
    /\ Progress
    /\ Uses
    /\ Joins
    /\ Detaches
    /\ Registered

-----------------------------------------------------------------------------

(* The inductive invariant                                                 *)

USE ThreadAssumption DEF Goto, block, registration, fields, child

\* Inv holds before any thread is created.
LEMMA InvInit == Init => Inv
<1> SUFFICES ASSUME Init PROVE Inv
  OBVIOUS
<1>1. TypeOK
  BY DEF Init, TypeOK, Memory
<1>2. Unborn /\ Unclaimed /\ Uses
  BY DEF Init, Unborn, Unclaimed, Uses
<1>3. Claims /\ Progress /\ Joins /\ Detaches /\ Registered
  BY DEF Init, Claims, Progress, Joins, Joining, Detaches, Registered
<1> QED  BY <1>1, <1>2, <1>3 DEF Inv

\* Every step of a thread, a joiner or a detacher keeps it.
LEMMA InvStep == Inv /\ [Next]_vars => Inv'
<1> SUFFICES ASSUME Inv, [Next]_vars PROVE Inv'
  OBVIOUS
<1>a. /\ TypeOK /\ Unborn /\ Claims /\ Unclaimed /\ Progress
      /\ Uses /\ Joins /\ Detaches /\ Registered
  BY DEF Inv
<1> USE <1>a DEF Memory
<1>1. ASSUME NEW h \in Threads, UserFunctionReturns(h)  PROVE Inv'
  <2> USE <1>1 DEF UserFunctionReturns
  <2>1. TypeOK'
    BY DEF TypeOK
  <2>2. Unborn'
    BY DEF TypeOK, Unborn
  <2>3. Progress'
    BY DEF TypeOK, Progress
  <2>4. Uses'
    BY DEF TypeOK, Uses
  <2>5. Claims' /\ Unclaimed' /\ Joins' /\ Detaches' /\ Registered'
    BY DEF Joining, Claims, Unclaimed, Joins, Detaches, Registered
  <2> QED  BY <2>1, <2>2, <2>3, <2>4, <2>5 DEF Inv
<1>2. ASSUME NEW h \in Threads, ExitJoinable(h)  PROVE Inv'
  <2> USE <1>2 DEF ExitJoinable
  <2>1. TypeOK'
    BY DEF TypeOK
  <2>2. Unborn'
    BY DEF TypeOK, Unborn
  <2>3. Unclaimed'
    BY DEF TypeOK, Unclaimed
  <2>4. Progress'
    BY DEF TypeOK, Progress
  <2>5. Uses'
    BY DEF TypeOK, Uses
  <2>6. Joins'
    BY DEF Joining, TypeOK, Joins
  <2>7. Claims' /\ Detaches' /\ Registered'
    BY DEF Claims, Detaches, Registered
  <2> QED  BY <2>1, <2>2, <2>3, <2>4, <2>5, <2>6, <2>7 DEF Inv
<1>3. ASSUME NEW h \in Threads, ExitDetached(h)  PROVE Inv'
  <2> USE <1>3 DEF ExitDetached
  <2>1. TypeOK'
    BY DEF TypeOK
  <2>2. Unborn'
    BY DEF TypeOK, Unborn
  <2>3. Unclaimed'
    BY DEF TypeOK, Unclaimed, Unborn
  <2>4. Progress'
    BY DEF TypeOK, Progress
  <2>5. Uses'
    BY DEF TypeOK, Uses
  <2>6. Joins'
    BY DEF Joining, TypeOK, Joins
  <2>7. Claims' /\ Detaches' /\ Registered'
    BY DEF Claims, Detaches, Registered
  <2> QED  BY <2>1, <2>2, <2>3, <2>4, <2>5, <2>6, <2>7 DEF Inv
<1>4. ASSUME NEW h \in Threads, Complete(h)  PROVE Inv'
  <2> USE <1>4 DEF Complete
  <2>1. TypeOK'
    BY DEF TypeOK
  <2>2. Unborn'
    BY DEF TypeOK, Unborn
  <2>3. Progress'
    BY DEF TypeOK, Progress
  <2>4. Uses'
    BY DEF TypeOK, Uses
  <2>5. Joins'
    BY DEF Joining, TypeOK, Joins, Registered
  <2>6. Claims' /\ Unclaimed' /\ Detaches' /\ Registered'
    BY DEF Claims, Unclaimed, Detaches, Registered
  <2> QED  BY <2>1, <2>2, <2>3, <2>4, <2>5, <2>6 DEF Inv
<1>5. ASSUME NEW h \in Threads, End(h)  PROVE Inv'
  <2> USE <1>5 DEF End
  <2>1. TypeOK'
    BY DEF TypeOK
  <2>2. Unborn'
    BY DEF TypeOK, Unborn
  <2>3. Unclaimed'
    BY DEF TypeOK, Unclaimed, Progress
  <2>4. Progress'
    BY DEF TypeOK, Progress
  <2>5. Uses'
    BY DEF TypeOK, Uses
  <2>6. Joins'
    BY DEF Joining, TypeOK, Joins, Progress
  <2>7. Detaches'
    BY DEF TypeOK, Detaches, Progress
  <2>8. Claims' /\ Registered'
    BY DEF Claims, Registered
  <2> QED  BY <2>1, <2>2, <2>3, <2>4, <2>5, <2>6, <2>7, <2>8 DEF Inv
<1>6. ASSUME NEW k \in Tasks, NEW h \in Threads, Create(k, h)  PROVE Inv'
  <2> USE <1>6 DEF Create
  <2>1. TypeOK'
    BY DEF TypeOK
  <2>2. Unborn'
    BY DEF TypeOK, Unborn
  <2>3. Unclaimed'
    BY DEF TypeOK, Unclaimed, Unborn
  <2>4. Progress'
    BY DEF TypeOK, Progress, Unborn
  <2>5. Uses'
    BY DEF TypeOK, Uses
  <2>6. Joins'
    BY DEF Joining, TypeOK, Joins
  <2>7. Detaches'
    BY DEF TypeOK, Detaches
  <2>8. Claims' /\ Registered'
    BY DEF Claims, Registered
  <2> QED  BY <2>1, <2>2, <2>3, <2>4, <2>5, <2>6, <2>7, <2>8 DEF Inv
<1>7. ASSUME NEW k \in Tasks, NEW h \in Threads, CreateFails(k, h)  PROVE Inv'
  <2> USE <1>7 DEF CreateFails
  <2>1. TypeOK'
    BY DEF TypeOK
  <2>2. Unborn'
    BY DEF TypeOK, Unborn
  <2>3. Claims'
    BY DEF TypeOK, Claims
  <2>4. Unclaimed'
    BY DEF TypeOK, Unclaimed
  <2>5. Progress'
    BY DEF TypeOK, Progress
  <2>6. Uses'
    BY DEF TypeOK, Uses
  <2>7. Joins'
    BY DEF Joining, TypeOK, Joins
  <2>8. Detaches'
    BY DEF TypeOK, Detaches, Claims, Unborn
  <2>9. Registered'
    BY DEF Registered
  <2> QED  BY <2>1, <2>2, <2>3, <2>4, <2>5, <2>6, <2>7, <2>8, <2>9 DEF Inv
<1>8. ASSUME NEW k \in Tasks, NEW h \in Threads, WaitThread(k, h)  PROVE Inv'
  <2> USE <1>8 DEF WaitThread, Claim
  <2>1. TypeOK'
    BY DEF TypeOK
  <2>2. Unborn'
    BY DEF TypeOK, Unborn
  <2>3. Claims'
    BY DEF TypeOK, Claims
  <2>4. Unclaimed'
    BY DEF TypeOK, Unclaimed
  <2>5. Joins'
    BY DEF Joining, TypeOK, Joins, Unclaimed
  <2>6. Detaches'
    BY DEF TypeOK, Detaches
  <2>7. Registered'
    BY DEF TypeOK, Registered
  <2>8. Progress' /\ Uses'
    BY DEF Progress, Uses
  <2> QED  BY <2>1, <2>2, <2>3, <2>4, <2>5, <2>6, <2>7, <2>8 DEF Inv
<1>9. ASSUME NEW k \in Tasks, NEW h \in Threads, DetachAlive(k, h)  PROVE Inv'
  <2> USE <1>9 DEF DetachAlive, Claim
  <2>1. TypeOK'
    BY DEF TypeOK
  <2>2. Unborn'
    BY DEF TypeOK, Unborn
  <2>3. Claims'
    BY DEF TypeOK, Claims
  <2>4. Unclaimed'
    BY DEF TypeOK, Unclaimed
  <2>5. Joins'
    BY DEF Joining, TypeOK, Joins, Claims
  <2>6. Detaches'
    BY DEF TypeOK, Detaches, Unclaimed
  <2>7. Registered'
    BY DEF TypeOK, Registered
  <2>8. Progress' /\ Uses'
    BY DEF Progress, Uses
  <2> QED  BY <2>1, <2>2, <2>3, <2>4, <2>5, <2>6, <2>7, <2>8 DEF Inv
<1>10. ASSUME NEW k \in Tasks, NEW h \in Threads, DetachComplete(k, h)  PROVE
  Inv'
  <2> USE <1>10 DEF DetachComplete, Claim
  <2>1. TypeOK'
    BY DEF TypeOK
  <2>2. Unborn'
    BY DEF TypeOK, Unborn
  <2>3. Claims'
    BY DEF TypeOK, Claims
  <2>4. Unclaimed'
    BY DEF TypeOK, Unclaimed
  <2>5. Joins'
    BY DEF Joining, TypeOK, Joins, Unclaimed
  <2>6. Detaches'
    BY DEF TypeOK, Detaches
  <2>7. Registered'
    BY DEF TypeOK, Registered
  <2>8. Progress' /\ Uses'
    BY DEF Progress, Uses
  <2> QED  BY <2>1, <2>2, <2>3, <2>4, <2>5, <2>6, <2>7, <2>8 DEF Inv
<1>11. ASSUME NEW k \in Tasks, JoinLooks(k)  PROVE Inv'
  <2> USE <1>11 DEF JoinLooks
  <2>a. arg[k] \in Threads
    BY DEF TypeOK, Claims
  <2>1. TypeOK'
    BY <2>a DEF TypeOK
  <2>2. Claims'
    BY <2>a DEF TypeOK, Claims
  <2>3. Joins'
    BY <2>a DEF Joining, TypeOK, Joins
  <2>4. Detaches'
    BY <2>a DEF TypeOK, Detaches
  <2>5. Registered'
    BY <2>a DEF TypeOK, Registered
  <2>6. Unborn' /\ Unclaimed' /\ Progress' /\ Uses'
    BY DEF Unborn, Unclaimed, Progress, Uses
  <2> QED  BY <2>1, <2>2, <2>3, <2>4, <2>5, <2>6 DEF Inv
<1>12. ASSUME NEW k \in Tasks, JoinAllocates(k)  PROVE Inv'
  <2> USE <1>12 DEF JoinAllocates
  <2>a. arg[k] \in Threads
    BY DEF TypeOK, Claims
  <2>1. TypeOK'
    BY <2>a DEF TypeOK
  <2>2. Claims'
    BY <2>a DEF TypeOK, Claims
  <2>3. Joins'
    BY <2>a DEF Joining, TypeOK, Joins
  <2>4. Detaches'
    BY <2>a DEF TypeOK, Detaches
  <2>5. Registered'
    BY <2>a DEF TypeOK, Registered
  <2>6. Unborn' /\ Unclaimed' /\ Progress' /\ Uses'
    BY DEF Unborn, Unclaimed, Progress, Uses
  <2> QED  BY <2>1, <2>2, <2>3, <2>4, <2>5, <2>6 DEF Inv
<1>13. ASSUME NEW k \in Tasks, JoinRegisters(k)  PROVE Inv'
  <2> USE <1>13 DEF JoinRegisters
  <2>a. arg[k] \in Threads
    BY DEF TypeOK, Claims
  <2>1. TypeOK'
    <3>1. CASE complete[arg[k]]
      BY <2>a, <3>1 DEF TypeOK
    <3>2. CASE ~complete[arg[k]]
      <4>1. ASSUME NEW h \in Threads
            PROVE  joinSignal'[h] = (joiner'[h] # NoTask)
        <5>1. CASE h = arg[k]
          <6>1. joinSignal'[h] = TRUE /\ joiner'[h] # NoTask
            BY <2>a, <3>2, <5>1 DEF TypeOK
          <6> QED  BY <6>1
        <5>2. CASE h # arg[k]
          <6>1. joinSignal'[h] = joinSignal[h] /\ joiner'[h] = joiner[h]
            BY <2>a, <3>2, <5>2 DEF TypeOK
          <6>2. joinSignal[h] = (joiner[h] # NoTask)
            BY DEF TypeOK
          <6> QED  BY <6>1, <6>2
        <5> QED  BY <5>1, <5>2
      <4>2. joinSignal' = [h \in Threads |-> joinSignal'[h]]
        BY <2>a, <3>2 DEF TypeOK
      <4>3. joinSignal' = [h \in Threads |-> joiner'[h] # NoTask]
        BY <4>1, <4>2
      <4> QED  BY <2>a, <3>2, <4>3 DEF TypeOK
    <3> QED  BY <3>1, <3>2
  <2>2. Unborn'
    BY <2>a DEF TypeOK, Unborn, Claims
  <2>3. Claims'
    BY <2>a DEF TypeOK, Claims
  <2>4. Joins'
    BY <2>a DEF Joining, TypeOK, Joins
  <2>5. Detaches'
    BY <2>a DEF TypeOK, Detaches
  <2>6. Registered'
    BY <2>a DEF TypeOK, Registered
  <2>7. Unclaimed' /\ Progress' /\ Uses'
    BY DEF Unclaimed, Progress, Uses
  <2> QED  BY <2>1, <2>2, <2>3, <2>4, <2>5, <2>6, <2>7 DEF Inv
<1>14. ASSUME NEW k \in Tasks, JoinWakes(k)  PROVE Inv'
  <2> USE <1>14 DEF JoinWakes
  <2>a. arg[k] \in Threads
    BY DEF TypeOK, Claims
  <2>1. TypeOK'
    BY <2>a DEF TypeOK
  <2>2. Claims'
    BY <2>a DEF TypeOK, Claims
  <2>3. Joins'
    BY <2>a DEF Joining, TypeOK, Joins
  <2>4. Detaches'
    BY <2>a DEF TypeOK, Detaches
  <2>5. Registered'
    BY <2>a DEF TypeOK, Registered
  <2>6. Unborn' /\ Unclaimed' /\ Progress' /\ Uses'
    BY DEF Unborn, Unclaimed, Progress, Uses
  <2> QED  BY <2>1, <2>2, <2>3, <2>4, <2>5, <2>6 DEF Inv
<1>15. ASSUME NEW k \in Tasks, JoinUnregisters(k)  PROVE Inv'
  <2> USE <1>15 DEF JoinUnregisters
  <2>a. arg[k] \in Threads
    BY DEF TypeOK, Claims
  <2>1. TypeOK'
    BY <2>a DEF TypeOK
  <2>2. Unborn'
    BY <2>a DEF TypeOK, Unborn
  <2>3. Claims'
    BY <2>a DEF TypeOK, Claims
  <2>4. Joins'
    BY <2>a DEF Joining, TypeOK, Joins
  <2>5. Detaches'
    BY <2>a DEF TypeOK, Detaches
  <2>6. Registered'
    BY <2>a DEF TypeOK, Registered
  <2>7. Unclaimed' /\ Progress' /\ Uses'
    BY DEF Unclaimed, Progress, Uses
  <2> QED  BY <2>1, <2>2, <2>3, <2>4, <2>5, <2>6, <2>7 DEF Inv
<1>16. ASSUME NEW k \in Tasks, JoinPolls(k)  PROVE Inv'
  <2> USE <1>16 DEF JoinPolls
  <2>a. arg[k] \in Threads
    BY DEF TypeOK, Claims
  <2>1. TypeOK'
    BY <2>a DEF TypeOK
  <2>2. Claims'
    BY <2>a DEF TypeOK, Claims
  <2>3. Joins'
    BY <2>a DEF Joining, TypeOK, Joins
  <2>4. Detaches'
    BY <2>a DEF TypeOK, Detaches
  <2>5. Registered'
    BY <2>a DEF TypeOK, Registered
  <2>6. Unborn' /\ Unclaimed' /\ Progress' /\ Uses'
    BY DEF Unborn, Unclaimed, Progress, Uses
  <2> QED  BY <2>1, <2>2, <2>3, <2>4, <2>5, <2>6 DEF Inv
<1>17. ASSUME NEW k \in Tasks, BreakArrives(k)  PROVE Inv'
  <2> USE <1>17 DEF BreakArrives
  <2>a. arg[k] \in Threads
    BY DEF TypeOK, Claims
  <2>1. TypeOK'
    BY <2>a DEF TypeOK
  <2>2. Claims'
    BY <2>a DEF TypeOK, Claims
  <2>3. Joins'
    BY <2>a DEF Joining, TypeOK, Joins
  <2>4. Detaches'
    BY <2>a DEF TypeOK, Detaches
  <2>5. Registered'
    BY <2>a DEF TypeOK, Registered
  <2>6. Unborn' /\ Unclaimed' /\ Progress' /\ Uses'
    BY DEF Unborn, Unclaimed, Progress, Uses
  <2> QED  BY <2>1, <2>2, <2>3, <2>4, <2>5, <2>6 DEF Inv
<1>18. ASSUME NEW k \in Tasks, JoinFinishes(k)  PROVE Inv'
  <2> USE <1>18 DEF JoinFinishes, Leave
  <2>a. arg[k] \in Threads
    BY DEF TypeOK, Claims
  <2>1. TypeOK'
    BY <2>a DEF TypeOK
  <2>2. Unborn'
    BY <2>a DEF TypeOK, Unborn
  <2>3. Claims'
    BY <2>a DEF TypeOK, Claims
  <2>4. Unclaimed'
    BY <2>a DEF TypeOK, Unclaimed, Claims
  <2>5. Uses'
    BY <2>a DEF Joining, TypeOK, Claims, Progress, Uses, Joins
  <2>6. Joins'
    BY <2>a DEF Joining, TypeOK, Joins, Claims
  <2>7. Detaches'
    BY <2>a DEF TypeOK, Detaches, Claims
  <2>8. Registered'
    BY <2>a DEF TypeOK, Registered
  <2>9. Progress'
    BY DEF Progress
  <2> QED  BY <2>1, <2>2, <2>3, <2>4, <2>5, <2>6, <2>7, <2>8, <2>9 DEF Inv
<1>19. ASSUME NEW k \in Tasks, DetachReadsHandle(k)  PROVE Inv'
  <2> USE <1>19 DEF DetachReadsHandle, Leave
  <2>a. arg[k] \in Threads
    BY DEF TypeOK, Claims
  <2>1. TypeOK'
    BY <2>a DEF TypeOK
  <2>2. Claims'
    BY <2>a DEF TypeOK, Claims
  <2>3. Joins'
    BY <2>a DEF Joining, TypeOK, Joins
  <2>4. Detaches'
    BY <2>a DEF TypeOK, Detaches
  <2>5. Registered'
    BY <2>a DEF TypeOK, Registered
  <2>6. Unborn' /\ Unclaimed' /\ Progress' /\ Uses'
    BY DEF Unborn, Unclaimed, Progress, Uses
  <2> QED  BY <2>1, <2>2, <2>3, <2>4, <2>5, <2>6 DEF Inv
<1>20. ASSUME NEW k \in Tasks, DetachMarks(k)  PROVE Inv'
  <2> USE <1>20 DEF DetachMarks
  <2>a. arg[k] \in Threads
    BY DEF TypeOK, Claims
  <2>1. TypeOK'
    BY <2>a DEF TypeOK
  <2>2. Unborn'
    BY <2>a DEF TypeOK, Unborn, Claims
  <2>3. Claims'
    BY <2>a DEF TypeOK, Claims
  <2>4. Unclaimed'
    BY <2>a DEF TypeOK, Unclaimed, Claims
  <2>5. Progress'
    BY <2>a DEF TypeOK, Progress
  <2>6. Uses'
    BY <2>a DEF TypeOK, Progress, Uses, Detaches
  <2>7. Joins'
    BY <2>a DEF Joining, TypeOK, Joins, Claims
  <2>8. Detaches'
    BY <2>a DEF TypeOK, Detaches, Claims
  <2>9. Registered'
    BY <2>a DEF TypeOK, Registered
  <2> QED  BY <2>1, <2>2, <2>3, <2>4, <2>5, <2>6, <2>7, <2>8, <2>9 DEF Inv
<1>21. ASSUME NEW k \in Tasks, DetachClearsHandle(k)  PROVE Inv'
  <2> USE <1>21 DEF DetachClearsHandle, Leave
  <2>a. arg[k] \in Threads
    BY DEF TypeOK, Claims
  <2>1. TypeOK'
    BY <2>a DEF TypeOK
  <2>2. Claims'
    BY <2>a DEF TypeOK, Claims
  <2>3. Unclaimed'
    BY <2>a DEF TypeOK, Unclaimed, Claims
  <2>4. Joins'
    BY <2>a DEF Joining, TypeOK, Joins, Claims
  <2>5. Detaches'
    BY <2>a DEF TypeOK, Detaches
  <2>6. Registered'
    BY <2>a DEF TypeOK, Registered
  <2>7. Unborn' /\ Progress' /\ Uses'
    BY DEF Unborn, Progress, Uses
  <2> QED  BY <2>1, <2>2, <2>3, <2>4, <2>5, <2>6, <2>7 DEF Inv
<1>22. CASE UNCHANGED vars
  BY <1>22 DEF vars, Inv, Joining, TypeOK, Unborn, Claims, Unclaimed,
    Progress, Uses, Joins, Detaches, Registered
<1> QED
  BY <1>1, <1>2, <1>3, <1>4, <1>5, <1>6, <1>7, <1>8, <1>9, <1>10, <1>11,
    <1>12, <1>13, <1>14, <1>15, <1>16, <1>17, <1>18, <1>19, <1>20, <1>21,
    <1>22
  DEF Next, ChildStep, JoinStep, DetachStep

\* So it holds in every reachable state.
LEMMA Invariance == Spec => []Inv
BY InvInit, InvStep, PTL DEF Spec

-----------------------------------------------------------------------------
(* Theorems                                                                *)

\* Every variable keeps its type; in particular td->join_signal is set
\* exactly while td->join_task is.
THEOREM TypeCorrect == Spec => []TypeOK
<1>1. Inv => TypeOK
  BY DEF Inv
<1> QED  BY <1>1, Invariance, PTL

\* Neither the thread nor its joiner touches a block that has been freed.
THEOREM MemorySafe == Spec => []MemoryStaysUntilUsed
<1>1. Inv => MemoryStaysUntilUsed
  BY DEF Inv, Uses, Joins, Detaches, MemoryStaysUntilUsed
<1> QED  BY <1>1, Invariance, PTL

\* Neither block is freed twice.
THEOREM NoDoubleFree == Spec => []FreedOnce
<1>1. Inv => FreedOnce
  BY DEF Inv, Progress, Uses, Joins, Joining, Detaches, FreedOnce
<1> QED  BY <1>1, Invariance, PTL

\* SDL_WaitThread frees the thread's memory after the thread's last use of it.
THEOREM JoinIsSafe == Spec => []JoinWaitsForEnd
<1>1. Inv => JoinWaitsForEnd
  BY DEF Inv, TypeOK, Claims, Progress, Joins, Joining, JoinWaitsForEnd
<1> QED  BY <1>1, Invariance, PTL

\* OS3_ThreadEntry signals only a task inside Wait() for that thread.
THEOREM SleeperSignalled == Spec => []SignalsASleeper
<1>1. Inv => SignalsASleeper
  BY DEF Inv, TypeOK, Progress, Joins, Registered, SignalsASleeper
<1> QED  BY <1>1, Invariance, PTL

\* A thread is joined or left to itself, never both.
THEOREM OnePath == Spec => []OneDisposer
<1>1. Inv => OneDisposer
  BY DEF Inv, TypeOK, Joins, Joining, Registered, OneDisposer
<1> QED  BY <1>1, Invariance, PTL

\* Whoever gets to the end first, neither block is lost or freed twice.
THEOREM BlocksSafe == Spec => []BlocksAreSafe
BY MemorySafe, NoDoubleFree, OnePath, PTL DEF BlocksAreSafe
=============================================================================

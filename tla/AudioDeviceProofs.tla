------------------------- MODULE AudioDeviceProofs -------------------------
(***************************************************************************)
(* What AudioDevice promises for any number of callers and of callbacks    *)
(* that wait, proved from its inductive invariant.                         *)
(*                                                                         *)
(* The invariant says that shutdown stands for one caller that closes the  *)
(* device and for the stage it is at; that the audio thread lives as long  *)
(* as the device is open; that the back end is asked only while it can     *)
(* answer; that the books it keeps agree with what AHI has; and that       *)
(* reports of a loss are made only by a thread that has had the device.    *)
(***************************************************************************)
EXTENDS AudioDevice, FiniteSetTheorems, TLAPS

AtWork(c) == pc[c] \in {"join", "finish"}

\* One caller closes the device at a time, and nobody has it open meanwhile.
ClosingInv ==
    /\ shutdown <=> \E c \in Callers : AtWork(c)
    /\ \A c, d \in Callers : AtWork(c) /\ AtWork(d) => c = d
    /\ shutdown => orphans = 0 /\ \A c \in Callers : logical[c] = "no"
    /\ \A c \in Callers : pc[c] = "finish" => ~currently_opened
    /\ \A c \in Callers : pc[c] = "close" => logical[c] # "no"

\* The audio thread lives as long as the device is open, and while the device
\* is not lost whatever there is on it was opened with the thread.
ThreadInv ==
    /\ currently_opened /\ ~shutdown => thread \notin {"none", "drain", "ended"}
    /\ ~currently_opened => thread = "none" /\ ~hidden
    /\ thread # "none" => hidden
    /\ thread \in {"drain", "ended"} => shutdown
    /\ served # {} => currently_opened
    /\ \A c \in served : logical[c] # "no"
    /\ zombie = 0 => \A c \in Callers : logical[c] # "no" => c \in served
    /\ zombie = 0 /\ orphans > 0 => currently_opened

\* The back end is asked only if it is usable, and for a buffer that is free.
AskingInv ==
    /\ zombie = 2 => functions # "backend"
    /\ currently_opened => functions # "none"
    /\ thread = "init" => ~thread_open_failed
    /\ thread = "iterate" /\ Calls = "backend" => Usable /\ ~in_flight[current]
    /\ thread \in {"report", "wait", "waitio"} /\ functions = "backend" => Usable
    /\ thread = "waitio" => in_flight[current]

\* The requests in flight are those that AHI has or has replied to.
RequestsInv ==
    /\ \A s \in Slots : in_flight[s] <=> io[s] # "idle"
    /\ \A s \in Slots : in_flight[s] => device_open
    /\ \A s \in Slots : io[s] = "queued" => io[Other(s)] = "playing"
    /\ ~(io[0] = "playing" /\ io[1] = "playing")
    /\ thread \in {"none", "init", "unopened", "ended"} =>
          ~device_open /\ \A s \in Slots : ~in_flight[s]

\* A callback runs only if the loss was reported, and there is room for the
\* next report.
CallbackInv ==
    /\ zombie = 0 => callbacks = 0
    /\ thread \in {"init", "unopened"} => zombie = 0
    /\ thread = "report" => callbacks < MaxCallbacks
    /\ pc[Main] = "callback" => callbacks > 0

Inv ==
    TypeOK /\ ClosingInv /\ ThreadInv /\ AskingInv /\ RequestsInv /\ CallbackInv

-----------------------------------------------------------------------------
(* The invariant holds                                                     *)

\* The device is made closed, with nothing in flight and nobody using it.
LEMMA InvInit == Init => Inv
<1> SUFFICES ASSUME Init PROVE Inv
  OBVIOUS
<1> USE AudioAssumption DEF Init
<1>1. TypeOK
  <2>1. AHITypeOK
    BY DEF AHIInit, AHITypeOK, Slots
  <2>2. callbacks \in 0..MaxCallbacks
    BY DEF AudioAssumption
  <2>3. /\ pc \in [Callers -> {"idle", "open", "asleep", "woken", "close",
                             "join", "finish", "callback"}]
        /\ goal \in [Callers -> {"close", "fail", "quit"}]
        /\ wants \in [Callers -> Kinds]
        /\ logical \in [Callers -> {"no"} \cup Kinds]
    BY DEF Kinds
  <2>4. refcount \in Int /\ zombie \in 0..2 /\ orphans \in 0..MaxOrphans
    OBVIOUS
  <2>5. shutdown \in BOOLEAN /\ currently_opened \in BOOLEAN /\ alive \in BOOLEAN
    BY ZenonT(30)
  <2>6. /\ told \subseteq Callers
        /\ served \subseteq Callers
        /\ late \subseteq Callers
        /\ functions \in {"none", "backend", "zombie"}
        /\ thread \in {"none", "init", "unopened", "iterate", "report", "wait",
                       "waitio", "drain", "ended"}
    BY ZenonT(30)
  <2> HIDE DEF Init
  <2> QED  BY <2>1, <2>2, <2>3, <2>4, <2>5, <2>6 DEF TypeOK
<1>2. ClosingInv
  BY DEF AHIInit, Slots, ClosingInv, AtWork
<1>3. ThreadInv
  BY DEF AHIInit, Slots, ThreadInv
<1>4. AskingInv
  BY DEF AHIInit, Slots, AskingInv, Calls, Usable
<1>5. RequestsInv
  BY DEF AHIInit, Slots, RequestsInv, Other
<1>6. CallbackInv
  BY DEF AHIInit, Slots, AudioAssumption, CallbackInv
<1> QED  BY <1>1, <1>2, <1>3, <1>4, <1>5, <1>6 DEF Inv

\* Every step keeps it.
LEMMA InvStep == Inv /\ [Next]_vars => Inv'
<1> SUFFICES ASSUME Inv, [Next]_vars PROVE Inv'
  OBVIOUS
<1> USE AudioAssumption DEF Inv, ghosts
<1>1. ASSUME NEW c \in Callers, NEW kind \in Kinds, StartOpen(c, kind) PROVE Inv'
  <2>1. TypeOK'
    BY <1>1 DEF TypeOK, AHITypeOK, Kinds, Slots, StartOpen, At, ahi
  <2>2. ClosingInv'
    BY <1>1 DEF TypeOK, Kinds, ClosingInv, AtWork, StartOpen, At, ahi
  <2>3. ThreadInv'
    BY <1>1 DEF TypeOK, AHITypeOK, ThreadInv, ClosingInv, AtWork, StartOpen, At,
        ahi
  <2>4. AskingInv'
    BY <1>1 DEF TypeOK, AHITypeOK, Slots, AskingInv, ThreadInv, Calls, Usable,
        StartOpen, At, ahi
  <2>5. RequestsInv'
    BY <1>1 DEF TypeOK, AHITypeOK, Slots, RequestsInv, ThreadInv, Other,
        StartOpen, At, ahi
  <2>6. CallbackInv'
    BY <1>1 DEF TypeOK, CallbackInv, ThreadInv, StartOpen, At, ahi
  <2> QED  BY <2>1, <2>2, <2>3, <2>4, <2>5, <2>6
<1>2. ASSUME NEW c \in Callers, Refuse(c) PROVE Inv'
  <2>1. TypeOK'
    BY <1>2 DEF TypeOK, AHITypeOK, Kinds, Slots, Refuse, At, ahi
  <2>2. ClosingInv'
    BY <1>2 DEF TypeOK, Kinds, ClosingInv, AtWork, Refuse, At, ahi
  <2>3. ThreadInv'
    BY <1>2 DEF TypeOK, AHITypeOK, ThreadInv, ClosingInv, AtWork, Refuse, At,
        ahi
  <2>4. AskingInv'
    BY <1>2 DEF TypeOK, AHITypeOK, Slots, AskingInv, ThreadInv, Calls, Usable,
        Refuse, At, ahi
  <2>5. RequestsInv'
    BY <1>2 DEF TypeOK, AHITypeOK, Slots, RequestsInv, ThreadInv, Other, Refuse,
        At, ahi
  <2>6. CallbackInv'
    BY <1>2 DEF TypeOK, CallbackInv, ThreadInv, Refuse, At, ahi
  <2> QED  BY <2>1, <2>2, <2>3, <2>4, <2>5, <2>6
<1>3. ASSUME NEW c \in Callers, Sleep(c) PROVE Inv'
  <2>1. TypeOK'
    BY <1>3 DEF TypeOK, AHITypeOK, Kinds, Slots, Sleep, Opening, At, core, ahi
  <2>2. ClosingInv'
    BY <1>3 DEF TypeOK, Kinds, ClosingInv, AtWork, Sleep, Opening, At, core, ahi
  <2>3. ThreadInv'
    BY <1>3 DEF TypeOK, AHITypeOK, ThreadInv, ClosingInv, AtWork, Sleep,
        Opening, At, core, ahi
  <2>4. AskingInv'
    BY <1>3 DEF TypeOK, AHITypeOK, Slots, AskingInv, ThreadInv, Calls, Usable,
        Sleep, Opening, At, core, ahi
  <2>5. RequestsInv'
    BY <1>3 DEF TypeOK, AHITypeOK, Slots, RequestsInv, ThreadInv, Other, Sleep,
        Opening, At, core, ahi
  <2>6. CallbackInv'
    BY <1>3 DEF TypeOK, CallbackInv, ThreadInv, Sleep, Opening, At, core, ahi
  <2> QED  BY <2>1, <2>2, <2>3, <2>4, <2>5, <2>6
<1>4. ASSUME NEW c \in Callers, Share(c) PROVE Inv'
  <2>1. TypeOK'
    BY <1>4 DEF TypeOK, AHITypeOK, Kinds, Slots, Share, AddLogical, Opening,
        MustWait, At, ahi
  <2>2. ClosingInv'
    BY <1>4 DEF TypeOK, Kinds, ClosingInv, AtWork, Share, AddLogical, Opening,
        MustWait, At, ahi
  <2>3. ThreadInv'
    BY <1>4 DEF TypeOK, AHITypeOK, ThreadInv, ClosingInv, AtWork, Share,
        AddLogical, Opening, MustWait, At, Kinds, ahi
  <2>4. AskingInv'
    BY <1>4 DEF TypeOK, AHITypeOK, Slots, AskingInv, ThreadInv, Calls, Usable,
        Share, AddLogical, Opening, MustWait, At, Kinds, ahi
  <2>5. RequestsInv'
    BY <1>4 DEF TypeOK, AHITypeOK, Slots, RequestsInv, ThreadInv, Other, Share,
        AddLogical, Opening, MustWait, At, Kinds, ahi
  <2>6. CallbackInv'
    BY <1>4 DEF TypeOK, CallbackInv, ThreadInv, Share, AddLogical, Opening,
        MustWait, At, Kinds, ahi
  <2> QED  BY <2>1, <2>2, <2>3, <2>4, <2>5, <2>6
<1>5. ASSUME NEW c \in Callers, OpenPhysical(c) PROVE Inv'
  <2>1. TypeOK'
    <3>1. AHITypeOK'
      BY <1>5 DEF TypeOK, AHITypeOK, Slots, OpenPhysical, OpenDevice
    <3>2. /\ logical' \in [Callers -> {"no"} \cup Kinds]
          /\ orphans' \in 0..MaxOrphans
      BY <1>5 DEF TypeOK, OpenPhysical, AddLogical
    <3>3. served' \subseteq Callers /\ late' \subseteq Callers
      BY <1>5 DEF TypeOK, OpenPhysical, AddLogical
    <3> QED
      BY <1>5, <3>1, <3>2, <3>3 DEF TypeOK, Kinds, OpenPhysical, AddLogical, At
  <2>2. ClosingInv'
    BY <1>5 DEF TypeOK, Kinds, ClosingInv, AtWork, OpenPhysical, Fresh, Opening,
        MustWait, AddLogical, OpenDevice, At
  <2>3. ThreadInv'
    BY <1>5 DEF TypeOK, AHITypeOK, ThreadInv, ClosingInv, AtWork, OpenPhysical,
        Fresh, Opening, MustWait, AddLogical, OpenDevice, At, Kinds
  <2>4. AskingInv'
    BY <1>5 DEF TypeOK, AHITypeOK, Slots, AskingInv, ThreadInv, Calls, Usable,
        OpenPhysical, Fresh, Opening, MustWait, AddLogical, OpenDevice, At,
        Kinds
  <2>5. RequestsInv'
    BY <1>5 DEF TypeOK, AHITypeOK, Slots, RequestsInv, ThreadInv, Other,
        OpenPhysical, Fresh, Opening, MustWait, AddLogical, OpenDevice, At,
        Kinds
  <2>6. CallbackInv'
    BY <1>5 DEF TypeOK, CallbackInv, ThreadInv, OpenPhysical, Fresh, Opening,
        MustWait, AddLogical, OpenDevice, At, Kinds
  <2> QED  BY <2>1, <2>2, <2>3, <2>4, <2>5, <2>6
<1>6. ASSUME NEW c \in Callers, OpenFails(c) PROVE Inv'
  <2>1. TypeOK'
    <3>1. CASE OpenDevice
      BY <1>6, <3>1 DEF TypeOK, AHITypeOK, Kinds, Slots, OpenFails, Fresh,
          Opening, MustWait, OpenDevice, At, ahi
    <3>2. CASE UNCHANGED ahi
      BY <1>6, <3>2 DEF TypeOK, AHITypeOK, Kinds, Slots, OpenFails, Fresh,
          Opening, MustWait, OpenDevice, At, ahi
    <3> QED  BY <1>6, <3>1, <3>2 DEF OpenFails
  <2>2. ClosingInv'
    <3>1. CASE OpenDevice
      BY <1>6, <3>1 DEF TypeOK, Kinds, ClosingInv, AtWork, ThreadInv, OpenFails,
          Fresh, Opening, MustWait, OpenDevice, At, ahi
    <3>2. CASE UNCHANGED ahi
      BY <1>6, <3>2 DEF TypeOK, Kinds, ClosingInv, AtWork, ThreadInv, OpenFails,
          Fresh, Opening, MustWait, OpenDevice, At, ahi
    <3> QED  BY <1>6, <3>1, <3>2 DEF OpenFails
  <2>3. ThreadInv'
    <3>1. CASE OpenDevice
      BY <1>6, <3>1 DEF TypeOK, AHITypeOK, ThreadInv, ClosingInv, AtWork,
          OpenFails, Fresh, Opening, MustWait, OpenDevice, At, ahi
    <3>2. CASE UNCHANGED ahi
      BY <1>6, <3>2 DEF TypeOK, AHITypeOK, ThreadInv, ClosingInv, AtWork,
          OpenFails, Fresh, Opening, MustWait, OpenDevice, At, ahi
    <3> QED  BY <1>6, <3>1, <3>2 DEF OpenFails
  <2>4. AskingInv'
    <3>1. CASE OpenDevice
      BY <1>6, <3>1 DEF TypeOK, AHITypeOK, Slots, AskingInv, ThreadInv, Calls,
          Usable, OpenFails, Fresh, Opening, MustWait, OpenDevice, At, ahi
    <3>2. CASE UNCHANGED ahi
      BY <1>6, <3>2 DEF TypeOK, AHITypeOK, Slots, AskingInv, ThreadInv, Calls,
          Usable, OpenFails, Fresh, Opening, MustWait, OpenDevice, At, ahi
    <3> QED  BY <1>6, <3>1, <3>2 DEF OpenFails
  <2>5. RequestsInv'
    <3>1. CASE OpenDevice
      BY <1>6, <3>1 DEF TypeOK, AHITypeOK, Slots, RequestsInv, ThreadInv, Other,
          OpenFails, Fresh, Opening, MustWait, OpenDevice, At, ahi
    <3>2. CASE UNCHANGED ahi
      BY <1>6, <3>2 DEF TypeOK, AHITypeOK, Slots, RequestsInv, ThreadInv, Other,
          OpenFails, Fresh, Opening, MustWait, OpenDevice, At, ahi
    <3> QED  BY <1>6, <3>1, <3>2 DEF OpenFails
  <2>6. CallbackInv'
    <3>1. CASE OpenDevice
      BY <1>6, <3>1 DEF TypeOK, CallbackInv, ThreadInv, OpenFails, Fresh,
          Opening, MustWait, OpenDevice, At, ahi
    <3>2. CASE UNCHANGED ahi
      BY <1>6, <3>2 DEF TypeOK, CallbackInv, ThreadInv, OpenFails, Fresh,
          Opening, MustWait, OpenDevice, At, ahi
    <3> QED  BY <1>6, <3>1, <3>2 DEF OpenFails
  <2> QED  BY <2>1, <2>2, <2>3, <2>4, <2>5, <2>6
<1>7. ASSUME NEW c \in Callers, StartClose(c) PROVE Inv'
  <2>1. TypeOK'
    BY <1>7 DEF TypeOK, AHITypeOK, Kinds, Slots, StartClose, At, ahi
  <2>2. ClosingInv'
    BY <1>7 DEF TypeOK, Kinds, ClosingInv, AtWork, StartClose, At, ahi
  <2>3. ThreadInv'
    BY <1>7 DEF TypeOK, AHITypeOK, ThreadInv, ClosingInv, AtWork, StartClose,
        At, ahi
  <2>4. AskingInv'
    BY <1>7 DEF TypeOK, AHITypeOK, Slots, AskingInv, ThreadInv, Calls, Usable,
        StartClose, At, ahi
  <2>5. RequestsInv'
    BY <1>7 DEF TypeOK, AHITypeOK, Slots, RequestsInv, ThreadInv, Other,
        StartClose, At, ahi
  <2>6. CallbackInv'
    BY <1>7 DEF TypeOK, CallbackInv, ThreadInv, StartClose, At, ahi
  <2> QED  BY <2>1, <2>2, <2>3, <2>4, <2>5, <2>6
<1>8. ASSUME NEW c \in Callers, CloseLogical(c) PROVE Inv'
  <2>1. TypeOK'
    BY <1>8 DEF TypeOK, AHITypeOK, Kinds, Slots, CloseLogical, DropLogical, At,
        ahi
  <2>2. ClosingInv'
    BY <1>8 DEF TypeOK, Kinds, ClosingInv, AtWork, CloseLogical, DropLogical,
        At, ahi
  <2>3. ThreadInv'
    BY <1>8 DEF TypeOK, AHITypeOK, ThreadInv, ClosingInv, AtWork, CloseLogical,
        DropLogical, At, ahi
  <2>4. AskingInv'
    BY <1>8 DEF TypeOK, AHITypeOK, Slots, AskingInv, ThreadInv, Calls, Usable,
        CloseLogical, DropLogical, At, ahi
  <2>5. RequestsInv'
    BY <1>8 DEF TypeOK, AHITypeOK, Slots, RequestsInv, ThreadInv, Other,
        CloseLogical, DropLogical, At, ahi
  <2>6. CallbackInv'
    BY <1>8 DEF TypeOK, CallbackInv, ThreadInv, CloseLogical, DropLogical, At,
        ahi
  <2> QED  BY <2>1, <2>2, <2>3, <2>4, <2>5, <2>6
<1>9. ASSUME NEW c \in Callers, CloseLast(c) PROVE Inv'
  <2>1. TypeOK'
    BY <1>9 DEF TypeOK, AHITypeOK, Kinds, Slots, CloseLast, DropLogical,
        BeginClose, MustWait, Open, At, ahi
  <2>2. ClosingInv'
    BY <1>9 DEF TypeOK, Kinds, ClosingInv, AtWork, CloseLast, DropLogical,
        BeginClose, MustWait, Open, At, ahi
  <2>3. ThreadInv'
    BY <1>9 DEF TypeOK, AHITypeOK, ThreadInv, ClosingInv, AtWork, CloseLast,
        DropLogical, BeginClose, MustWait, Open, At, ahi
  <2>4. AskingInv'
    BY <1>9 DEF TypeOK, AHITypeOK, Slots, AskingInv, ThreadInv, Calls, Usable,
        CloseLast, DropLogical, BeginClose, MustWait, Open, At, ahi
  <2>5. RequestsInv'
    BY <1>9 DEF TypeOK, AHITypeOK, Slots, RequestsInv, ThreadInv, Other,
        CloseLast, DropLogical, BeginClose, MustWait, Open, At, ahi
  <2>6. CallbackInv'
    BY <1>9 DEF TypeOK, CallbackInv, ThreadInv, CloseLast, DropLogical,
        BeginClose, MustWait, Open, At, ahi
  <2> QED  BY <2>1, <2>2, <2>3, <2>4, <2>5, <2>6
<1>10. ASSUME Quit PROVE Inv'
  <2>1. TypeOK'
    BY <1>10 DEF TypeOK, AHITypeOK, Kinds, Slots, Quit, BeginClose, MustWait,
        At, ahi
  <2>2. ClosingInv'
    BY <1>10 DEF TypeOK, Kinds, ClosingInv, AtWork, Quit, BeginClose, MustWait,
        At, ahi
  <2>3. ThreadInv'
    BY <1>10 DEF TypeOK, AHITypeOK, ThreadInv, ClosingInv, AtWork, Quit,
        BeginClose, MustWait, At, ahi
  <2>4. AskingInv'
    BY <1>10 DEF TypeOK, AHITypeOK, Slots, AskingInv, ThreadInv, Calls, Usable,
        Quit, BeginClose, MustWait, At, ahi
  <2>5. RequestsInv'
    BY <1>10 DEF TypeOK, AHITypeOK, Slots, RequestsInv, ThreadInv, Other, Quit,
        BeginClose, MustWait, At, ahi
  <2>6. CallbackInv'
    BY <1>10 DEF TypeOK, CallbackInv, ThreadInv, Quit, BeginClose, MustWait, At,
        ahi
  <2> QED  BY <2>1, <2>2, <2>3, <2>4, <2>5, <2>6
<1>11. ASSUME NEW c \in Callers, Join(c) PROVE Inv'
  <2>1. TypeOK'
    <3>1. AHITypeOK'
      <4>1. CASE currently_opened /\ hidden
        <5>1. /\ hidden' = FALSE
              /\ thread_open_failed' = FALSE
              /\ io' = [s \in Slots |-> IF Finished(s) THEN "idle" ELSE io[s]]
              /\ in_flight' = [s \in Slots |-> FALSE]
              /\ current' = 0
              /\ device_open' = FALSE
          BY <1>11, <4>1 DEF Join, CloseDevice, CloseAHI
        <5>2. io' \in [Slots -> {"idle", "queued", "playing", "replied"}]
          BY <5>1 DEF TypeOK, AHITypeOK
        <5>3. in_flight' \in [Slots -> BOOLEAN]
          BY <5>1
        <5> QED
          BY <5>1, <5>2, <5>3 DEF AHITypeOK, Slots
      <4>2. CASE currently_opened /\ ~hidden
        BY <1>11, <4>2 DEF TypeOK, AHITypeOK, Slots, Join, CloseDevice
      <4>3. CASE ~currently_opened
        BY <1>11, <4>3 DEF TypeOK, AHITypeOK, Slots, Join, ahi
      <4> QED  BY <4>1, <4>2, <4>3
    <3> QED
      BY <1>11, <3>1 DEF TypeOK, Kinds, Join, At
  <2>2. ClosingInv'
    BY <1>11 DEF TypeOK, Kinds, ClosingInv, AtWork, Join, Joined, CloseDevice,
        CloseAHI, Finished, At, ahi
  <2>3. ThreadInv'
    BY <1>11 DEF TypeOK, AHITypeOK, ThreadInv, ClosingInv, AtWork, Join, Joined,
        CloseDevice, CloseAHI, Finished, At, ahi
  <2>4. AskingInv'
    BY <1>11 DEF TypeOK, AHITypeOK, Slots, AskingInv, ThreadInv, Calls, Usable,
        Join, Joined, CloseDevice, CloseAHI, Finished, At, ahi
  <2>5. RequestsInv'
    BY <1>11 DEF TypeOK, AHITypeOK, Slots, RequestsInv, ThreadInv, Other, Join,
        Joined, CloseDevice, CloseAHI, Finished, At, ahi
  <2>6. CallbackInv'
    BY <1>11 DEF TypeOK, CallbackInv, ThreadInv, Join, Joined, CloseDevice,
        CloseAHI, Finished, At, ahi
  <2> QED  BY <2>1, <2>2, <2>3, <2>4, <2>5, <2>6
<1>12. ASSUME NEW c \in Callers, Finish(c) PROVE Inv'
  <2>1. TypeOK'
    <3>1. Unrefs[goal[c]] \in Int
      BY <1>12 DEF TypeOK, Unrefs
    <3>2. refcount' \in Int
      BY <1>12, <3>1 DEF TypeOK, Finish
    <3>3. pc' \in [Callers -> {"idle", "open", "asleep", "woken", "close",
                              "join", "finish", "callback"}]
      BY <1>12 DEF TypeOK, Finish, Awake
    <3>4. alive' \in BOOLEAN
      BY <1>12 DEF Finish
    <3> QED
      BY <1>12, <3>2, <3>3, <3>4 DEF TypeOK, AHITypeOK, Kinds, Finish, ahi
  <2>2. ClosingInv'
    BY <1>12 DEF TypeOK, Kinds, ClosingInv, AtWork, Finish, Awake, Unrefs, ahi
  <2>3. ThreadInv'
    BY <1>12 DEF TypeOK, AHITypeOK, ThreadInv, ClosingInv, AtWork, Finish,
        Awake, Unrefs, ahi
  <2>4. AskingInv'
    BY <1>12 DEF TypeOK, AHITypeOK, Slots, AskingInv, ThreadInv, Calls, Usable,
        Finish, Awake, Unrefs, ahi
  <2>5. RequestsInv'
    BY <1>12 DEF TypeOK, AHITypeOK, Slots, RequestsInv, ThreadInv, Other,
        Finish, Awake, Unrefs, ahi
  <2>6. CallbackInv'
    BY <1>12 DEF TypeOK, CallbackInv, ThreadInv, Finish, Awake, Unrefs, ahi
  <2> QED  BY <2>1, <2>2, <2>3, <2>4, <2>5, <2>6
<1>13. ASSUME StartCallback PROVE Inv'
  <2>1. TypeOK'
    BY <1>13 DEF TypeOK, AHITypeOK, Kinds, Slots, StartCallback, At, ahi
  <2>2. ClosingInv'
    BY <1>13 DEF TypeOK, Kinds, ClosingInv, AtWork, StartCallback, At, ahi
  <2>3. ThreadInv'
    BY <1>13 DEF TypeOK, AHITypeOK, ThreadInv, ClosingInv, AtWork,
        StartCallback, At, ahi
  <2>4. AskingInv'
    BY <1>13 DEF TypeOK, AHITypeOK, Slots, AskingInv, ThreadInv, Calls, Usable,
        StartCallback, At, ahi
  <2>5. RequestsInv'
    BY <1>13 DEF TypeOK, AHITypeOK, Slots, RequestsInv, ThreadInv, Other,
        StartCallback, At, ahi
  <2>6. CallbackInv'
    BY <1>13 DEF TypeOK, CallbackInv, ThreadInv, StartCallback, At, ahi
  <2> QED  BY <2>1, <2>2, <2>3, <2>4, <2>5, <2>6
<1>14. ASSUME CallbackTooLate PROVE Inv'
  <2>1. TypeOK'
    BY <1>14 DEF TypeOK, AHITypeOK, Kinds, Slots, CallbackTooLate, calls, core,
        ahi
  <2>2. ClosingInv'
    BY <1>14 DEF TypeOK, Kinds, ClosingInv, AtWork, CallbackTooLate, calls,
        core, ahi
  <2>3. ThreadInv'
    BY <1>14 DEF TypeOK, AHITypeOK, ThreadInv, ClosingInv, AtWork,
        CallbackTooLate, calls, core, ahi
  <2>4. AskingInv'
    BY <1>14 DEF TypeOK, AHITypeOK, Slots, AskingInv, ThreadInv, Calls, Usable,
        CallbackTooLate, calls, core, ahi
  <2>5. RequestsInv'
    BY <1>14 DEF TypeOK, AHITypeOK, Slots, RequestsInv, ThreadInv, Other,
        CallbackTooLate, calls, core, ahi
  <2>6. CallbackInv'
    BY <1>14 DEF TypeOK, CallbackInv, ThreadInv, CallbackTooLate, calls, core,
        ahi
  <2> QED  BY <2>1, <2>2, <2>3, <2>4, <2>5, <2>6
<1>15. ASSUME Disconnect PROVE Inv'
  <2>1. TypeOK'
    BY <1>15 DEF TypeOK, AHITypeOK, Kinds, Slots, CallbackInv, Disconnect,
        FirstDisconnect, At, ahi
  <2>2. ClosingInv'
    BY <1>15 DEF TypeOK, Kinds, ClosingInv, AtWork, Disconnect, FirstDisconnect,
        At, ahi
  <2>3. ThreadInv'
    BY <1>15 DEF TypeOK, AHITypeOK, ThreadInv, ClosingInv, AtWork, Disconnect,
        FirstDisconnect, At, ahi
  <2>4. AskingInv'
    BY <1>15 DEF TypeOK, AHITypeOK, Slots, AskingInv, ThreadInv, Calls, Usable,
        Disconnect, FirstDisconnect, At, ahi
  <2>5. RequestsInv'
    BY <1>15 DEF TypeOK, AHITypeOK, Slots, RequestsInv, ThreadInv, Other,
        Disconnect, FirstDisconnect, At, ahi
  <2>6. CallbackInv'
    BY <1>15 DEF TypeOK, CallbackInv, ThreadInv, Disconnect, FirstDisconnect,
        At, ahi
  <2> QED  BY <2>1, <2>2, <2>3, <2>4, <2>5, <2>6
<1>16. ASSUME ThreadInit PROVE Inv'
  <2>1. TypeOK'
    <3>1. CASE OpenAHI
      BY <1>16, <3>1 DEF TypeOK, AHITypeOK, Kinds, Slots, ThreadInit, OpenAHI,
          OpenAHIFails, Idly, calls
    <3>2. CASE OpenAHIFails
      BY <1>16, <3>2 DEF TypeOK, AHITypeOK, Kinds, Slots, ThreadInit, OpenAHI,
          OpenAHIFails, Idly, calls
    <3> QED  BY <1>16, <3>1, <3>2 DEF ThreadInit
  <2>2. ClosingInv'
    <3>1. CASE OpenAHI
      BY <1>16, <3>1 DEF TypeOK, Kinds, ClosingInv, AtWork, ThreadInit, OpenAHI,
          OpenAHIFails, Idly, calls
    <3>2. CASE OpenAHIFails
      BY <1>16, <3>2 DEF TypeOK, Kinds, ClosingInv, AtWork, ThreadInit, OpenAHI,
          OpenAHIFails, Idly, calls
    <3> QED  BY <1>16, <3>1, <3>2 DEF ThreadInit
  <2>3. ThreadInv'
    <3>1. CASE OpenAHI
      BY <1>16, <3>1 DEF TypeOK, AHITypeOK, ThreadInv, ClosingInv, AtWork,
          ThreadInit, OpenAHI, OpenAHIFails, Idly, calls
    <3>2. CASE OpenAHIFails
      BY <1>16, <3>2 DEF TypeOK, AHITypeOK, ThreadInv, ClosingInv, AtWork,
          ThreadInit, OpenAHI, OpenAHIFails, Idly, calls
    <3> QED  BY <1>16, <3>1, <3>2 DEF ThreadInit
  <2>4. AskingInv'
    <3>1. CASE OpenAHI
      BY <1>16, <3>1 DEF TypeOK, AHITypeOK, Slots, AskingInv, ThreadInv, Calls,
          Usable, ThreadInit, OpenAHI, OpenAHIFails, Idly, calls
    <3>2. CASE OpenAHIFails
      BY <1>16, <3>2 DEF TypeOK, AHITypeOK, Slots, AskingInv, ThreadInv, Calls,
          Usable, ThreadInit, OpenAHI, OpenAHIFails, Idly, calls
    <3> QED  BY <1>16, <3>1, <3>2 DEF ThreadInit
  <2>5. RequestsInv'
    <3>1. CASE OpenAHI
      BY <1>16, <3>1 DEF TypeOK, AHITypeOK, Slots, RequestsInv, ThreadInv,
          Other, ThreadInit, OpenAHI, OpenAHIFails, Idly, calls
    <3>2. CASE OpenAHIFails
      BY <1>16, <3>2 DEF TypeOK, AHITypeOK, Slots, RequestsInv, ThreadInv,
          Other, ThreadInit, OpenAHI, OpenAHIFails, Idly, calls
    <3> QED  BY <1>16, <3>1, <3>2 DEF ThreadInit
  <2>6. CallbackInv'
    <3>1. CASE OpenAHI
      BY <1>16, <3>1 DEF TypeOK, CallbackInv, ThreadInv, ThreadInit, OpenAHI,
          OpenAHIFails, Idly, calls
    <3>2. CASE OpenAHIFails
      BY <1>16, <3>2 DEF TypeOK, CallbackInv, ThreadInv, ThreadInit, OpenAHI,
          OpenAHIFails, Idly, calls
    <3> QED  BY <1>16, <3>1, <3>2 DEF ThreadInit
  <2> QED  BY <2>1, <2>2, <2>3, <2>4, <2>5, <2>6
<1>17. ASSUME Report PROVE Inv'
  <2>1. TypeOK'
    BY <1>17 DEF TypeOK, AHITypeOK, Kinds, Slots, CallbackInv, AudioAssumption,
        Report, Disconnected, Idly, calls, ahi
  <2>2. ClosingInv'
    BY <1>17 DEF TypeOK, Kinds, ClosingInv, AtWork, Report, Disconnected, Idly,
        calls, ahi
  <2>3. ThreadInv'
    BY <1>17 DEF TypeOK, AHITypeOK, ThreadInv, ClosingInv, AtWork, Report,
        Disconnected, Idly, calls, ahi
  <2>4. AskingInv'
    BY <1>17 DEF TypeOK, AHITypeOK, Slots, AskingInv, ThreadInv, Calls, Usable,
        Report, Disconnected, Idly, calls, ahi
  <2>5. RequestsInv'
    BY <1>17 DEF TypeOK, AHITypeOK, Slots, RequestsInv, ThreadInv, Other,
        Report, Disconnected, Idly, calls, ahi
  <2>6. CallbackInv'
    BY <1>17 DEF TypeOK, CallbackInv, ThreadInv, Report, Disconnected, Idly,
        calls, ahi
  <2> QED  BY <2>1, <2>2, <2>3, <2>4, <2>5, <2>6
<1>18. ASSUME Leave PROVE Inv'
  <2>1. TypeOK'
    BY <1>18 DEF TypeOK, AHITypeOK, Kinds, Slots, Leave, Idly, calls, ahi
  <2>2. ClosingInv'
    BY <1>18 DEF TypeOK, Kinds, ClosingInv, AtWork, Leave, Idly, calls, ahi
  <2>3. ThreadInv'
    BY <1>18 DEF TypeOK, AHITypeOK, ThreadInv, ClosingInv, AtWork, Leave, Idly,
        calls, ahi
  <2>4. AskingInv'
    BY <1>18 DEF TypeOK, AHITypeOK, Slots, AskingInv, ThreadInv, Calls, Usable,
        Leave, Idly, calls, ahi
  <2>5. RequestsInv'
    BY <1>18 DEF TypeOK, AHITypeOK, Slots, RequestsInv, ThreadInv, Other, Leave,
        Idly, calls, ahi
  <2>6. CallbackInv'
    BY <1>18 DEF TypeOK, CallbackInv, ThreadInv, Leave, Idly, calls, ahi
  <2> QED  BY <2>1, <2>2, <2>3, <2>4, <2>5, <2>6
<1>19. ASSUME Iterate PROVE Inv'
  <2>1. TypeOK'
    <3>1. AHITypeOK'
      <4>1. CASE Calls = "backend" /\ Playable
        <5>1. Send
          BY <1>19, <4>1 DEF Iterate
        <5>2. io' \in [Slots -> {"idle", "queued", "playing", "replied"}]
          BY <5>1 DEF Send, TypeOK, AHITypeOK
        <5>3. in_flight' \in [Slots -> BOOLEAN]
          BY <5>1 DEF Send, TypeOK, AHITypeOK
        <5>4. current' \in Slots
          BY <5>1 DEF Send, TypeOK, AHITypeOK, Slots, Other
        <5> QED
          BY <5>1, <5>2, <5>3, <5>4 DEF Send, TypeOK, AHITypeOK
      <4>2. CASE ~(Calls = "backend" /\ Playable)
        BY <1>19, <4>2 DEF TypeOK, AHITypeOK, Slots, Iterate, ahi
      <4> QED  BY <4>1, <4>2
    <3> QED
      BY <1>19, <3>1 DEF TypeOK, Kinds, Iterate, Calls, Idly, calls
  <2>2. ClosingInv'
    BY <1>19 DEF TypeOK, Kinds, ClosingInv, AtWork, Iterate, Calls, Playable,
        Usable, Send, Links, WithAHI, Other, Idly, calls, ahi
  <2>3. ThreadInv'
    BY <1>19 DEF TypeOK, AHITypeOK, ThreadInv, ClosingInv, AtWork, Iterate,
        Calls, Playable, Usable, Send, Links, WithAHI, Other, Idly, calls, ahi
  <2>4. AskingInv'
    BY <1>19 DEF TypeOK, AHITypeOK, Slots, AskingInv, ThreadInv, Calls, Usable,
        Iterate, Playable, Send, Links, WithAHI, Other, Idly, calls, ahi
  <2>5. RequestsInv'
    <3>1. thread' \in {"report", "wait"}
      BY <1>19 DEF Iterate
    <3>2. CASE Calls = "backend" /\ Playable
      <4>1. /\ io' = [io EXCEPT ![current] = IF Links /\ WithAHI(Other(current))
                                            THEN "queued" ELSE "playing"]
            /\ in_flight' = [in_flight EXCEPT ![current] = TRUE]
            /\ device_open' = device_open
        BY <1>19, <3>2 DEF Iterate, Send
      <4>2. device_open /\ ~in_flight[current] /\ io[current] = "idle"
        BY <3>2 DEF Playable, Usable, TypeOK, AHITypeOK, RequestsInv
      <4>3. WithAHI(Other(current)) <=> io[Other(current)] = "playing"
        BY <4>2 DEF WithAHI, TypeOK, AHITypeOK, Slots, Other, RequestsInv
      <4>4. Links <=> io[Other(current)] # "idle"
        BY DEF Links, TypeOK, AHITypeOK, Slots, Other, RequestsInv
      <4>5. Links /\ WithAHI(Other(current)) <=> io[Other(current)] = "playing"
        BY <4>3, <4>4
      <4> QED
        BY <3>1, <4>1, <4>2, <4>5 DEF TypeOK, AHITypeOK, Slots, Other,
            RequestsInv
    <3>3. CASE ~(Calls = "backend" /\ Playable)
      BY <1>19, <3>1, <3>3 DEF Iterate, ahi, RequestsInv, Other
    <3> QED  BY <3>2, <3>3
  <2>6. CallbackInv'
    BY <1>19 DEF TypeOK, CallbackInv, ThreadInv, AskingInv, Iterate, Calls,
        Playable, Usable, Send, Links, WithAHI, Other, Idly, calls, ahi
  <2> QED  BY <2>1, <2>2, <2>3, <2>4, <2>5, <2>6
<1>20. ASSUME Wait PROVE Inv'
  <2>1. TypeOK'
    BY <1>20 DEF TypeOK, AHITypeOK, Kinds, Slots, Wait, Usable, Busy, Idly,
        calls, ahi
  <2>2. ClosingInv'
    BY <1>20 DEF TypeOK, Kinds, ClosingInv, AtWork, Wait, Usable, Busy, Idly,
        calls, ahi
  <2>3. ThreadInv'
    BY <1>20 DEF TypeOK, AHITypeOK, ThreadInv, ClosingInv, AtWork, AskingInv,
        Calls, Wait, Usable, Busy, Idly, calls, ahi
  <2>4. AskingInv'
    BY <1>20 DEF TypeOK, AHITypeOK, Slots, AskingInv, ThreadInv, Calls, Usable,
        Wait, Busy, Idly, calls, ahi
  <2>5. RequestsInv'
    BY <1>20 DEF TypeOK, AHITypeOK, Slots, RequestsInv, ThreadInv, Other,
        AskingInv, Calls, Wait, Usable, Busy, Idly, calls, ahi
  <2>6. CallbackInv'
    BY <1>20 DEF TypeOK, CallbackInv, ThreadInv, AskingInv, Calls, Wait, Usable,
        Busy, Idly, calls, ahi
  <2> QED  BY <2>1, <2>2, <2>3, <2>4, <2>5, <2>6
<1>21. ASSUME WaitIO PROVE Inv'
  <2>1. TypeOK'
    BY <1>21 DEF TypeOK, AHITypeOK, Kinds, Slots, WaitIO, Collect, Idly, calls
  <2>2. ClosingInv'
    BY <1>21 DEF TypeOK, Kinds, ClosingInv, AtWork, WaitIO, Collect, Idly, calls
  <2>3. ThreadInv'
    BY <1>21 DEF TypeOK, AHITypeOK, ThreadInv, ClosingInv, AtWork, WaitIO,
        Collect, Idly, calls
  <2>4. AskingInv'
    BY <1>21 DEF TypeOK, AHITypeOK, Slots, AskingInv, ThreadInv, Calls, Usable,
        WaitIO, Collect, Idly, calls
  <2>5. RequestsInv'
    BY <1>21 DEF TypeOK, AHITypeOK, Slots, RequestsInv, ThreadInv, Other,
        WaitIO, Collect, Idly, calls
  <2>6. CallbackInv'
    BY <1>21 DEF TypeOK, CallbackInv, ThreadInv, WaitIO, Collect, Idly, calls
  <2> QED  BY <2>1, <2>2, <2>3, <2>4, <2>5, <2>6
<1>22. ASSUME Drain PROVE Inv'
  <2>1. TypeOK'
    BY <1>22 DEF TypeOK, AHITypeOK, Kinds, Slots, Drain, ThreadDeinit, CloseAHI,
        Finished, Idly, calls
  <2>2. ClosingInv'
    BY <1>22 DEF TypeOK, Kinds, ClosingInv, AtWork, Drain, ThreadDeinit,
        CloseAHI, Finished, Idly, calls
  <2>3. ThreadInv'
    BY <1>22 DEF TypeOK, AHITypeOK, ThreadInv, ClosingInv, AtWork, Drain,
        ThreadDeinit, CloseAHI, Finished, Idly, calls
  <2>4. AskingInv'
    BY <1>22 DEF TypeOK, AHITypeOK, Slots, AskingInv, ThreadInv, Calls, Usable,
        Drain, ThreadDeinit, CloseAHI, Finished, Idly, calls
  <2>5. RequestsInv'
    BY <1>22 DEF TypeOK, AHITypeOK, Slots, RequestsInv, ThreadInv, Other, Drain,
        ThreadDeinit, CloseAHI, Finished, Idly, calls
  <2>6. CallbackInv'
    BY <1>22 DEF TypeOK, CallbackInv, ThreadInv, Drain, ThreadDeinit, CloseAHI,
        Finished, Idly, calls
  <2> QED  BY <2>1, <2>2, <2>3, <2>4, <2>5, <2>6
<1>23. ASSUME AHIStep PROVE Inv'
  <2>1. TypeOK'
    BY <1>23 DEF TypeOK, AHITypeOK, Kinds, Slots, AHIStep, PlaysOut, calls, core
  <2>2. ClosingInv'
    BY <1>23 DEF TypeOK, Kinds, ClosingInv, AtWork, AHIStep, PlaysOut, Slots,
        calls, core
  <2>3. ThreadInv'
    BY <1>23 DEF TypeOK, AHITypeOK, ThreadInv, ClosingInv, AtWork, AHIStep,
        PlaysOut, Slots, calls, core
  <2>4. AskingInv'
    BY <1>23 DEF TypeOK, AHITypeOK, Slots, AskingInv, ThreadInv, Calls, Usable,
        AHIStep, PlaysOut, calls, core
  <2>5. RequestsInv'
    BY <1>23 DEF TypeOK, AHITypeOK, Slots, RequestsInv, ThreadInv, Other,
        AHIStep, PlaysOut, calls, core
  <2>6. CallbackInv'
    BY <1>23 DEF TypeOK, CallbackInv, ThreadInv, AHIStep, PlaysOut, Slots,
        calls, core
  <2> QED  BY <2>1, <2>2, <2>3, <2>4, <2>5, <2>6
<1>24. ASSUME UNCHANGED vars PROVE Inv'
  <2>1. TypeOK'
    BY <1>24 DEF TypeOK, AHITypeOK, Kinds, Slots, vars, calls, core, ahi
  <2>2. ClosingInv'
    BY <1>24 DEF TypeOK, Kinds, ClosingInv, AtWork, vars, calls, core, ahi
  <2>3. ThreadInv'
    BY <1>24 DEF TypeOK, AHITypeOK, ThreadInv, ClosingInv, AtWork, vars, calls,
        core, ahi
  <2>4. AskingInv'
    BY <1>24 DEF TypeOK, AHITypeOK, Slots, AskingInv, ThreadInv, Calls, Usable,
        vars, calls, core, ahi
  <2>5. RequestsInv'
    BY <1>24 DEF TypeOK, AHITypeOK, Slots, RequestsInv, ThreadInv, Other, vars,
        calls, core, ahi
  <2>6. CallbackInv'
    BY <1>24 DEF TypeOK, CallbackInv, ThreadInv, vars, calls, core, ahi
  <2> QED  BY <2>1, <2>2, <2>3, <2>4, <2>5, <2>6
<1> QED
  BY <1>1, <1>2, <1>3, <1>4, <1>5, <1>6, <1>7, <1>8, <1>9, <1>10, <1>11,
      <1>12, <1>13, <1>14, <1>15, <1>16, <1>17, <1>18, <1>19, <1>20, <1>21,
      <1>22, <1>23, <1>24 DEF Next, Asks, CallStep, CallbackStep, AudioStep

\* Hence it holds in every state of every behaviour.
LEMMA Invariance == Spec => []Inv
BY InvInit, InvStep, PTL DEF Spec

-----------------------------------------------------------------------------
(* What follows from it                                                    *)

\* Every variable keeps its type.
THEOREM TypeCorrect == Spec => []TypeOK
<1>1. Inv => TypeOK
  BY DEF Inv
<1> QED  BY <1>1, Invariance, PTL

\* What is opened with the audio thread keeps it until it is closed, only a
\* device already lost is opened without one, and the audio thread has the back
\* end's data.
THEOREM OpenServed == Spec => []OpenIsServed
<1>1. Inv => OpenIsServed
  BY DEF Inv, TypeOK, ClosingInv, ThreadInv, Open, OpenIsServed
<1> QED  BY <1>1, Invariance, PTL

\* AHI and the audio thread never use a buffer or a request at a time.
THEOREM BuffersSafe == Spec => []BuffersAlternate
<1>1. Inv => BuffersAlternate
  BY DEF Inv, TypeOK, AHITypeOK, Slots, AskingInv, RequestsInv, Usable,
      BuffersAlternate
<1> QED  BY <1>1, Invariance, PTL

-----------------------------------------------------------------------------
(* The references                                                          *)

\* A caller that opens has nothing open yet.
OpeningInv ==
    \A c \in Callers : pc[c] \in {"open", "asleep", "woken"} => logical[c] = "no"

\* The sets that hold references are finite.
LEMMA Finite ==
    /\ IsFiniteSet(Open) /\ Cardinality(Open) \in Nat
    /\ IsFiniteSet(Releasers) /\ Cardinality(Releasers) \in Nat
    /\ IsFiniteSet(Holders) /\ Cardinality(Holders) \in Nat
<1>1. /\ Open \subseteq Callers
      /\ Releasers \subseteq Callers
      /\ Holders \subseteq Callers
  BY DEF Open, Closing, Releasers, Holders
<1> QED  BY <1>1, AudioAssumption, FS_Subset, FS_CardinalityType

\* Nobody opens while it has a logical device, whatever the others do.
LEMMA OpeningStep == TypeOK /\ OpeningInv /\ [Next]_vars => OpeningInv'
<1> SUFFICES ASSUME TypeOK, OpeningInv, [Next]_vars PROVE OpeningInv'
  OBVIOUS
<1> USE DEF TypeOK, OpeningInv, Kinds, At
<1>1. ASSUME NEW c \in Callers, NEW kind \in Kinds, StartOpen(c, kind) PROVE OpeningInv'
  BY <1>1 DEF StartOpen
<1>2. ASSUME NEW c \in Callers, Refuse(c) PROVE OpeningInv'
  BY <1>2 DEF Refuse
<1>3. ASSUME NEW c \in Callers, Sleep(c) PROVE OpeningInv'
  BY <1>3 DEF Sleep, Opening, core
<1>4. ASSUME NEW c \in Callers, Share(c) PROVE OpeningInv'
  BY <1>4 DEF Share, AddLogical
<1>5. ASSUME NEW c \in Callers, OpenPhysical(c) PROVE OpeningInv'
  BY <1>5 DEF OpenPhysical, AddLogical
<1>6. ASSUME NEW c \in Callers, OpenFails(c) PROVE OpeningInv'
  BY <1>6 DEF OpenFails, Fresh, Opening
<1>7. ASSUME NEW c \in Callers, StartClose(c) PROVE OpeningInv'
  BY <1>7 DEF StartClose
<1>8. ASSUME NEW c \in Callers, CloseLogical(c) PROVE OpeningInv'
  BY <1>8 DEF CloseLogical, DropLogical
<1>9. ASSUME NEW c \in Callers, CloseLast(c) PROVE OpeningInv'
  BY <1>9 DEF CloseLast, DropLogical, BeginClose
<1>10. ASSUME Quit PROVE OpeningInv'
  BY <1>10 DEF Quit, BeginClose
<1>11. ASSUME NEW c \in Callers, Join(c) PROVE OpeningInv'
  BY <1>11 DEF Join
<1>12. ASSUME NEW c \in Callers, Finish(c) PROVE OpeningInv'
  BY <1>12 DEF Finish, Awake
<1>13. ASSUME Disconnect PROVE OpeningInv'
  BY <1>13 DEF Disconnect
<1>14. ASSUME StartCallback PROVE OpeningInv'
  BY <1>14 DEF StartCallback
<1>15. ASSUME AudioStep PROVE OpeningInv'
  BY <1>15 DEF AudioStep, ThreadInit, Report, Leave, Iterate, Wait, WaitIO,
      Drain, Idly, calls
<1>16. ASSUME UNCHANGED <<calls, logical>> PROVE OpeningInv'
  BY <1>16 DEF calls
<1> QED
  BY <1>1, <1>2, <1>3, <1>4, <1>5, <1>6, <1>7, <1>8, <1>9, <1>10, <1>11,
      <1>12, <1>13, <1>14, <1>15, <1>16 DEF Next, Asks, CallStep,
      CallbackStep, CallbackTooLate, AHIStep, calls, core, vars

\* Every step moves as many references as it owes.
LEMMA RefsStep == Inv /\ OpeningInv /\ RefsBalance /\ [Next]_vars => RefsBalance'
<1> SUFFICES ASSUME Inv, OpeningInv, RefsBalance, [Next]_vars PROVE RefsBalance'
  OBVIOUS
<1> USE AudioAssumption DEF Inv
<1>1. ASSUME NEW c \in Callers, NEW kind \in Kinds, StartOpen(c, kind) PROVE RefsBalance'
  <2>1. /\ Open' = Open
        /\ Releasers' = Releasers
        /\ Holders' = Holders \cup {c}
    BY <1>1 DEF TypeOK, Kinds, ClosingInv, AtWork, OpeningInv, Open, Closing,
        Releasers, Holders, StartOpen, At
  <2>2. Known' => Known
    BY <1>1 DEF TypeOK, Kinds, Known, Closing, StartOpen, At
  <2>3. /\ c \notin Holders
    BY <1>1 DEF TypeOK, Kinds, ClosingInv, AtWork, OpeningInv, Open, Closing,
        Releasers, Holders, StartOpen, At
  <2>4. /\ Cardinality(Holders \cup {c}) = Cardinality(Holders) + 1
    BY <2>3, Finite, FS_AddElement, FS_RemoveElement
  <2> QED
    BY <1>1, <2>1, <2>2, <2>4, Finite DEF RefsBalance, TypeOK, StartOpen
<1>2. ASSUME NEW c \in Callers, Refuse(c) PROVE RefsBalance'
  <2>1. /\ Open' = Open
        /\ Releasers' = Releasers
        /\ Holders' = Holders \ {c}
    BY <1>2 DEF TypeOK, Kinds, ClosingInv, AtWork, OpeningInv, Open, Closing,
        Releasers, Holders, Refuse, At
  <2>2. Known' => Known
    BY <1>2 DEF TypeOK, Kinds, Known, Closing, Refuse, At
  <2>3. /\ c \in Holders
    BY <1>2 DEF TypeOK, Kinds, ClosingInv, AtWork, OpeningInv, Open, Closing,
        Releasers, Holders, Refuse, At
  <2>4. /\ Cardinality(Holders \ {c}) = Cardinality(Holders) - 1
    BY <2>3, Finite, FS_AddElement, FS_RemoveElement
  <2> QED
    BY <1>2, <2>1, <2>2, <2>4, Finite DEF RefsBalance, TypeOK, Refuse
<1>3. ASSUME NEW c \in Callers, Sleep(c) PROVE RefsBalance'
  <2>1. /\ Open' = Open
        /\ Releasers' = Releasers
        /\ Holders' = Holders
    BY <1>3 DEF TypeOK, Kinds, ClosingInv, AtWork, OpeningInv, Open, Closing,
        Releasers, Holders, Sleep, Opening, At, core
  <2>2. Known' => Known
    BY <1>3 DEF TypeOK, Kinds, Known, Closing, Sleep, Opening, At, core
  <2> QED
    BY <1>3, <2>1, <2>2, Finite DEF RefsBalance, TypeOK, Sleep, Opening, core
<1>4. ASSUME NEW c \in Callers, Share(c) PROVE RefsBalance'
  <2>1. /\ Releasers' = Releasers
        /\ Holders' = Holders \ {c}
        /\ Known' => Known
    BY <1>4 DEF TypeOK, Closing, Known, Releasers, Holders, Share, AddLogical, Opening, At
  <2>2. c \notin Open /\ c \in Holders
    BY <1>4 DEF OpeningInv, Open, Holders, Share, AddLogical, Opening, At
  <2>3. /\ Cardinality(Open \cup {c}) = Cardinality(Open) + 1
        /\ Cardinality(Holders \ {c}) = Cardinality(Holders) - 1
    BY <2>2, Finite, FS_AddElement, FS_RemoveElement
  <2>4. /\ refcount' = refcount /\ zombie' = zombie /\ callbacks' = callbacks
        /\ refcount \in Int /\ callbacks \in Int /\ orphans \in Int
    BY <1>4 DEF TypeOK, Share, AddLogical
  <2>5. CASE logical' = [logical EXCEPT ![c] = wants[c]] /\ orphans' = orphans
    <3>1. Open' = Open \cup {c}
      BY <1>4, <2>5 DEF TypeOK, Kinds, Open
    <3> QED  BY <2>1, <2>3, <2>4, <2>5, <3>1, Finite DEF RefsBalance
  <2>6. CASE logical' = logical /\ orphans' = orphans + 1
    <3>1. Open' = Open
      BY <2>6 DEF Open
    <3> QED  BY <2>1, <2>3, <2>4, <2>6, <3>1, Finite DEF RefsBalance
  <2> QED  BY <1>4, <2>5, <2>6 DEF Share, AddLogical
<1>5. ASSUME NEW c \in Callers, OpenPhysical(c) PROVE RefsBalance'
  <2>1. /\ Releasers' = Releasers
        /\ Holders' = Holders \ {c}
        /\ Known' => Known
    BY <1>5 DEF TypeOK, Closing, Known, Releasers, Holders, OpenPhysical, Fresh,
        AddLogical, Opening, At
  <2>2. c \notin Open /\ c \in Holders
    BY <1>5 DEF OpeningInv, Open, Holders, OpenPhysical, Fresh,
        AddLogical, Opening, At
  <2>3. /\ Cardinality(Open \cup {c}) = Cardinality(Open) + 1
        /\ Cardinality(Holders \ {c}) = Cardinality(Holders) - 1
    BY <2>2, Finite, FS_AddElement, FS_RemoveElement
  <2>4. /\ refcount' = refcount /\ zombie' = zombie /\ callbacks' = callbacks
        /\ refcount \in Int /\ callbacks \in Int /\ orphans \in Int
    BY <1>5 DEF TypeOK, OpenPhysical, AddLogical
  <2>5. CASE logical' = [logical EXCEPT ![c] = wants[c]] /\ orphans' = orphans
    <3>1. Open' = Open \cup {c}
      BY <1>5, <2>5 DEF TypeOK, Kinds, Open
    <3> QED  BY <2>1, <2>3, <2>4, <2>5, <3>1, Finite DEF RefsBalance
  <2>6. CASE logical' = logical /\ orphans' = orphans + 1
    <3>1. Open' = Open
      BY <2>6 DEF Open
    <3> QED  BY <2>1, <2>3, <2>4, <2>6, <3>1, Finite DEF RefsBalance
  <2> QED  BY <1>5, <2>5, <2>6 DEF OpenPhysical, AddLogical
<1>6. ASSUME NEW c \in Callers, OpenFails(c) PROVE RefsBalance'
  <2>1. /\ Open' = Open
        /\ Releasers' = Releasers
        /\ Holders' = Holders
    BY <1>6 DEF TypeOK, Kinds, ClosingInv, AtWork, OpeningInv, Open, Closing,
        Releasers, Holders, OpenFails, Fresh, Opening, At
  <2>2. Known' => Known
    BY <1>6 DEF TypeOK, Kinds, Known, Closing, OpenFails, Fresh, Opening, At
  <2> QED
    BY <1>6, <2>1, <2>2, Finite DEF RefsBalance, TypeOK, OpenFails, Fresh,
        Opening
<1>7. ASSUME NEW c \in Callers, StartClose(c) PROVE RefsBalance'
  <2>1. /\ Open' = Open
        /\ Releasers' = Releasers
        /\ Holders' = Holders \cup {c}
    BY <1>7 DEF TypeOK, Kinds, ClosingInv, AtWork, OpeningInv, Open, Closing,
        Releasers, Holders, StartClose, At
  <2>2. Known' => Known
    BY <1>7 DEF TypeOK, Kinds, Known, Closing, StartClose, At
  <2>3. /\ c \notin Holders
    BY <1>7 DEF TypeOK, Kinds, ClosingInv, AtWork, OpeningInv, Open, Closing,
        Releasers, Holders, StartClose, At
  <2>4. /\ Cardinality(Holders \cup {c}) = Cardinality(Holders) + 1
    BY <2>3, Finite, FS_AddElement, FS_RemoveElement
  <2> QED
    BY <1>7, <2>1, <2>2, <2>4, Finite DEF RefsBalance, TypeOK, StartClose
<1>8. ASSUME NEW c \in Callers, CloseLogical(c) PROVE RefsBalance'
  <2>1. /\ Open' = Open \ {c}
        /\ Releasers' = Releasers
        /\ Holders' = Holders \ {c}
    BY <1>8 DEF TypeOK, Kinds, ClosingInv, AtWork, OpeningInv, Open, Closing,
        Releasers, Holders, CloseLogical, DropLogical, At
  <2>2. Known' => Known
    BY <1>8 DEF TypeOK, Kinds, Known, Closing, CloseLogical, DropLogical, At
  <2>3. /\ c \in Open
        /\ c \in Holders
    BY <1>8 DEF TypeOK, Kinds, ClosingInv, AtWork, OpeningInv, Open, Closing,
        Releasers, Holders, CloseLogical, DropLogical, At
  <2>4. /\ Cardinality(Open \ {c}) = Cardinality(Open) - 1
        /\ Cardinality(Holders \ {c}) = Cardinality(Holders) - 1
    BY <2>3, Finite, FS_AddElement, FS_RemoveElement
  <2>5. /\ refcount' = refcount - 2
        /\ zombie' = zombie /\ callbacks' = callbacks
        /\ orphans' = orphans /\ orphans \in Int
        /\ refcount \in Int /\ callbacks \in Int
    BY <1>8 DEF TypeOK, CloseLogical, DropLogical
  <2> QED
    BY <2>1, <2>2, <2>4, <2>5, Finite DEF RefsBalance
<1>9. ASSUME NEW c \in Callers, CloseLast(c) PROVE RefsBalance'
  <2>1. /\ Open' = Open \ {c}
        /\ Releasers' = Releasers \cup {c}
        /\ Holders' = Holders
    BY <1>9 DEF TypeOK, Kinds, ClosingInv, AtWork, OpeningInv, Open, Closing,
        Releasers, Holders, CloseLast, DropLogical, BeginClose, At
  <2>2. Known' => Known
    BY <1>9 DEF TypeOK, Kinds, Known, Closing, CloseLast, DropLogical,
        BeginClose, At
  <2>3. /\ c \in Open
        /\ c \notin Releasers
    BY <1>9 DEF TypeOK, Kinds, ClosingInv, AtWork, OpeningInv, Open, Closing,
        Releasers, Holders, CloseLast, DropLogical, BeginClose, At
  <2>4. /\ Cardinality(Open \ {c}) = Cardinality(Open) - 1
        /\ Cardinality(Releasers \cup {c}) = Cardinality(Releasers) + 1
    BY <2>3, Finite, FS_AddElement, FS_RemoveElement
  <2>5. /\ refcount' = refcount
        /\ zombie' = zombie /\ callbacks' = callbacks
        /\ orphans' = orphans /\ orphans \in Int
        /\ refcount \in Int /\ callbacks \in Int
    BY <1>9 DEF TypeOK, CloseLast, DropLogical, BeginClose
  <2> QED
    BY <2>1, <2>2, <2>4, <2>5, Finite DEF RefsBalance
<1>10. ASSUME Quit PROVE RefsBalance'
  <2>1. pc'[Main] = "join" /\ goal'[Main] = "quit"
    BY <1>10 DEF Quit, BeginClose, At, TypeOK
  <2>2. ~Known'
    BY <2>1 DEF Known, Closing
  <2> QED  BY <2>2 DEF RefsBalance
<1>11. ASSUME NEW c \in Callers, Join(c) PROVE RefsBalance'
  <2>1. /\ Open' = Open
        /\ Releasers' = Releasers
        /\ Holders' = Holders
    BY <1>11 DEF TypeOK, Kinds, ClosingInv, AtWork, OpeningInv, Open, Closing,
        Releasers, Holders, Join, At
  <2>2. Known' => Known
    BY <1>11 DEF TypeOK, Kinds, Known, Closing, Join, At
  <2> QED
    BY <1>11, <2>1, <2>2, Finite DEF RefsBalance, TypeOK, Join
<1>12. ASSUME NEW c \in Callers, Finish(c) PROVE RefsBalance'
  <2>1. CASE goal[c] = "close"
    <3>1. /\ Open' = Open
          /\ Releasers' = Releasers \ {c}
          /\ Holders' = Holders \ {c}
      BY <1>12, <2>1 DEF TypeOK, Kinds, ClosingInv, AtWork, OpeningInv, Open,
          Closing, Releasers, Holders, Finish, Awake
    <3>2. Known' => Known
      BY <1>12, <2>1 DEF TypeOK, Kinds, Known, Closing, Finish, Awake
    <3>3. /\ c \in Releasers
          /\ c \in Holders
      BY <1>12, <2>1 DEF TypeOK, Kinds, ClosingInv, AtWork, OpeningInv, Open,
          Closing, Releasers, Holders, Finish, Awake
    <3>4. /\ Cardinality(Releasers \ {c}) = Cardinality(Releasers) - 1
          /\ Cardinality(Holders \ {c}) = Cardinality(Holders) - 1
      BY <3>3, Finite, FS_AddElement, FS_RemoveElement
    <3>5. /\ refcount' = refcount - 2
          /\ zombie' = zombie /\ callbacks' = callbacks
          /\ orphans' = orphans /\ orphans \in Int
          /\ refcount \in Int /\ callbacks \in Int
      BY <1>12, <2>1 DEF TypeOK, Finish, Awake, Unrefs
    <3> QED
      BY <3>1, <3>2, <3>4, <3>5, Finite DEF RefsBalance
  <2>2. CASE goal[c] = "fail"
    <3>1. /\ Open' = Open
          /\ Releasers' = Releasers
          /\ Holders' = Holders \ {c}
      BY <1>12, <2>2 DEF TypeOK, Kinds, ClosingInv, AtWork, OpeningInv, Open,
          Closing, Releasers, Holders, Finish, Awake
    <3>2. Known' => Known
      BY <1>12, <2>2 DEF TypeOK, Kinds, Known, Closing, Finish, Awake
    <3>3. /\ c \in Holders
      BY <1>12, <2>2 DEF TypeOK, Kinds, ClosingInv, AtWork, OpeningInv, Open,
          Closing, Releasers, Holders, Finish, Awake
    <3>4. /\ Cardinality(Holders \ {c}) = Cardinality(Holders) - 1
      BY <3>3, Finite, FS_AddElement, FS_RemoveElement
    <3> QED
      BY <1>12, <2>2, <3>1, <3>2, <3>4, Finite DEF RefsBalance, TypeOK, Finish,
          Awake, Unrefs
  <2>3. CASE goal[c] = "quit"
    BY <1>12, <2>3 DEF Finish, Known, RefsBalance
  <2> QED  BY <2>1, <2>2, <2>3 DEF TypeOK
<1>13. ASSUME StartCallback PROVE RefsBalance'
  <2>1. /\ Open' = Open
        /\ Releasers' = Releasers
        /\ Holders' = Holders \cup {Main}
    BY <1>13 DEF TypeOK, Kinds, ClosingInv, AtWork, OpeningInv, Open, Closing,
        Releasers, Holders, StartCallback, At
  <2>2. Known' => Known
    BY <1>13 DEF TypeOK, Kinds, Known, Closing, StartCallback, At
  <2>3. /\ Main \notin Holders
    BY <1>13 DEF TypeOK, Kinds, ClosingInv, AtWork, OpeningInv, Open, Closing,
        Releasers, Holders, StartCallback, At
  <2>4. /\ Cardinality(Holders \cup {Main}) = Cardinality(Holders) + 1
    BY <2>3, Finite, FS_AddElement, FS_RemoveElement
  <2> QED
    BY <1>13, <2>1, <2>2, <2>4, Finite DEF RefsBalance, TypeOK, StartCallback
<1>14. ASSUME CallbackTooLate PROVE RefsBalance'
  <2>1. ~Known'
    BY <1>14 DEF CallbackTooLate, Known
  <2> QED  BY <2>1 DEF RefsBalance
<1>15. ASSUME Disconnect PROVE RefsBalance'
  <2>1. /\ Open' = Open
        /\ Releasers' = Releasers
        /\ Holders' = Holders \ {Main}
    BY <1>15 DEF TypeOK, Kinds, ClosingInv, AtWork, OpeningInv, Open, Closing,
        Releasers, Holders, Disconnect, At
  <2>2. Known' => Known
    BY <1>15 DEF TypeOK, Kinds, Known, Closing, Disconnect, At
  <2>3. /\ Main \in Holders
    BY <1>15 DEF TypeOK, Kinds, ClosingInv, AtWork, OpeningInv, Open, Closing,
        Releasers, Holders, Disconnect, At
  <2>4. /\ Cardinality(Holders \ {Main}) = Cardinality(Holders) - 1
    BY <2>3, Finite, FS_AddElement, FS_RemoveElement
  <2> QED
    BY <1>15, <2>1, <2>2, <2>4, Finite DEF RefsBalance, TypeOK, Disconnect,
        FirstDisconnect
<1>16. ASSUME Report PROVE RefsBalance'
  <2>1. /\ Open' = Open
        /\ Releasers' = Releasers
        /\ Holders' = Holders
    BY <1>16 DEF TypeOK, Kinds, ClosingInv, AtWork, OpeningInv, Open, Closing,
        Releasers, Holders, Report, Idly, calls
  <2>2. Known' => Known
    BY <1>16 DEF TypeOK, Kinds, Known, Closing, Report, Idly, calls
  <2> QED
    BY <1>16, <2>1, <2>2, Finite DEF RefsBalance, TypeOK, Report, Idly, calls,
        Disconnected
<1>17. ASSUME UNCHANGED <<calls, logical, orphans, refcount, zombie, callbacks,
                       alive>>
       PROVE RefsBalance'
  <2>1. /\ Open' = Open
        /\ Releasers' = Releasers
        /\ Holders' = Holders
    BY <1>17 DEF TypeOK, Kinds, ClosingInv, AtWork, OpeningInv, Open, Closing,
        Releasers, Holders, calls, core
  <2>2. Known' => Known
    BY <1>17 DEF TypeOK, Kinds, Known, Closing, calls, core
  <2> QED
    BY <1>17, <2>1, <2>2, Finite DEF RefsBalance, TypeOK, calls, core
<1>18. \/ \E c \in Callers : Asks(c) \/ CallStep(c)
      \/ CallbackStep \/ Report
      \/ UNCHANGED <<calls, logical, orphans, refcount, zombie, callbacks, alive>>
  BY DEF Next, AudioStep, ThreadInit, Leave, Iterate, Wait, WaitIO, Drain,
      AHIStep, Idly, calls, core, vars
<1> QED
  BY <1>1, <1>2, <1>3, <1>4, <1>5, <1>6, <1>7, <1>8, <1>9, <1>10, <1>11,
      <1>12, <1>13, <1>14, <1>15, <1>16, <1>17, <1>18 DEF Asks, CallStep,
      CallbackStep

\* No reference is lost and none is given back twice.
THEOREM ReferencesBalance == Spec => []RefsBalance
<1>1. Init => OpeningInv
  BY DEF Init, OpeningInv
<1>2. Init => RefsBalance
  <2> SUFFICES ASSUME Init PROVE RefsBalance
    OBVIOUS
  <2>1. Open = {} /\ Releasers = {} /\ Holders = {}
    BY DEF Init, Open, Closing, Releasers, Holders
  <2> QED  BY <2>1, FS_EmptySet DEF Init, RefsBalance
<1>3. Inv /\ OpeningInv /\ RefsBalance /\ [Next]_vars => OpeningInv' /\ RefsBalance'
  BY OpeningStep, RefsStep DEF Inv
<1> QED  BY <1>1, <1>2, <1>3, Invariance, PTL DEF Spec
=============================================================================

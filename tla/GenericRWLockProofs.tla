------------------------ MODULE GenericRWLockProofs ------------------------
(***************************************************************************)
(* Theorems about the read/write lock, for every finite set of threads and *)
(* any number of recursive read locks.                                     *)
(*                                                                         *)
(* The argument: the mutex tells who may be inside a call or hold the      *)
(* write lock (Owner), the writer count follows the mutex (Writer), and    *)
(* the reader count is the number of read locks granted (Readers), so a    *)
(* writer that sees it 0 excludes every reader.                            *)
(***************************************************************************)
EXTENDS GenericRWLock, FiniteSetTheorems, TLAPS

\* Threads between SDL_LockMutex and SDL_UnlockMutex of one call.
Inside(t) == pc[t] \in {"reading", "writing", "trying", "unlocking", "leaving"}

\* How often t has obtained the mutex.
Nesting(t) == (IF writes[t] THEN 1 ELSE 0) + (IF Inside(t) THEN 1 ELSE 0)

Owner ==
    /\ lock = Nobody => depth = 0
    /\ \A t \in Users : lock = t => depth = Nesting(t) /\ depth > 0
    /\ \A t \in Users : Inside(t) \/ writes[t] => lock = t

Roles ==
    \A t \in Users :
       /\ pc[t] \in {"read", "reading", "write", "writing", "trying", "asleep",
                     "woken", "leaving"} => ~writes[t]
       /\ pc[t] \in {"read", "reading"} => held[t] < MaxReads
       /\ pc[t] \in {"unlock", "unlocking"} => writes[t] \/ held[t] > 0

Writer ==
    /\ \A t \in Users : writes[t] => writer_count = 1
    /\ writer_count # 0 => \E t \in Users : writes[t]
    /\ \A t, u \in Users : writes[t] => held[u] = 0

\* The read locks that have been granted, one by one.
ReadLocks == {p \in Users \X (1..MaxReads) : p[2] <= held[p[1]]}

Readers == reader_count = Cardinality(ReadLocks)

Inv ==
    /\ TypeOK
    /\ Owner
    /\ Roles
    /\ Writer
    /\ Readers
    /\ NoForgottenWriter

-----------------------------------------------------------------------------
(* Lemmas about the number of read locks                                   *)

\* There are finitely many read locks.
LEMMA ReadLocksFinite == IsFiniteSet(ReadLocks)
<1>1. IsFiniteSet(1..MaxReads)
  BY RWLockAssumption, FS_Interval
<1>2. IsFiniteSet(Users \X (1..MaxReads))
  BY <1>1, RWLockAssumption, FS_Product
<1> QED  BY <1>2, FS_Subset DEF ReadLocks

\* Granting one more read lock raises their number by one.
LEMMA OneMore ==
    ASSUME held \in [Users -> 0..MaxReads], NEW t \in Users, held[t] < MaxReads,
           held' = [held EXCEPT ![t] = @ + 1]
    PROVE  Cardinality(ReadLocks') = Cardinality(ReadLocks) + 1
<1> DEFINE p == <<t, held[t] + 1>>
<1>1. ReadLocks' = ReadLocks \cup {p}
  BY RWLockAssumption DEF ReadLocks
<1>2. p \notin ReadLocks
  BY RWLockAssumption DEF ReadLocks
<1> QED  BY <1>1, <1>2, ReadLocksFinite, FS_AddElement

\* Giving one back lowers it by one.
LEMMA OneLess ==
    ASSUME held \in [Users -> 0..MaxReads], NEW t \in Users, held[t] > 0,
           held' = [held EXCEPT ![t] = @ - 1]
    PROVE  Cardinality(ReadLocks') = Cardinality(ReadLocks) - 1
<1> DEFINE p == <<t, held[t]>>
<1>1. ReadLocks' = ReadLocks \ {p}
  BY RWLockAssumption DEF ReadLocks
<1>2. p \in ReadLocks
  BY RWLockAssumption DEF ReadLocks
<1> QED  BY <1>1, <1>2, ReadLocksFinite, FS_RemoveElement

\* The reader count is 0 exactly when nobody holds a read lock.
LEMMA NoReaders ==
    ASSUME held \in [Users -> 0..MaxReads]
    PROVE  /\ Cardinality(ReadLocks) \in Nat
           /\ Cardinality(ReadLocks) = 0 <=> \A t \in Users : held[t] = 0
<1>1. Cardinality(ReadLocks) \in Nat /\
      (Cardinality(ReadLocks) = 0 <=> ReadLocks = {})
  BY ReadLocksFinite, FS_CardinalityType, FS_EmptySet
<1>2. ASSUME NEW t \in Users, held[t] # 0  PROVE <<t, 1>> \in ReadLocks
  BY <1>2, RWLockAssumption DEF ReadLocks
<1>3. ASSUME \A t \in Users : held[t] = 0  PROVE ReadLocks = {}
  BY <1>3, RWLockAssumption DEF ReadLocks
<1> QED  BY <1>1, <1>2, <1>3

-----------------------------------------------------------------------------
(* The inductive invariant                                                 *)

USE DEF Goto, Inside

\* It holds while nobody has called the lock.
LEMMA InvInit == Init => Inv
<1> SUFFICES ASSUME Init PROVE Inv
  OBVIOUS
<1> USE RWLockAssumption DEF Init
<1>1. TypeOK
  BY DEF TypeOK
<1>2. Owner /\ Roles /\ Writer /\ NoForgottenWriter
  BY DEF Owner, Roles, Writer, NoForgottenWriter
<1>3. Readers
  BY <1>1, NoReaders DEF Readers, TypeOK
<1> QED  BY <1>1, <1>2, <1>3 DEF Inv

\* What a thread does with the mutex keeps the account of who has it.
LEMMA InvStep == Inv /\ [Next]_vars => Inv'
<1> SUFFICES ASSUME Inv, [Next]_vars PROVE Inv'
  OBVIOUS
<1> USE RWLockAssumption
<1>a. TypeOK /\ Owner /\ Roles /\ Writer /\ Readers /\ NoForgottenWriter
  BY DEF Inv
<1>b. /\ reader_count = 0 <=> \A u \in Users : held[u] = 0
      /\ reader_count \in Nat
  BY <1>a, NoReaders DEF Readers, TypeOK
<1>1. ASSUME NEW t \in Users, StartRead(t) PROVE Inv'
  <2> USE <1>a, <1>b, <1>1 DEF StartRead
  <2>1. TypeOK'
    BY DEF TypeOK, Owner, Nesting, Roles, Writer
  <2>2. Owner'
    BY DEF TypeOK, Owner, Nesting, Roles, Writer
  <2>3. Roles'
    BY DEF TypeOK, Owner, Roles, Writer
  <2>4. Writer'
    BY DEF TypeOK, Owner, Roles, Writer
  <2>5. Readers'
    BY DEF Readers, ReadLocks
  <2>6. NoForgottenWriter'
    BY DEF TypeOK, NoForgottenWriter
  <2> QED  BY <2>1, <2>2, <2>3, <2>4, <2>5, <2>6 DEF Inv
<1>2. ASSUME NEW t \in Users, ReadObtains(t) PROVE Inv'
  <2> USE <1>a, <1>b, <1>2 DEF ReadObtains, Obtain, Free
  <2>1. TypeOK'
    BY DEF TypeOK, Owner, Nesting, Roles, Writer
  <2>2. Owner'
    BY DEF TypeOK, Owner, Nesting, Roles, Writer
  <2>3. Roles'
    BY DEF TypeOK, Owner, Roles, Writer
  <2>4. Writer'
    BY DEF TypeOK, Owner, Roles, Writer
  <2>5. Readers'
    BY DEF Readers, ReadLocks
  <2>6. NoForgottenWriter'
    BY DEF TypeOK, NoForgottenWriter
  <2> QED  BY <2>1, <2>2, <2>3, <2>4, <2>5, <2>6 DEF Inv
<1>3. ASSUME NEW t \in Users, TryRead(t) PROVE Inv'
  <2> USE <1>a, <1>b, <1>3 DEF TryRead, Obtain, Free
  <2>1. TypeOK'
    BY DEF TypeOK, Owner, Nesting, Roles, Writer
  <2>2. Owner'
    BY DEF TypeOK, Owner, Nesting, Roles, Writer
  <2>3. Roles'
    BY DEF TypeOK, Owner, Roles, Writer
  <2>4. Writer'
    BY DEF TypeOK, Owner, Roles, Writer
  <2>5. Readers'
    BY DEF Readers, ReadLocks
  <2>6. NoForgottenWriter'
    BY DEF TypeOK, NoForgottenWriter
  <2> QED  BY <2>1, <2>2, <2>3, <2>4, <2>5, <2>6 DEF Inv
<1>4. ASSUME NEW t \in Users, ReadEnters(t) PROVE Inv'
  <2> USE <1>a, <1>b, <1>4 DEF ReadEnters, Release
  <2>1. TypeOK'
    BY DEF TypeOK, Owner, Nesting, Roles, Writer
  <2>2. Owner'
    BY DEF TypeOK, Owner, Nesting, Roles, Writer
  <2>3. Roles'
    BY DEF TypeOK, Owner, Roles, Writer
  <2>4. Writer'
    BY DEF TypeOK, Owner, Roles, Writer
  <2>5. Readers'
    BY OneMore DEF TypeOK, Roles, Readers
  <2>6. NoForgottenWriter'
    BY DEF TypeOK, NoForgottenWriter
  <2> QED  BY <2>1, <2>2, <2>3, <2>4, <2>5, <2>6 DEF Inv
<1>5. ASSUME NEW t \in Users, StartWrite(t) PROVE Inv'
  <2> USE <1>a, <1>b, <1>5 DEF StartWrite
  <2>1. TypeOK'
    BY DEF TypeOK, Owner, Nesting, Roles, Writer
  <2>2. Owner'
    BY DEF TypeOK, Owner, Nesting, Roles, Writer
  <2>3. Roles'
    BY DEF TypeOK, Owner, Roles, Writer
  <2>4. Writer'
    BY DEF TypeOK, Owner, Roles, Writer
  <2>5. Readers'
    BY DEF Readers, ReadLocks
  <2>6. NoForgottenWriter'
    BY DEF TypeOK, NoForgottenWriter
  <2> QED  BY <2>1, <2>2, <2>3, <2>4, <2>5, <2>6 DEF Inv
<1>6. ASSUME NEW t \in Users, WriteObtains(t) PROVE Inv'
  <2> USE <1>a, <1>b, <1>6 DEF WriteObtains, Obtain, Free
  <2>1. TypeOK'
    BY DEF TypeOK, Owner, Nesting, Roles, Writer
  <2>2. Owner'
    BY DEF TypeOK, Owner, Nesting, Roles, Writer
  <2>3. Roles'
    BY DEF TypeOK, Owner, Roles, Writer
  <2>4. Writer'
    BY DEF TypeOK, Owner, Roles, Writer
  <2>5. Readers'
    BY DEF Readers, ReadLocks
  <2>6. NoForgottenWriter'
    BY DEF TypeOK, NoForgottenWriter
  <2> QED  BY <2>1, <2>2, <2>3, <2>4, <2>5, <2>6 DEF Inv
<1>7. ASSUME NEW t \in Users, WriteWaits(t) PROVE Inv'
  <2> USE <1>a, <1>b, <1>7 DEF WriteWaits, Release
  <2>1. TypeOK'
    BY DEF TypeOK, Owner, Nesting, Roles, Writer
  <2>2. Owner'
    BY DEF TypeOK, Owner, Nesting, Roles, Writer
  <2>3. Roles'
    BY DEF TypeOK, Owner, Roles, Writer
  <2>4. Writer'
    BY DEF TypeOK, Owner, Roles, Writer
  <2>5. Readers'
    BY DEF Readers, ReadLocks
  <2>6. NoForgottenWriter'
    BY DEF TypeOK, NoForgottenWriter
  <2> QED  BY <2>1, <2>2, <2>3, <2>4, <2>5, <2>6 DEF Inv
<1>8. ASSUME NEW t \in Users, WriteEnters(t) PROVE Inv'
  <2> USE <1>a, <1>b, <1>8 DEF WriteEnters
  <2>1. TypeOK'
    BY DEF TypeOK, Owner, Nesting, Roles, Writer
  <2>2. Owner'
    BY DEF TypeOK, Owner, Nesting, Roles, Writer
  <2>3. Roles'
    BY DEF TypeOK, Owner, Roles, Writer
  <2>4. Writer'
    BY DEF TypeOK, Owner, Roles, Writer
  <2>5. Readers'
    BY DEF Readers, ReadLocks
  <2>6. NoForgottenWriter'
    BY DEF TypeOK, NoForgottenWriter
  <2> QED  BY <2>1, <2>2, <2>3, <2>4, <2>5, <2>6 DEF Inv
<1>9. ASSUME NEW t \in Users, TryWrite(t) PROVE Inv'
  <2> USE <1>a, <1>b, <1>9 DEF TryWrite, Obtain, Free
  <2>1. TypeOK'
    BY DEF TypeOK, Owner, Nesting, Roles, Writer
  <2>2. Owner'
    BY DEF TypeOK, Owner, Nesting, Roles, Writer
  <2>3. Roles'
    BY DEF TypeOK, Owner, Roles, Writer
  <2>4. Writer'
    BY DEF TypeOK, Owner, Roles, Writer
  <2>5. Readers'
    BY DEF Readers, ReadLocks
  <2>6. NoForgottenWriter'
    BY DEF TypeOK, NoForgottenWriter
  <2> QED  BY <2>1, <2>2, <2>3, <2>4, <2>5, <2>6 DEF Inv
<1>10. ASSUME NEW t \in Users, TryWriteFails(t) PROVE Inv'
  <2> USE <1>a, <1>b, <1>10 DEF TryWriteFails, Release
  <2>1. TypeOK'
    BY DEF TypeOK, Owner, Nesting, Roles, Writer
  <2>2. Owner'
    BY DEF TypeOK, Owner, Nesting, Roles, Writer
  <2>3. Roles'
    BY DEF TypeOK, Owner, Roles, Writer
  <2>4. Writer'
    BY DEF TypeOK, Owner, Roles, Writer
  <2>5. Readers'
    BY DEF Readers, ReadLocks
  <2>6. NoForgottenWriter'
    BY DEF TypeOK, NoForgottenWriter
  <2> QED  BY <2>1, <2>2, <2>3, <2>4, <2>5, <2>6 DEF Inv
<1>11. ASSUME NEW t \in Users, StartUnlock(t) PROVE Inv'
  <2> USE <1>a, <1>b, <1>11 DEF StartUnlock
  <2>1. TypeOK'
    BY DEF TypeOK, Owner, Nesting, Roles, Writer
  <2>2. Owner'
    BY DEF TypeOK, Owner, Nesting, Roles, Writer
  <2>3. Roles'
    BY DEF TypeOK, Owner, Roles, Writer
  <2>4. Writer'
    BY DEF TypeOK, Owner, Roles, Writer
  <2>5. Readers'
    BY DEF Readers, ReadLocks
  <2>6. NoForgottenWriter'
    BY DEF TypeOK, NoForgottenWriter
  <2> QED  BY <2>1, <2>2, <2>3, <2>4, <2>5, <2>6 DEF Inv
<1>12. ASSUME NEW t \in Users, UnlockObtains(t) PROVE Inv'
  <2> USE <1>a, <1>b, <1>12 DEF UnlockObtains, Obtain, Free
  <2>1. TypeOK'
    BY DEF TypeOK, Owner, Nesting, Roles, Writer
  <2>2. Owner'
    BY DEF TypeOK, Owner, Nesting, Roles, Writer
  <2>3. Roles'
    BY DEF TypeOK, Owner, Roles, Writer
  <2>4. Writer'
    BY DEF TypeOK, Owner, Roles, Writer
  <2>5. Readers'
    BY DEF Readers, ReadLocks
  <2>6. NoForgottenWriter'
    BY DEF TypeOK, NoForgottenWriter
  <2> QED  BY <2>1, <2>2, <2>3, <2>4, <2>5, <2>6 DEF Inv
<1>13. ASSUME NEW t \in Users, UnlockReader(t) PROVE Inv'
  <2> USE <1>a, <1>b, <1>13 DEF UnlockReader, WakeWriters
  <2>1. TypeOK'
    BY DEF TypeOK, Owner, Nesting, Roles, Writer
  <2>2. Owner'
    BY DEF TypeOK, Owner, Nesting, Roles, Writer
  <2>3. Roles'
    BY DEF TypeOK, Owner, Roles, Writer
  <2>4. Writer'
    BY DEF TypeOK, Owner, Roles, Writer
  <2>5. Readers'
    BY OneLess, NoReaders DEF TypeOK, Roles, Writer, Readers
  <2>6. NoForgottenWriter'
    BY DEF TypeOK, NoForgottenWriter
  <2> QED  BY <2>1, <2>2, <2>3, <2>4, <2>5, <2>6 DEF Inv
<1>14. ASSUME NEW t \in Users, UnlockWriter(t) PROVE Inv'
  <2> USE <1>a, <1>b, <1>14 DEF UnlockWriter, Release
  <2>1. TypeOK'
    BY DEF TypeOK, Owner, Nesting, Roles, Writer
  <2>2. Owner'
    BY DEF TypeOK, Owner, Nesting, Roles, Writer
  <2>3. Roles'
    BY DEF TypeOK, Owner, Roles, Writer
  <2>4. Writer'
    BY DEF TypeOK, Owner, Roles, Writer
  <2>5. Readers'
    BY DEF Readers, ReadLocks
  <2>6. NoForgottenWriter'
    BY DEF TypeOK, NoForgottenWriter
  <2> QED  BY <2>1, <2>2, <2>3, <2>4, <2>5, <2>6 DEF Inv
<1>15. ASSUME NEW t \in Users, UnlockReturns(t) PROVE Inv'
  <2> USE <1>a, <1>b, <1>15 DEF UnlockReturns, Release
  <2>1. TypeOK'
    BY DEF TypeOK, Owner, Nesting, Roles, Writer
  <2>2. Owner'
    BY DEF TypeOK, Owner, Nesting, Roles, Writer
  <2>3. Roles'
    BY DEF TypeOK, Owner, Roles, Writer
  <2>4. Writer'
    BY DEF TypeOK, Owner, Roles, Writer
  <2>5. Readers'
    BY DEF Readers, ReadLocks
  <2>6. NoForgottenWriter'
    BY DEF TypeOK, NoForgottenWriter
  <2> QED  BY <2>1, <2>2, <2>3, <2>4, <2>5, <2>6 DEF Inv
<1>16. CASE UNCHANGED vars
  <2> USE <1>a, <1>16 DEF vars
  <2>1. TypeOK' /\ Owner' /\ Roles' /\ Writer' /\ NoForgottenWriter'
    BY DEF TypeOK, Owner, Nesting, Roles, Writer, NoForgottenWriter
  <2>2. Readers'
    BY DEF Readers, ReadLocks
  <2> QED  BY <2>1, <2>2 DEF Inv
<1> QED
  BY <1>1, <1>2, <1>3, <1>4, <1>5, <1>6, <1>7, <1>8, <1>9, <1>10, <1>11, <1>12, <1>13, <1>14, <1>15, <1>16 DEF Next, Asks, InCall

\* Hence it holds for ever.
LEMMA Invariance == Spec => []Inv
BY InvInit, InvStep, PTL DEF Spec

-----------------------------------------------------------------------------
(* What follows from the invariant                                         *)

(* Every variable keeps its type: the counters never go below 0, and the   *)
(* mutex is nested at most twice.                                          *)
THEOREM TypeCorrect == Spec => []TypeOK
BY Invariance, PTL DEF Inv

(* The SDL_assert in SDL_LockRWLockForReading never fires.                 *)
THEOREM AssertionNeverFires == Spec => []AssertionHolds
<1>1. Inv => AssertionHolds
  BY RWLockAssumption
  DEF Inv, TypeOK, Owner, Roles, Writer, AssertionHolds
<1> QED  BY <1>1, Invariance, PTL

(* A writer sleeps on the condition only while a read lock is held.        *)
THEOREM WritersRemembered == Spec => []NoForgottenWriter
BY Invariance, PTL DEF Inv

(* With no call in progress and no write lock held the mutex is free.      *)
THEOREM MutexGivenBack == Spec => []NothingLeftLocked
<1>1. Inv => NothingLeftLocked
  BY RWLockAssumption
  DEF Inv, TypeOK, Owner, Nesting, NothingLeftLocked
<1> QED  BY <1>1, Invariance, PTL

(* The mutex is obtained for the sake of a writer or inside a call only.   *)
THEOREM MutexIsTheWriters == Spec => []MutexMeansWriter
BY AssertionNeverFires, MutexGivenBack, PTL DEF MutexMeansWriter

-----------------------------------------------------------------------------
(* Refinement                                                              *)

\* The thread that holds the write lock, as the abstract lock sees it.
Holder == IF \E t \in Users : writes[t]
          THEN CHOOSE t \in Users : writes[t] ELSE Nobody

\* There is at most one such thread, since it has the mutex.
LEMMA HolderIs ==
    ASSUME Inv
    PROVE  /\ \A t \in Users : writes[t] => Holder = t
           /\ (\A t \in Users : ~writes[t]) => Holder = Nobody
<1>1. \A t, u \in Users : writes[t] /\ writes[u] => t = u
  BY RWLockAssumption DEF Inv, TypeOK, Owner
<1> QED  BY <1>1 DEF Holder

(* The generic lock implements the abstract one: any number of readers, or *)
(* one writer, whatever the number of threads and of recursive read locks. *)
THEOREM Refinement == Spec => SharesOrExcludes
<1>1. Init => Abstract!Init
  BY DEF Init, Abstract!Init
<1>2. Inv /\ Inv' /\ [Next]_vars => [Abstract!Next]_(Abstract!vars)
  <2> SUFFICES ASSUME Inv, Inv', [Next]_vars
               PROVE  Abstract!Next \/ UNCHANGED <<held, Holder>>
    BY DEF Abstract!vars, Holder
  <2> USE RWLockAssumption
  <2>a. TypeOK /\ Owner /\ Roles /\ Writer /\ Readers
    BY DEF Inv
  <2>b. reader_count = 0 <=> \A u \in Users : held[u] = 0
    BY <2>a, NoReaders DEF Readers, TypeOK
  <2>c. /\ \A t \in Users : writes[t] => Holder = t
        /\ (\A t \in Users : ~writes[t]) => Holder = Nobody
        /\ \A t \in Users : writes'[t] => Holder' = t
        /\ (\A t \in Users : ~writes'[t]) => Holder' = Nobody
    BY HolderIs DEF Inv, Holder
  <2>1. ASSUME NEW t \in Users, ReadEnters(t)  PROVE Abstract!Read(t)
    <3>1. \A u \in Users : ~writes[u]
      BY <2>a, <2>1 DEF ReadEnters, TypeOK, Owner, Roles
    <3>2. Holder = Nobody /\ Holder' = Holder
      BY <2>c, <2>1, <3>1 DEF ReadEnters
    <3> QED  BY <2>1, <3>2 DEF ReadEnters, Abstract!Read, Holder
  <2>2. ASSUME NEW t \in Users, WriteEnters(t)  PROVE Abstract!Write(t)
    <3>1. \A u \in Users : ~writes[u]
      BY <2>a, <2>2 DEF WriteEnters, TypeOK, Owner, Roles
    <3>2. Holder = Nobody /\ Holder' = t
      BY <2>a, <2>c, <2>2, <3>1 DEF WriteEnters, TypeOK
    <3> QED  BY <2>b, <2>2, <3>2 DEF WriteEnters, Abstract!Write, Holder
  <2>3. ASSUME NEW t \in Users, UnlockReader(t)  PROVE Abstract!UnlockRead(t)
    <3>1. held[t] > 0
      BY <2>a, <2>b, <2>3 DEF UnlockReader, TypeOK, Roles, Writer
    <3>2. Holder' = Holder
      BY <2>3 DEF UnlockReader, Holder
    <3> QED  BY <2>3, <3>1, <3>2 DEF UnlockReader, Abstract!UnlockRead, Holder
  <2>4. ASSUME NEW t \in Users, UnlockWriter(t)  PROVE Abstract!UnlockWrite(t)
    <3>1. writes[t] /\ \A u \in Users : ~writes'[u]
      BY <2>a, <2>4 DEF UnlockWriter, Release, TypeOK, Owner, Writer
    <3>2. Holder = t /\ Holder' = Nobody
      BY <2>c, <3>1
    <3> QED  BY <2>4, <3>2 DEF UnlockWriter, Abstract!UnlockWrite, Holder
  <2>5. ASSUME UNCHANGED <<held, writes>>  PROVE UNCHANGED <<held, Holder>>
    BY <2>5 DEF Holder
  <2>6. ASSUME NEW t \in Users, ~ReadEnters(t), ~WriteEnters(t),
               ~UnlockReader(t), ~UnlockWriter(t),
               \/ StartRead(t) \/ TryRead(t) \/ StartWrite(t) \/ TryWrite(t)
               \/ StartUnlock(t) \/ InCall(t)
        PROVE  UNCHANGED <<held, writes>>
    BY <2>6
    DEF StartRead, TryRead, StartWrite, TryWrite, StartUnlock, InCall,
        ReadObtains, WriteObtains, WriteWaits, TryWriteFails, UnlockObtains,
        UnlockReturns
  <2>7. CASE UNCHANGED vars
    BY <2>7, <2>5 DEF vars
  <2>8. CASE Next
    BY <2>1, <2>2, <2>3, <2>4, <2>5, <2>6, <2>8 DEF Next, Asks, Abstract!Next
  <2> QED  BY <2>7, <2>8
<1>3. Spec => []Inv
  BY Invariance
<1> QED  BY <1>1, <1>2, <1>3, PTL DEF Spec, SharesOrExcludes, Abstract!Spec
=============================================================================

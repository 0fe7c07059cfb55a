-------------------------- MODULE SDLTimersProofs --------------------------
(***************************************************************************)
(* What the timer subsystem promises for any number of callers, timer      *)
(* blocks and intervals, proved from its inductive invariant.              *)
(*                                                                         *)
(* The argument: every block is on one list or in one pair of hands        *)
(* (Lists, Hands), so nobody writes to a timer that is in the sorted list  *)
(* (Order).  An entry outside the map is in the hands of the one call that *)
(* makes or removes it (Entries).  A block's id leads back to it, and the  *)
(* blocks of removed ids are canceled (Names).  A callback in progress     *)
(* keeps the timer thread, and quitting keeps every caller out (Phases).   *)
(* The timer thread has not yet called what it is about to call for an id  *)
(* that was removed (NotLateYet).                                          *)
(***************************************************************************)
EXTENDS SDLTimers, SequenceTheorems, TLAPS

\* The lists share no block and have none twice.
Lists ==
    /\ IsInjective(pending) /\ IsInjective(sorting) /\ IsInjective(timers)
    /\ IsInjective(expired) /\ IsInjective(freelist)
    /\ Range(pending) \cap Range(sorting) = {}
    /\ Range(pending) \cap Range(timers) = {}
    /\ Range(pending) \cap Range(expired) = {}
    /\ Range(pending) \cap Range(freelist) = {}
    /\ Range(sorting) \cap Range(timers) = {}
    /\ Range(sorting) \cap Range(expired) = {}
    /\ Range(sorting) \cap Range(freelist) = {}
    /\ Range(timers) \cap Range(expired) = {}
    /\ Range(timers) \cap Range(freelist) = {}
    /\ Range(expired) \cap Range(freelist) = {}

Listed ==
    Range(pending) \cup Range(sorting) \cup Range(timers) \cup Range(expired)
       \cup Range(freelist)

\* A block in somebody's hands is on no list and in no other hands.
Hands ==
    /\ \A c \in Actors :
          block[c] # NoBlock <=> pc[c] \in {"recycle", "setup", "map", "push"}
    /\ current # NoBlock <=> thread \in {"call", "callback"}
    /\ \A c, d \in Actors : c # d /\ block[c] = block[d] => block[c] = NoBlock
    /\ \A c \in Actors : block[c] = current => current = NoBlock
    /\ \A c \in Actors : block[c] \notin Listed
    /\ current \notin Listed
    /\ allocated = Listed \cup (Held \ {NoBlock})

\* The list is sorted and the callback is not early.
Order == Sorted /\ NeverEarly /\ tick <= now

\* Who has an entry outside the map.
HasEntry(c) == pc[c] \in {"map", "look", "cancel"}

Entries ==
    /\ entries \subseteq 1..(nextId - 1)
    /\ \A c \in Actors :
          pc[c] \in {"map", "push", "signal", "return", "look", "cancel"}
          => arg[c] \in 1..(nextId - 1)
    /\ \A c \in Actors : HasEntry(c) => arg[c] \in entries \ map
    /\ \A c, d \in Actors :
          c # d /\ HasEntry(c) /\ HasEntry(d) => arg[c] # arg[d]
    /\ \A i \in entries \ map : \E c \in Actors : HasEntry(c) /\ arg[c] = i

\* Blocks that have been set up and not yet retired.
Running(b) ==
    \/ b \in Range(pending) \cup Range(sorting) \cup Range(timers)
    \/ b = current
    \/ \E c \in Actors : block[c] = b /\ pc[c] \in {"map", "push"}

Names ==
    /\ \A b \in Blocks : Running(b) => id[b] # 0
    /\ \A b \in Blocks : id[b] # 0 => id[b] < nextId /\ owner[id[b]] = b
    /\ removed \subseteq 1..(nextId - 1)
    /\ \A b \in Blocks : id[b] \in removed => canceled[b]

Quitting(c) == pc[c] \in {"quit", "join", "done"}

Phases ==
    /\ pc[TimerThread] # "out" => thread = "callback"
    /\ \A c \in Actors : Quitting(c) => c \in Callers /\ ~active
    /\ \A c \in Callers : pc[c] # "spin"
    /\ ~active => \A c \in Callers : pc[c] = "out" \/ Quitting(c)
    /\ \A c, d \in Callers : Quitting(c) /\ Quitting(d) => c = d
    /\ thread = "exited" => ~active
    /\ \A c \in Callers : pc[c] = "done" =>
          thread = "exited" /\ entries = {} /\ timers = <<>> /\ freelist = <<>>
    /\ thread # "sort" => sorting = <<>>
    /\ thread \in {"sort", "exited"} => expired = <<>>

Inv ==
    TypeOK /\ Lists /\ Hands /\ Order /\ Entries /\ Names /\ Phases

-----------------------------------------------------------------------------
(* Lemmas about lists                                                      *)

\* The empty list.
LEMMA EmptyList == IsInjective(<<>>) /\ Range(<<>>) = {} /\ Len(<<>>) = 0
BY DEF IsInjective, Range

\* What a list without duplicates is, index by index.
LEMMA ListIs ==
    ASSUME NEW S, NEW s \in Seq(S)
    PROVE  /\ IsInjective(s) <=>
                 \A i, j \in 1..Len(s) : s[i] = s[j] => i = j
           /\ Range(s) = {s[i] : i \in 1..Len(s)}
           /\ Range(s) \subseteq S
           /\ Len(s) \in Nat
           /\ s = <<>> <=> Range(s) = {}
<1>1. DOMAIN s = 1..Len(s) /\ Len(s) \in Nat /\ \A i \in 1..Len(s) : s[i] \in S
  BY LenProperties, ElementOfSeq
<1>2. s # <<>> => 1 \in 1..Len(s)
  BY <1>1, EmptySeq
<1>3. s = <<>> => Range(s) = {}
  BY EmptyList
<1> QED  BY <1>1, <1>2, <1>3 DEF IsInjective, Range

\* The first one is taken off.
LEMMA ListTail ==
    ASSUME NEW S, NEW s \in Seq(S), s # <<>>, IsInjective(s)
    PROVE  /\ Head(s) \in S /\ Head(s) \in Range(s)
           /\ Tail(s) \in Seq(S)
           /\ IsInjective(Tail(s))
           /\ Range(Tail(s)) = Range(s) \ {Head(s)}
<1>1. /\ Head(s) \in S /\ Tail(s) \in Seq(S) /\ Len(Tail(s)) = Len(s) - 1
      /\ \A i \in 1..(Len(s) - 1) : Tail(s)[i] = s[i + 1]
  BY HeadTailProperties
<1>2. Head(s) = s[1] /\ Len(s) \in Nat /\ Len(s) # 0
  BY EmptySeq, LenProperties
<1>3. \A i, j \in 1..Len(s) : s[i] = s[j] => i = j
  BY ListIs
<1> DEFINE t == Tail(s)  n == Len(s)
<1>4. t \in Seq(S) /\ Len(t) = n - 1 /\ \A i \in 1..(n - 1) : t[i] = s[i + 1]
  BY <1>1
<1>5. Range(s) = {s[i] : i \in 1..n} /\ Range(t) = {t[i] : i \in 1..(n - 1)}
  BY <1>4, ListIs
<1>6. IsInjective(t) <=> \A i, j \in 1..(n - 1) : t[i] = t[j] => i = j
  BY <1>4, ListIs
<1> HIDE DEF t
<1>7. IsInjective(t)
  <2>1. ASSUME NEW i \in 1..(n - 1), NEW j \in 1..(n - 1), t[i] = t[j]
        PROVE  i = j
    <3>1. i + 1 \in 1..n /\ j + 1 \in 1..n /\ s[i + 1] = s[j + 1]
      BY <1>2, <1>4, <2>1
    <3>2. i + 1 = j + 1
      BY <1>3, <3>1
    <3> QED  BY <1>2, <3>2
  <2> QED  BY <1>6, <2>1
<1>8. Range(t) = Range(s) \ {Head(s)}
  <2>1. ASSUME NEW x \in Range(t) PROVE x \in Range(s) \ {Head(s)}
    <3>1. PICK i \in 1..(n - 1) : x = t[i]
      BY <1>5
    <3>2. x = s[i + 1] /\ i + 1 \in 1..n /\ 1 \in 1..n /\ i + 1 # 1
      BY <1>2, <1>4, <3>1
    <3> QED  BY <1>2, <1>3, <1>5, <3>2
  <2>2. ASSUME NEW x \in Range(s), x # Head(s) PROVE x \in Range(t)
    <3>1. PICK i \in 1..n : x = s[i]
      BY <1>5
    <3>2. i # 1
      BY <1>2, <2>2, <3>1
    <3>3. i - 1 \in 1..(n - 1) /\ (i - 1) + 1 = i
      BY <1>2, <3>2
    <3>4. t[i - 1] = s[i]
      BY <1>4, <3>3
    <3> QED  BY <1>5, <3>1, <3>3, <3>4
  <2> QED  BY <2>1, <2>2
<1>9. Head(s) \in Range(s)
  <2>1. 1 \in 1..n
    BY <1>2
  <2> QED  BY <1>2, <1>5, <2>1
<1> QED  BY <1>1, <1>7, <1>8, <1>9 DEF t

\* Two lists that share nothing are joined.
LEMMA ListJoin ==
    ASSUME NEW S, NEW s \in Seq(S), NEW t \in Seq(S), IsInjective(s),
           IsInjective(t), Range(s) \cap Range(t) = {}
    PROVE  /\ s \o t \in Seq(S)
           /\ IsInjective(s \o t)
           /\ Range(s \o t) = Range(s) \cup Range(t)
<1> DEFINE u == s \o t  m == Len(s)  n == Len(t)
<1>1. /\ u \in Seq(S) /\ Len(u) = m + n
      /\ \A i \in 1..(m + n) : u[i] = IF i <= m THEN s[i] ELSE t[i - m]
  BY ConcatProperties
<1>2. Range(u) = Range(s) \cup Range(t)
  BY RangeConcatenation
<1>3. /\ m \in Nat /\ n \in Nat
      /\ Range(s) = {s[i] : i \in 1..m} /\ Range(t) = {t[i] : i \in 1..n}
      /\ \A i, j \in 1..m : s[i] = s[j] => i = j
      /\ \A i, j \in 1..n : t[i] = t[j] => i = j
  BY ListIs
<1>4. IsInjective(u) <=> \A i, j \in 1..(m + n) : u[i] = u[j] => i = j
  BY <1>1, ListIs
<1> HIDE DEF u, m, n
<1>5. ASSUME NEW i \in 1..(m + n), NEW j \in 1..(m + n), u[i] = u[j]
      PROVE  i = j
  <2>1. \A x \in 1..(m + n) :
           \/ x \in 1..m /\ u[x] = s[x] /\ u[x] \in Range(s)
           \/ x - m \in 1..n /\ u[x] = t[x - m] /\ u[x] \in Range(t)
    <3>1. ASSUME NEW x \in 1..(m + n), x <= m
          PROVE  x \in 1..m /\ u[x] = s[x]
      BY <1>1, <1>3, <3>1
    <3>2. ASSUME NEW x \in 1..(m + n), ~(x <= m)
          PROVE  x - m \in 1..n /\ u[x] = t[x - m]
      BY <1>1, <1>3, <3>2
    <3> QED  BY <1>3, <3>1, <3>2
  <2>2. CASE i \in 1..m /\ j \in 1..m /\ u[i] = s[i] /\ u[j] = s[j]
    BY <1>3, <1>5, <2>2
  <2>3. CASE i - m \in 1..n /\ j - m \in 1..n /\ u[i] = t[i - m] /\ u[j] = t[j - m]
    <3>1. i - m = j - m
      BY <1>3, <1>5, <2>3
    <3> QED  BY <1>3, <3>1
  <2> QED  BY <1>5, <2>1, <2>2, <2>3
<1> QED  BY <1>1, <1>2, <1>4, <1>5 DEF u

\* One element is a list.
LEMMA ListOne ==
    ASSUME NEW S, NEW e \in S
    PROVE  <<e>> \in Seq(S) /\ IsInjective(<<e>>) /\ Range(<<e>>) = {e}
<1>1. <<e>> \in Seq(S) /\ Len(<<e>>) = 1 /\ <<e>>[1] = e
  OBVIOUS
<1>2. /\ IsInjective(<<e>>) <=>
            \A i, j \in 1..Len(<<e>>) : <<e>>[i] = <<e>>[j] => i = j
      /\ Range(<<e>>) = {<<e>>[i] : i \in 1..Len(<<e>>)}
  BY <1>1, ListIs
<1>3. 1..1 = {1}
  OBVIOUS
<1> QED  BY <1>1, <1>2, <1>3

\* A new one is put in front.
LEMMA ListCons ==
    ASSUME NEW S, NEW s \in Seq(S), NEW e \in S, IsInjective(s), e \notin Range(s)
    PROVE  /\ <<e>> \o s \in Seq(S) /\ IsInjective(<<e>> \o s)
           /\ Range(<<e>> \o s) = Range(s) \cup {e}
<1>1. <<e>> \in Seq(S) /\ IsInjective(<<e>>) /\ Range(<<e>>) = {e}
  BY ListOne
<1> DEFINE one == <<e>>
<1>2. /\ one \in Seq(S) /\ IsInjective(one) /\ Range(one) = {e}
      /\ Range(one) \cap Range(s) = {}
  BY <1>1
<1> HIDE DEF one
<1>3. /\ one \o s \in Seq(S) /\ IsInjective(one \o s)
      /\ Range(one \o s) = Range(one) \cup Range(s)
  BY <1>2, ListJoin
<1> QED  BY <1>2, <1>3 DEF one

\* A new one is put at the end.
LEMMA ListAppend ==
    ASSUME NEW S, NEW s \in Seq(S), NEW e \in S, IsInjective(s), e \notin Range(s)
    PROVE  /\ Append(s, e) \in Seq(S) /\ IsInjective(Append(s, e))
           /\ Range(Append(s, e)) = Range(s) \cup {e}
<1>1. <<e>> \in Seq(S) /\ IsInjective(<<e>>) /\ Range(<<e>>) = {e}
  BY ListOne
<1>2. Append(s, e) = s \o <<e>>
  BY AppendIsConcat
<1> DEFINE one == <<e>>
<1>3. /\ one \in Seq(S) /\ IsInjective(one) /\ Range(one) = {e}
      /\ Range(s) \cap Range(one) = {}
  BY <1>1
<1> HIDE DEF one
<1>4. /\ s \o one \in Seq(S) /\ IsInjective(s \o one)
      /\ Range(s \o one) = Range(s) \cup Range(one)
  BY <1>3, ListJoin
<1> QED  BY <1>2, <1>3, <1>4 DEF one

\* A list t of n + 1 is s with e at position k, the others in their order.
Spread(s, t, n, k, e) ==
    \A i \in 1..(n + 1) :
       \/ i < k /\ i \in 1..n /\ t[i] = s[i]
       \/ i = k /\ t[i] = e
       \/ i > k /\ i - 1 \in 1..n /\ t[i] = s[i - 1]

\* It holds e and what s holds, each once.
LEMMA ListSpread ==
    ASSUME NEW S, NEW n \in Nat, NEW k \in 1..(n + 1), NEW e \in S,
           NEW s \in Seq(S), Len(s) = n, IsInjective(s), e \notin Range(s),
           NEW t \in Seq(S), Len(t) = n + 1, Spread(s, t, n, k, e)
    PROVE  IsInjective(t) /\ Range(t) = Range(s) \cup {e}
<1>0. \A i \in 1..(n + 1) :
         \/ i < k /\ i \in 1..n /\ t[i] = s[i]
         \/ i = k /\ t[i] = e
         \/ i > k /\ i - 1 \in 1..n /\ t[i] = s[i - 1]
  BY DEF Spread
<1>1. /\ Range(s) = {s[i] : i \in 1..n}
      /\ \A i, j \in 1..n : s[i] = s[j] => i = j
  <2>1. /\ Range(s) = {s[i] : i \in 1..Len(s)}
        /\ \A i, j \in 1..Len(s) : s[i] = s[j] => i = j
    BY ListIs
  <2> QED  BY <2>1
<1>2. \A x \in 1..n : s[x] # e
  BY <1>1
<1>3. /\ IsInjective(t) <=> \A i, j \in 1..(n + 1) : t[i] = t[j] => i = j
      /\ Range(t) = {t[i] : i \in 1..(n + 1)}
  <2>1. /\ IsInjective(t) <=> \A i, j \in 1..Len(t) : t[i] = t[j] => i = j
        /\ Range(t) = {t[i] : i \in 1..Len(t)}
    BY ListIs
  <2> QED  BY <2>1
<1>4. ASSUME NEW i \in 1..(n + 1), NEW j \in 1..(n + 1), t[i] = t[j]
      PROVE  i = j
  <2>1. CASE i = k /\ t[i] = e
    BY <1>0, <1>2, <1>4, <2>1
  <2>2. CASE i < k /\ i \in 1..n /\ t[i] = s[i]
    <3>1. CASE j < k /\ j \in 1..n /\ t[j] = s[j]
      BY <1>1, <1>4, <2>2, <3>1
    <3>2. CASE j = k /\ t[j] = e
      BY <1>2, <1>4, <2>2, <3>2
    <3>3. CASE j > k /\ j - 1 \in 1..n /\ t[j] = s[j - 1]
      <4>1. i = j - 1
        BY <1>1, <1>4, <2>2, <3>3
      <4> QED  BY <2>2, <3>3, <4>1
    <3> QED  BY <1>0, <3>1, <3>2, <3>3
  <2>3. CASE i > k /\ i - 1 \in 1..n /\ t[i] = s[i - 1]
    <3>1. CASE j < k /\ j \in 1..n /\ t[j] = s[j]
      <4>1. j = i - 1
        BY <1>1, <1>4, <2>3, <3>1
      <4> QED  BY <2>3, <3>1, <4>1
    <3>2. CASE j = k /\ t[j] = e
      BY <1>2, <1>4, <2>3, <3>2
    <3>3. CASE j > k /\ j - 1 \in 1..n /\ t[j] = s[j - 1]
      <4>1. i - 1 = j - 1
        BY <1>1, <1>4, <2>3, <3>3
      <4> QED  BY <4>1
    <3> QED  BY <1>0, <3>1, <3>2, <3>3
  <2> QED  BY <1>0, <2>1, <2>2, <2>3
<1>5. ASSUME NEW x \in Range(t) PROVE x \in Range(s) \cup {e}
  <2>1. PICK i \in 1..(n + 1) : x = t[i]
    BY <1>3
  <2> QED  BY <1>0, <1>1, <2>1
<1>6. e \in Range(t)
  <2>1. t[k] = e
    BY <1>0
  <2> QED  BY <1>3, <2>1
<1>7. ASSUME NEW x \in Range(s) PROVE x \in Range(t)
  <2>1. PICK i \in 1..n : x = s[i]
    BY <1>1
  <2>2. CASE i < k
    <3>1. i \in 1..(n + 1) /\ t[i] = s[i]
      BY <1>0, <2>2
    <3> QED  BY <1>3, <2>1, <3>1
  <2>3. CASE i >= k
    <3>1. i + 1 \in 1..(n + 1) /\ i + 1 > k /\ (i + 1) - 1 = i
      BY <2>3
    <3>2. t[i + 1] = s[i]
      BY <1>0, <3>1
    <3> QED  BY <1>3, <2>1, <3>1, <3>2
  <2> QED  BY <2>2, <2>3
<1> QED  BY <1>3, <1>4, <1>5, <1>6, <1>7

\* The list with e put in at position k.
With(s, k, e) == SubSeq(s, 1, k - 1) \o <<e>> \o SubSeq(s, k, Len(s))

\* Those before it stay, the others move.
LEMMA ListInsert ==
    ASSUME NEW S, NEW s \in Seq(S), NEW e \in S, NEW k \in 1..(Len(s) + 1),
           IsInjective(s), e \notin Range(s)
    PROVE  /\ With(s, k, e) \in Seq(S)
           /\ Len(With(s, k, e)) = Len(s) + 1
           /\ Spread(s, With(s, k, e), Len(s), k, e)
           /\ IsInjective(With(s, k, e))
           /\ Range(With(s, k, e)) = Range(s) \cup {e}
<1> DEFINE t == With(s, k, e)  n == Len(s)  front == SubSeq(s, 1, k - 1)  back == SubSeq(s, k, n)
           mid == front \o <<e>>
<1>1. /\ n \in Nat /\ \A i \in 1..n : s[i] \in S
      /\ k \in 1..(n + 1)
      /\ t = mid \o back
  BY ListIs, ElementOfSeq DEF With
<1>2. /\ front \in Seq(S) /\ Len(front) = k - 1
      /\ \A i \in 1..(k - 1) : front[i] = s[i]
  <2>1. k - 1 \in Int /\ \A i \in 1..(k - 1) : s[i] \in S
    BY <1>1
  <2>2. /\ front \in Seq(S)
        /\ Len(front) = IF 1 <= k - 1 THEN (k - 1) - 1 + 1 ELSE 0
        /\ \A i \in 1..((k - 1) - 1 + 1) : front[i] = s[1 + i - 1]
    BY <2>1, SubSeqProperties
  <2> HIDE DEF front
  <2> QED  BY <1>1, <2>2
<1>3. /\ back \in Seq(S) /\ Len(back) = n - k + 1
      /\ \A i \in 1..(n - k + 1) : back[i] = s[k + i - 1]
  <2>1. k \in Int /\ n \in Int /\ \A i \in k..n : s[i] \in S
    BY <1>1
  <2>2. /\ back \in Seq(S)
        /\ Len(back) = IF k <= n THEN n - k + 1 ELSE 0
        /\ \A i \in 1..(n - k + 1) : back[i] = s[k + i - 1]
    BY <2>1, SubSeqProperties
  <2> HIDE DEF back
  <2> QED  BY <1>1, <2>2
<1> HIDE DEF t, n, front, back
<1>5. /\ mid \in Seq(S) /\ Len(mid) = k
      /\ \A i \in 1..(k - 1) : mid[i] = s[i]
      /\ mid[k] = e
  <2>1. <<e>> \in Seq(S) /\ Len(<<e>>) = 1 /\ <<e>>[1] = e
    OBVIOUS
  <2>2. /\ mid \in Seq(S) /\ Len(mid) = (k - 1) + 1
        /\ \A i \in 1..((k - 1) + 1) :
              mid[i] = IF i <= k - 1 THEN front[i] ELSE <<e>>[i - (k - 1)]
    BY <1>2, <2>1, ConcatProperties
  <2> HIDE DEF mid
  <2>3. ASSUME NEW i \in 1..(k - 1) PROVE mid[i] = s[i]
    BY <1>1, <1>2, <2>2
  <2>4. mid[k] = e
    <3>1. k - (k - 1) = 1 /\ k \in 1..((k - 1) + 1) /\ ~(k <= k - 1)
      BY <1>1
    <3> QED  BY <2>1, <2>2, <3>1
  <2> QED  BY <1>1, <2>2, <2>3, <2>4
<1> HIDE DEF mid
<1>6. /\ t \in Seq(S) /\ Len(t) = n + 1
      /\ \A i \in 1..(n + 1) : t[i] = IF i <= k THEN mid[i] ELSE back[i - k]
  <2>1. /\ mid \o back \in Seq(S) /\ Len(mid \o back) = Len(mid) + Len(back)
        /\ \A i \in 1..(Len(mid) + Len(back)) :
              (mid \o back)[i] = IF i <= Len(mid) THEN mid[i]
                                 ELSE back[i - Len(mid)]
    BY <1>3, <1>5, ConcatProperties
  <2>2. Len(mid) + Len(back) = n + 1
    BY <1>1, <1>3, <1>5
  <2> QED  BY <1>1, <1>5, <2>1, <2>2
<1>7. ASSUME NEW i \in 1..(n + 1)
      PROVE  \/ i < k /\ i \in 1..n /\ t[i] = s[i]
             \/ i = k /\ t[i] = e
             \/ i > k /\ i - 1 \in 1..n /\ t[i] = s[i - 1]
  <2>1. CASE i < k
    <3>1. i \in 1..(k - 1) /\ i <= k /\ i \in 1..n
      BY <1>1, <2>1
    <3> QED  BY <1>5, <1>6, <2>1, <3>1
  <2>2. CASE i = k
    <3>1. i <= k
      BY <1>1, <2>2
    <3> QED  BY <1>5, <1>6, <2>2, <3>1
  <2>3. CASE i > k
    <3>1. /\ i - k \in 1..(n - k + 1) /\ k + (i - k) - 1 = i - 1
          /\ ~(i <= k) /\ i - 1 \in 1..n
      BY <1>1, <2>3
    <3> QED  BY <1>3, <1>6, <2>3, <3>1
  <2>4. i < k \/ i = k \/ i > k
    BY <1>1
  <2> QED  BY <2>1, <2>2, <2>3, <2>4
<1>8. Spread(s, t, n, k, e) /\ IsInjective(t) /\ Range(t) = Range(s) \cup {e}
  <2>1. Len(s) = n
    BY DEF n
  <2>2. Spread(s, t, n, k, e)
    BY <1>7 DEF Spread
  <2>3. n \in Nat /\ k \in 1..(n + 1) /\ t \in Seq(S) /\ Len(t) = n + 1
    BY <1>1, <1>6
  <2>4. IsInjective(t) /\ Range(t) = Range(s) \cup {e}
    BY <2>1, <2>2, <2>3, ListSpread
  <2> QED  BY <2>2, <2>4
<1> QED  BY <1>6, <1>8 DEF t, n

-----------------------------------------------------------------------------
(* How the blocks move                                                     *)

\* What the lists hold, as sets.
LEMMA ListFacts ==
    ASSUME TypeOK
    PROVE  /\ pending \in Seq(Blocks) /\ sorting \in Seq(Blocks)
           /\ timers \in Seq(Blocks) /\ expired \in Seq(Blocks)
           /\ freelist \in Seq(Blocks)
           /\ Listed \subseteq Blocks
           /\ NoBlock \notin Listed
<1>1. /\ pending \in Seq(Blocks) /\ sorting \in Seq(Blocks)
      /\ timers \in Seq(Blocks) /\ expired \in Seq(Blocks)
      /\ freelist \in Seq(Blocks)
  BY DEF TypeOK
<1>2. /\ Range(pending) \subseteq Blocks /\ Range(sorting) \subseteq Blocks
      /\ Range(timers) \subseteq Blocks /\ Range(expired) \subseteq Blocks
      /\ Range(freelist) \subseteq Blocks
  BY <1>1, ListIs
<1> QED  BY <1>1, <1>2, TimersAssumption DEF Listed

\* The pending timers change hands, and the expired ones become free.
LEMMA MaintainMoves ==
    ASSUME Inv, Maintain
    PROVE  /\ sorting' = pending /\ pending' = <<>> /\ expired' = <<>>
           /\ timers' = timers
           /\ freelist' \in Seq(Blocks) /\ IsInjective(freelist')
           /\ Range(freelist') = Range(expired) \cup Range(freelist)
           /\ Range(pending') = {} /\ Range(expired') = {} /\ Range(sorting) = {}
<1>1. sorting = <<>> /\ IsInjective(expired) /\ IsInjective(freelist)
  BY DEF Inv, Phases, Lists, Maintain
<1>2. Range(expired) \cap Range(freelist) = {}
  BY DEF Inv, Lists
<1>3. expired \in Seq(Blocks) /\ freelist \in Seq(Blocks)
  BY ListFacts DEF Inv
<1>4. /\ expired \o freelist \in Seq(Blocks) /\ IsInjective(expired \o freelist)
      /\ Range(expired \o freelist) = Range(expired) \cup Range(freelist)
  BY <1>1, <1>2, <1>3, ListJoin
<1> QED  BY <1>1, <1>4, EmptyList DEF Maintain

\* A block that is not in the sorted list is put in.
LEMMA InsertMoves ==
    ASSUME Inv, NEW b \in Blocks, b \notin Range(timers), NEW when, Insert(b, when)
    PROVE  /\ timers' \in Seq(Blocks) /\ IsInjective(timers')
           /\ Range(timers') = Range(timers) \cup {b}
<1>1. timers \in Seq(Blocks) /\ IsInjective(timers)
  BY ListFacts DEF Inv, Lists
<1>2. PICK k \in 1..(Len(timers) + 1) :
         timers' = With(timers, k, b)
  BY DEF Insert, With
<1> QED  BY <1>1, <1>2, ListInsert

\* The list stays sorted if the block is due when it was put in for.
LEMMA InsertSorts ==
    ASSUME Inv, NEW b \in Blocks, b \notin Range(timers), NEW when, Insert(b, when),
           due' \in [Blocks -> 0..MaxTime], due'[b] = when,
           \A x \in Range(timers) : due'[x] = due[x]
    PROVE  Sorted'
<1>1. /\ timers \in Seq(Blocks) /\ IsInjective(timers)
      /\ Range(timers) = {timers[i] : i \in 1..Len(timers)}
      /\ Len(timers) \in Nat
  BY ListFacts, ListIs DEF Inv, Lists
<1>2. PICK k \in 1..(Len(timers) + 1) :
         /\ \A i \in 1..(k - 1) : due[timers[i]] <= when
         /\ k <= Len(timers) => due[timers[k]] > when
         /\ timers' = With(timers, k, b)
  BY DEF Insert, With
<1> DEFINE n == Len(timers)
<1>3. Len(timers') = n + 1 /\ Spread(timers, timers', n, k, b)
  BY <1>1, <1>2, ListInsert
<1>4. \A i \in 1..n : due'[timers[i]] = due[timers[i]] /\ due[timers[i]] \in Nat
  <2>1. \A i \in 1..n : timers[i] \in Blocks /\ timers[i] \in Range(timers)
    BY <1>1, ElementOfSeq
  <2>2. \A x \in Blocks : due[x] \in 0..MaxTime
    BY DEF Inv, TypeOK
  <2> QED  BY <2>1, <2>2
<1>5. \A i, j \in 1..n : i < j => due[timers[i]] <= due[timers[j]]
  BY DEF Inv, Order, Sorted
<1>6. n \in Nat /\ k \in 1..(n + 1) /\ when \in Nat
  <2>1. due'[b] \in 0..MaxTime
    OBVIOUS
  <2> QED  BY <1>1, <2>1
<1> HIDE DEF n
<1>7. ASSUME NEW i \in 1..(n + 1), NEW j \in 1..(n + 1), i < j
      PROVE  due'[timers'[i]] <= due'[timers'[j]]
  <2> DEFINE d(x) == due[timers[x]]  e(x) == due'[timers'[x]]
  <2>1. ASSUME NEW x \in 1..(n + 1)
        PROVE  \/ x < k /\ x \in 1..n /\ e(x) = d(x)
               \/ x = k /\ e(x) = when
               \/ x > k /\ x - 1 \in 1..n /\ e(x) = d(x - 1)
    <3>1. \/ x < k /\ x \in 1..n /\ timers'[x] = timers[x]
          \/ x = k /\ timers'[x] = b
          \/ x > k /\ x - 1 \in 1..n /\ timers'[x] = timers[x - 1]
      BY <1>3 DEF Spread
    <3> QED  BY <1>4, <3>1
  <2>2. \A x \in 1..n : d(x) \in Nat
    BY <1>4
  <2>3. \A x \in 1..n : x < k => d(x) <= when
    <3>1. ASSUME NEW x \in 1..n, x < k PROVE x \in 1..(k - 1)
      BY <1>6, <3>1
    <3> QED  BY <1>2, <3>1
  <2>4. \A x, y \in 1..n : x < y => d(x) <= d(y)
    BY <1>5
  <2>5. k <= n => d(k) > when
    BY <1>2 DEF n
  <2> HIDE DEF d, e
  <2>6. \A x \in 1..n : x >= k => d(x) >= when
    <3> SUFFICES ASSUME NEW x \in 1..n, x >= k PROVE d(x) >= when
      OBVIOUS
    <3>1. k \in 1..n /\ d(k) \in Nat /\ d(x) \in Nat /\ d(k) > when
      BY <1>6, <2>2, <2>5
    <3>2. x = k \/ d(k) <= d(x)
      BY <1>6, <2>4, <3>1
    <3> QED  BY <1>6, <3>1, <3>2
  <2>7. CASE i < k /\ i \in 1..n /\ e(i) = d(i)
    <3>1. CASE j < k /\ j \in 1..n /\ e(j) = d(j)
      BY <1>7, <2>4, <2>7, <3>1 DEF e
    <3>2. CASE j = k /\ e(j) = when
      BY <2>3, <2>7, <3>2 DEF e
    <3>3. CASE j > k /\ j - 1 \in 1..n /\ e(j) = d(j - 1)
      <4>1. d(i) <= when /\ d(j - 1) >= when /\ d(i) \in Nat /\ d(j - 1) \in Nat
        BY <1>6, <2>2, <2>3, <2>6, <2>7, <3>3
      <4> QED  BY <1>6, <2>7, <3>3, <4>1 DEF e
    <3> QED  BY <2>1, <3>1, <3>2, <3>3
  <2>8. CASE i = k /\ e(i) = when
    <3>1. j > k /\ j - 1 \in 1..n /\ e(j) = d(j - 1)
      BY <1>6, <1>7, <2>1, <2>8
    <3>2. d(j - 1) >= when
      BY <1>6, <2>6, <3>1
    <3> QED  BY <1>6, <2>2, <2>8, <3>1, <3>2 DEF e
  <2>9. CASE i > k /\ i - 1 \in 1..n /\ e(i) = d(i - 1)
    <3>1. j > k /\ j - 1 \in 1..n /\ e(j) = d(j - 1)
      BY <1>6, <1>7, <2>1, <2>9
    <3>2. d(i - 1) <= d(j - 1)
      BY <1>7, <2>4, <2>9, <3>1
    <3> QED  BY <2>9, <3>1, <3>2 DEF e
  <2> QED  BY <2>1, <2>7, <2>8, <2>9
<1> QED  BY <1>3, <1>7 DEF Sorted

\* Without its first the list is still sorted.
LEMMA FirstSorts ==
    ASSUME Inv, timers # <<>>, timers' = Tail(timers), due' = due
    PROVE  Sorted'
<1>1. timers \in Seq(Blocks) /\ Len(timers) \in Nat
  BY ListFacts, ListIs DEF Inv
<1> DEFINE n == Len(timers)  t == Tail(timers)
<1>2. Len(t) = n - 1 /\ \A i \in 1..(n - 1) : t[i] = timers[i + 1]
  BY <1>1, HeadTailProperties
<1>3. \A i, j \in 1..n : i < j => due[timers[i]] <= due[timers[j]]
  BY DEF Inv, Order, Sorted
<1>4. n \in Nat
  BY <1>1
<1> HIDE DEF n, t
<1>5. ASSUME NEW i \in 1..(n - 1), NEW j \in 1..(n - 1), i < j
      PROVE  due[t[i]] <= due[t[j]]
  <2>1. i + 1 \in 1..n /\ j + 1 \in 1..n /\ i + 1 < j + 1
    BY <1>4, <1>5
  <2>2. due[timers[i + 1]] <= due[timers[j + 1]]
    BY <1>3, <2>1
  <2> QED  BY <1>2, <2>2
<1>6. timers' = t
  BY DEF t
<1> QED  BY <1>2, <1>5, <1>6 DEF Sorted

\* The first of the pending timers goes into the sorted list.
LEMMA SortMoves ==
    ASSUME Inv, Sort
    PROVE  /\ Head(sorting) \in Range(sorting) /\ Head(sorting) \in Blocks
           /\ Head(sorting) \notin Range(timers)
           /\ sorting' \in Seq(Blocks) /\ IsInjective(sorting')
           /\ Range(sorting') = Range(sorting) \ {Head(sorting)}
           /\ timers' \in Seq(Blocks) /\ IsInjective(timers')
           /\ Range(timers') = Range(timers) \cup {Head(sorting)}
<1>1. sorting \in Seq(Blocks) /\ IsInjective(sorting) /\ sorting # <<>>
  BY ListFacts DEF Inv, Lists, Sort
<1>2. /\ Head(sorting) \in Range(sorting) /\ Head(sorting) \in Blocks
      /\ Tail(sorting) \in Seq(Blocks) /\ IsInjective(Tail(sorting))
      /\ Range(Tail(sorting)) = Range(sorting) \ {Head(sorting)}
  BY <1>1, ListTail
<1>3. Head(sorting) \notin Range(timers)
  BY <1>2 DEF Inv, Lists
<1>4. Insert(Head(sorting), due[Head(sorting)]) /\ sorting' = Tail(sorting)
  BY DEF Sort
<1> QED  BY <1>2, <1>3, <1>4, InsertMoves

\* The timer that is dispatched is taken off the sorted list.
LEMMA FirstMoves ==
    ASSUME Inv, timers # <<>>, timers' = Tail(timers)
    PROVE  /\ Head(timers) \in Range(timers) /\ Head(timers) \in Blocks
           /\ timers' \in Seq(Blocks) /\ IsInjective(timers')
           /\ Range(timers') = Range(timers) \ {Head(timers)}
<1>1. timers \in Seq(Blocks) /\ IsInjective(timers)
  BY ListFacts DEF Inv, Lists
<1> QED  BY <1>1, ListTail

\* A block is retired.
LEMMA RetireMoves ==
    ASSUME Inv, NEW b \in Blocks, b \notin Range(expired), Retire(b)
    PROVE  /\ expired' \in Seq(Blocks) /\ IsInjective(expired')
           /\ Range(expired') = Range(expired) \cup {b}
           /\ canceled' \in [Blocks -> BOOLEAN]
<1>1. expired \in Seq(Blocks) /\ IsInjective(expired)
  BY ListFacts DEF Inv, Lists
<1>2. canceled' \in [Blocks -> BOOLEAN]
  BY DEF Inv, TypeOK, Retire
<1>3. expired' = Append(expired, b)
  BY DEF Retire
<1>4. /\ Append(expired, b) \in Seq(Blocks) /\ IsInjective(Append(expired, b))
      /\ Range(Append(expired, b)) = Range(expired) \cup {b}
  BY <1>1, ListAppend
<1> QED  BY <1>2, <1>3, <1>4

\* A canceled timer goes from the sorted list to the expired ones.
LEMMA DispatchCanceledMoves ==
    ASSUME Inv, DispatchCanceled
    PROVE  /\ Head(timers) \in Range(timers) /\ Head(timers) \in Blocks
           /\ timers' \in Seq(Blocks) /\ IsInjective(timers')
           /\ Range(timers') = Range(timers) \ {Head(timers)}
           /\ expired' \in Seq(Blocks) /\ IsInjective(expired')
           /\ Range(expired') = Range(expired) \cup {Head(timers)}
           /\ canceled' \in [Blocks -> BOOLEAN]
<1>1. /\ Head(timers) \in Range(timers) /\ Head(timers) \in Blocks
      /\ timers' \in Seq(Blocks) /\ IsInjective(timers')
      /\ Range(timers') = Range(timers) \ {Head(timers)}
  BY FirstMoves DEF DispatchCanceled, FirstDue
<1>2. Head(timers) \notin Range(expired)
  BY <1>1 DEF Inv, Lists
<1>3. Retire(Head(timers))
  BY DEF DispatchCanceled
<1> QED  BY <1>1, <1>2, <1>3, RetireMoves

\* The callback has a timer, which is in no other place.
LEMMA CurrentIs ==
    ASSUME Inv, thread \in {"call", "callback"}
    PROVE  current \in Blocks /\ current \notin Listed
BY DEF Inv, TypeOK, Hands

\* The timer that has run goes back into the sorted list.
LEMMA RescheduleMoves ==
    ASSUME Inv, NEW interval \in Intervals, Reschedule(interval)
    PROVE  /\ current \in Blocks /\ current \notin Listed
           /\ timers' \in Seq(Blocks) /\ IsInjective(timers')
           /\ Range(timers') = Range(timers) \cup {current}
<1>1. current \in Blocks /\ current \notin Listed
  BY CurrentIs DEF Reschedule
<1>2. current \notin Range(timers) /\ Insert(current, tick + interval)
  BY <1>1 DEF Listed, Reschedule
<1> QED  BY <1>1, <1>2, InsertMoves

\* Or it is retired.
LEMMA ExpireMoves ==
    ASSUME Inv, Expire
    PROVE  /\ current \in Blocks /\ current \notin Listed
           /\ expired' \in Seq(Blocks) /\ IsInjective(expired')
           /\ Range(expired') = Range(expired) \cup {current}
           /\ canceled' \in [Blocks -> BOOLEAN]
<1>1. current \in Blocks /\ current \notin Listed
  BY CurrentIs DEF Expire
<1>2. current \notin Range(expired) /\ Retire(current)
  BY <1>1 DEF Listed, Expire
<1> QED  BY <1>1, <1>2, RetireMoves

\* A free block is taken.
LEMMA FreeMoves ==
    ASSUME Inv, freelist # <<>>, freelist' = Tail(freelist)
    PROVE  /\ Head(freelist) \in Range(freelist) /\ Head(freelist) \in Blocks
           /\ freelist' \in Seq(Blocks) /\ IsInjective(freelist')
           /\ Range(freelist') = Range(freelist) \ {Head(freelist)}
<1>1. freelist \in Seq(Blocks) /\ IsInjective(freelist)
  BY ListFacts DEF Inv, Lists
<1> QED  BY <1>1, ListTail

\* A new timer is pushed.
LEMMA PushMoves ==
    ASSUME Inv, NEW c \in Actors, Push(c)
    PROVE  /\ block[c] \in Blocks
           /\ pending' \in Seq(Blocks) /\ IsInjective(pending')
           /\ Range(pending') = Range(pending) \cup {block[c]}
<1>1. pending \in Seq(Blocks) /\ IsInjective(pending)
  BY ListFacts DEF Inv, Lists
<1>2. block[c] \in Blocks /\ block[c] \notin Range(pending)
  BY DEF Inv, TypeOK, Hands, Push, Listed
<1>3. pending' = <<block[c]>> \o pending
  BY DEF Push
<1>4. /\ <<block[c]>> \o pending \in Seq(Blocks)
      /\ IsInjective(<<block[c]>> \o pending)
      /\ Range(<<block[c]>> \o pending) = Range(pending) \cup {block[c]}
  BY <1>1, <1>2, ListCons
<1> QED  BY <1>2, <1>3, <1>4

-----------------------------------------------------------------------------
(* Every step keeps the invariant                                         *)

\* The types are kept.
LEMMA TypeStep == ASSUME Inv, [Next]_vars PROVE TypeOK'
<1>1. ASSUME Maintain PROVE TypeOK'
  <2>1. {pending, sorting, timers, expired, freelist}' \subseteq Seq(Blocks)
    BY <1>1, MaintainMoves DEF Inv, TypeOK, Maintain
  <2> QED  BY <1>1, <2>1 DEF Inv, TypeOK, Maintain, objects, mapping, calls,
      ghosts
<1>2. ASSUME Sort PROVE TypeOK'
  BY <1>2, SortMoves DEF Inv, TypeOK, Sort, Goto, lists, objects, mapping,
      dispatcher, calls, ghosts, Lists
<1>3. ASSUME StillRunning PROVE TypeOK'
  BY <1>3 DEF Inv, TypeOK, StillRunning, Goto, lists, objects, mapping,
      dispatcher, calls, ghosts
<1>4. ASSUME LeaveLoop PROVE TypeOK'
  BY <1>4 DEF Inv, TypeOK, LeaveLoop, Goto, lists, objects, mapping,
      dispatcher, calls, ghosts
<1>5. ASSUME DispatchCanceled PROVE TypeOK'
  BY <1>5, DispatchCanceledMoves DEF Inv, TypeOK, DispatchCanceled, Goto,
      lists, objects, mapping, dispatcher, calls, ghosts
<1>6. ASSUME Dispatch PROVE TypeOK'
  <2>1. Head(timers) \in Blocks /\ timers' \in Seq(Blocks)
    BY <1>6, FirstMoves DEF Dispatch, FirstDue
  <2> QED  BY <1>6, <2>1 DEF Inv, TypeOK, Dispatch, Goto, lists, objects,
      mapping, dispatcher, calls, ghosts
<1>7. ASSUME Expire PROVE TypeOK'
  BY <1>7, ExpireMoves DEF Inv, TypeOK, Expire, Goto, lists, objects,
      mapping, dispatcher, calls, ghosts
<1>8. ASSUME StartWait PROVE TypeOK'
  BY <1>8 DEF Inv, TypeOK, StartWait, Goto, lists, objects, mapping,
      dispatcher, calls, ghosts
<1>9. ASSUME WokenBySem PROVE TypeOK'
  BY <1>9 DEF Inv, TypeOK, WokenBySem, Goto, lists, objects, mapping,
      dispatcher, calls, ghosts
<1>10. ASSUME WokenByTime PROVE TypeOK'
  BY <1>10 DEF Inv, TypeOK, WokenByTime, Goto, lists, objects, mapping,
      dispatcher, calls, ghosts
<1>11. ASSUME NEW interval \in Intervals, Reschedule(interval) PROVE TypeOK'
  <2>1. timers' \in Seq(Blocks) /\ current \in Blocks
    BY <1>11, RescheduleMoves DEF Reschedule, Goto, lists, objects, mapping,
        dispatcher, calls, ghosts, Inv
  <2>2. tick + interval \in 0..MaxTime
    BY <1>11, TimersAssumption DEF Reschedule, Goto, lists, objects, mapping,
        dispatcher, calls, ghosts, Inv, TypeOK
  <2>3. due' \in [Blocks -> 0..MaxTime]
    BY <1>11, <2>1, <2>2 DEF Reschedule, Goto, lists, objects, mapping,
        dispatcher, calls, ghosts, Inv, TypeOK
  <2> QED  BY <1>11, <2>1, <2>2, <2>3 DEF Inv, TypeOK, Reschedule, Goto, lists,
      objects, mapping, dispatcher, calls, ghosts
<1>12. ASSUME Tick PROVE TypeOK'
  <2>1. now' \in 0..MaxTime
    BY <1>12, TimersAssumption DEF Tick, Goto, lists, objects, mapping,
        dispatcher, calls, ghosts, Inv, TypeOK
  <2> QED  BY <1>12, <2>1 DEF Inv, TypeOK, Tick, Goto, lists, objects, mapping,
      dispatcher, calls, ghosts
<1>13. ASSUME SpinInInit PROVE TypeOK'
  BY <1>13 DEF Inv, TypeOK, SpinInInit, Goto, lists, objects, mapping,
      dispatcher, calls, ghosts
<1>14. ASSUME NEW c \in Actors, Recycle(c) PROVE TypeOK'
  BY <1>14 DEF Inv, TypeOK, Recycle, Goto, lists, objects, mapping,
      dispatcher, calls, ghosts
<1>15. ASSUME NEW c \in Actors, NEW interval \in Intervals, Setup(c,
    interval) PROVE TypeOK'
  <2>1. block[c] \in Blocks
    BY <1>15 DEF Setup, Goto, lists, objects, mapping, dispatcher, calls,
        ghosts, Inv, TypeOK, Hands
  <2>2. nextId \in Ids /\ nextId \in 0..MaxId /\ nextId' \in 1..(MaxId + 1)
    BY <1>15, TimersAssumption DEF Setup, Goto, lists, objects, mapping,
        dispatcher, calls, ghosts, Inv, TypeOK, Ids
  <2>3. now + interval \in 0..MaxTime
    BY <1>15, TimersAssumption DEF Setup, Goto, lists, objects, mapping,
        dispatcher, calls, ghosts, Inv, TypeOK
  <2>4. due' \in [Blocks -> 0..MaxTime] /\ id' \in [Blocks -> 0..MaxId]
    BY <1>15, <2>1, <2>2, <2>3 DEF Setup, Goto, lists, objects, mapping,
        dispatcher, calls, ghosts, Inv, TypeOK
  <2>5. canceled' \in [Blocks -> BOOLEAN]
    BY <1>15, <2>1 DEF Setup, Goto, lists, objects, mapping, dispatcher,
        calls, ghosts, Inv, TypeOK
  <2>6. owner' \in [Ids -> Blocks \cup {NoBlock}] /\ arg' \in [Actors ->
      0..MaxId]
    BY <1>15, <2>1, <2>2 DEF Setup, Goto, lists, objects, mapping, dispatcher,
        calls, ghosts, Inv, TypeOK
  <2>7. pc' \in [Actors -> {"out", "recycle", "setup", "map", "push",
      "signal", "return", "look", "cancel", "quit", "join", "done", "spin"}]
    BY <1>15 DEF Setup, Goto, lists, objects, mapping, dispatcher, calls,
        ghosts, Inv, TypeOK
  <2>8. map' \subseteq entries' /\ entries' \subseteq Ids
    BY <1>15, <2>2 DEF Setup, Goto, lists, objects, mapping, dispatcher,
        calls, ghosts, Inv, TypeOK
  <2> QED  BY <1>15, <2>1, <2>2, <2>3, <2>4, <2>5, <2>6, <2>7, <2>8 DEF Inv,
      TypeOK, Setup, Goto, lists, objects, mapping, dispatcher, calls, ghosts
<1>16. ASSUME NEW c \in Actors, SetupFails(c) PROVE TypeOK'
  BY <1>16, TimersAssumption DEF Inv, TypeOK, SetupFails, Goto, lists,
      objects, mapping, dispatcher, calls, ghosts
<1>17. ASSUME NEW c \in Actors, Map(c) PROVE TypeOK'
  BY <1>17, TimersAssumption DEF Inv, TypeOK, Map, Goto, lists, objects,
      mapping, dispatcher, calls, ghosts, Entries, HasEntry, Ids
<1>18. ASSUME NEW c \in Actors, Push(c) PROVE TypeOK'
  BY <1>18, PushMoves DEF Inv, TypeOK, Push, Goto, lists, objects, mapping,
      dispatcher, calls, ghosts
<1>19. ASSUME NEW c \in Actors, WakeThread(c) PROVE TypeOK'
  BY <1>19 DEF Inv, TypeOK, WakeThread, Goto, lists, objects, mapping,
      dispatcher, calls, ghosts
<1>20. ASSUME NEW c \in Actors, ReturnId(c) PROVE TypeOK'
  <2>1. arg[c] \in Ids
    BY <1>20, TimersAssumption DEF ReturnId, Goto, lists, objects, mapping,
        dispatcher, calls, ghosts, Inv, TypeOK, Entries, Ids
  <2>2. 0 \in 0..MaxId
    BY <1>20, TimersAssumption DEF ReturnId, Goto, lists, objects, mapping,
        dispatcher, calls, ghosts, Inv
  <2>3. arg' \in [Actors -> 0..MaxId]
    BY <1>20, <2>2 DEF ReturnId, Goto, lists, objects, mapping, dispatcher,
        calls, ghosts, Inv, TypeOK
  <2>4. pc' \in [Actors -> {"out", "recycle", "setup", "map", "push",
      "signal", "return", "look", "cancel", "quit", "join", "done", "spin"}]
    BY <1>20 DEF ReturnId, Goto, lists, objects, mapping, dispatcher, calls,
        ghosts, Inv, TypeOK
  <2> QED  BY <1>20, <2>1, <2>2, <2>3, <2>4 DEF Inv, TypeOK, ReturnId, Goto,
      lists, objects, mapping, dispatcher, calls, ghosts
<1>21. ASSUME NEW c \in Actors, LookCanceled(c) PROVE TypeOK'
  <2>1. arg[c] \notin map /\ map' \subseteq entries' /\ entries' \subseteq
      Ids
    BY <1>21 DEF LookCanceled, FreeEntry, Goto, lists, objects, mapping,
        dispatcher, calls, ghosts, Inv, TypeOK, Entries, HasEntry
  <2>2. 0 \in 0..MaxId
    BY <1>21, TimersAssumption DEF LookCanceled, FreeEntry, Goto, lists,
        objects, mapping, dispatcher, calls, ghosts, Inv
  <2>3. arg' \in [Actors -> 0..MaxId]
    BY <1>21, <2>2 DEF LookCanceled, FreeEntry, Goto, lists, objects, mapping,
        dispatcher, calls, ghosts, Inv, TypeOK
  <2>4. pc' \in [Actors -> {"out", "recycle", "setup", "map", "push",
      "signal", "return", "look", "cancel", "quit", "join", "done", "spin"}]
    BY <1>21 DEF LookCanceled, FreeEntry, Goto, lists, objects, mapping,
        dispatcher, calls, ghosts, Inv, TypeOK
  <2> QED  BY <1>21, <2>1, <2>2, <2>3, <2>4 DEF Inv, TypeOK, LookCanceled,
      FreeEntry, Goto, lists, objects, mapping, dispatcher, calls, ghosts
<1>22. ASSUME NEW c \in Actors, LookRunning(c) PROVE TypeOK'
  BY <1>22 DEF Inv, TypeOK, LookRunning, Goto, lists, objects, mapping,
      dispatcher, calls, ghosts
<1>23. ASSUME NEW c \in Actors, Cancel(c) PROVE TypeOK'
  <2>1. arg[c] \notin map /\ map' \subseteq entries' /\ entries' \subseteq
      Ids
    BY <1>23 DEF Cancel, FreeEntry, Goto, lists, objects, mapping, dispatcher,
        calls, ghosts, Inv, TypeOK, Entries, HasEntry
  <2>2. 0 \in 0..MaxId
    BY <1>23, TimersAssumption DEF Cancel, FreeEntry, Goto, lists, objects,
        mapping, dispatcher, calls, ghosts, Inv
  <2>3. arg' \in [Actors -> 0..MaxId]
    BY <1>23, <2>2 DEF Cancel, FreeEntry, Goto, lists, objects, mapping,
        dispatcher, calls, ghosts, Inv, TypeOK
  <2>4. pc' \in [Actors -> {"out", "recycle", "setup", "map", "push",
      "signal", "return", "look", "cancel", "quit", "join", "done", "spin"}]
    BY <1>23 DEF Cancel, FreeEntry, Goto, lists, objects, mapping, dispatcher,
        calls, ghosts, Inv, TypeOK
  <2>5. arg[c] \in Ids
    BY <1>23, TimersAssumption DEF Cancel, FreeEntry, Goto, lists, objects,
        mapping, dispatcher, calls, ghosts, Inv, TypeOK, Entries, Ids
  <2>6. canceled' \in [Blocks -> BOOLEAN]
    BY <1>23 DEF Cancel, FreeEntry, Goto, lists, objects, mapping, dispatcher,
        calls, ghosts, Inv, TypeOK
  <2> QED  BY <1>23, <2>1, <2>2, <2>3, <2>4, <2>5, <2>6 DEF Inv, TypeOK,
      Cancel, FreeEntry, Goto, lists, objects, mapping, dispatcher, calls,
      ghosts
<1>24. ASSUME NEW c \in Actors, QuitWakes(c) PROVE TypeOK'
  BY <1>24 DEF Inv, TypeOK, QuitWakes, Goto, lists, objects, mapping,
      dispatcher, calls, ghosts
<1>25. ASSUME NEW c \in Actors, QuitFrees(c) PROVE TypeOK'
  <2>1. {pending, sorting, timers, expired, freelist}' \subseteq Seq(Blocks)
    BY <1>25, EmptySeq DEF Inv, TypeOK, QuitFrees
  <2>2. /\ allocated' \subseteq Blocks /\ map' \subseteq entries'
        /\ entries' \subseteq Ids
    BY <1>25 DEF Inv, TypeOK, QuitFrees
  <2> QED  BY <1>25, <2>1, <2>2 DEF Inv, TypeOK, QuitFrees, Goto, dispatcher,
      ghosts
<1>26. ASSUME NEW c \in Actors, NEW b \in Blocks, AllocateTimer(c, b) PROVE
    TypeOK'
  BY <1>26 DEF Inv, TypeOK, AllocateTimer, MayCall, Goto, lists, objects,
      mapping, dispatcher, calls, ghosts
<1>27. ASSUME NEW c \in Actors, TakeFree(c) PROVE TypeOK'
  <2>1. Head(freelist) \in Blocks /\ freelist' \in Seq(Blocks)
    BY <1>27, FreeMoves DEF TakeFree
  <2> QED  BY <1>27, <2>1 DEF Inv, TypeOK, TakeFree, Goto, lists, objects,
      mapping, dispatcher, calls, ghosts
<1>28. ASSUME NEW c \in Actors, NEW i \in Ids, Unlink(c, i) PROVE TypeOK'
  <2>1. i \in 0..MaxId
    BY <1>28, TimersAssumption DEF Unlink, MayCall, Goto, lists, objects,
        mapping, dispatcher, calls, ghosts, Ids
  <2>2. arg' \in [Actors -> 0..MaxId]
    BY <1>28, <2>1 DEF Unlink, MayCall, Goto, lists, objects, mapping,
        dispatcher, calls, ghosts, Inv, TypeOK
  <2>3. pc' \in [Actors -> {"out", "recycle", "setup", "map", "push",
      "signal", "return", "look", "cancel", "quit", "join", "done", "spin"}]
    BY <1>28 DEF Unlink, MayCall, Goto, lists, objects, mapping, dispatcher,
        calls, ghosts, Inv, TypeOK
  <2> QED  BY <1>28, <2>1, <2>2, <2>3 DEF Inv, TypeOK, Unlink, MayCall, Goto,
      lists, objects, mapping, dispatcher, calls, ghosts
<1>29. ASSUME NEW c \in Actors, Quit(c) PROVE TypeOK'
  BY <1>29 DEF Inv, TypeOK, Quit, MayCall, Goto, lists, objects, mapping,
      dispatcher, calls, ghosts
<1>30. ASSUME UNCHANGED vars PROVE TypeOK'
  BY <1>30 DEF Inv, TypeOK, vars, Goto, lists, objects, mapping, dispatcher,
      calls, ghosts
<1>31. ASSUME StartCallback PROVE TypeOK'
  <2>1. current \in Blocks /\ id[current] # 0
    BY <1>31, CurrentIs DEF Inv, Names, Running, StartCallback
  <2>2. id[current] \in Ids
    BY <2>1 DEF Inv, TypeOK, Ids
  <2>3. /\ known' \subseteq Ids /\ called' \subseteq Ids /\ late' \subseteq Ids
        /\ removed' \subseteq Ids
    BY <1>31, <2>2 DEF Inv, TypeOK, StartCallback
  <2> QED  BY <1>31, <2>3 DEF Inv, TypeOK, StartCallback, lists, objects,
      mapping, calls
<1> QED
  BY <1>1, <1>2, <1>3, <1>4, <1>5, <1>6, <1>7, <1>8, <1>9, <1>10, <1>11,
      <1>12, <1>13, <1>14, <1>15, <1>16, <1>17, <1>18, <1>19, <1>20, <1>21,
      <1>22, <1>23, <1>24, <1>25, <1>26, <1>27, <1>28, <1>29, <1>30, <1>31 DEF Next,
      ThreadStep, InCall

\* Blocks move from one list to another, or through somebody's hands.
LEMMA ListsStep == ASSUME Inv, [Next]_vars PROVE Lists'
<1>1. ASSUME Maintain PROVE Lists'
  BY <1>1, MaintainMoves, EmptyList DEF Inv, Lists, Listed, Maintain, Goto,
      lists, objects, mapping, dispatcher, calls, ghosts
<1>2. ASSUME Sort PROVE Lists'
  BY <1>2, SortMoves DEF Inv, Lists, Listed, Sort, Goto, lists, objects,
      mapping, dispatcher, calls, ghosts
<1>3. ASSUME DispatchCanceled PROVE Lists'
  BY <1>3, DispatchCanceledMoves DEF Inv, Lists, Listed, DispatchCanceled,
      Goto, lists, objects, mapping, dispatcher, calls, ghosts
<1>4. ASSUME Dispatch PROVE Lists'
  BY <1>4, FirstMoves DEF Inv, Lists, Listed, Dispatch, Goto, lists, objects,
      mapping, dispatcher, calls, ghosts, FirstDue
<1>5. ASSUME Expire PROVE Lists'
  BY <1>5, ExpireMoves DEF Inv, Lists, Listed, Expire, Goto, lists, objects,
      mapping, dispatcher, calls, ghosts
<1>6. ASSUME NEW interval \in Intervals, Reschedule(interval) PROVE Lists'
  BY <1>6, RescheduleMoves DEF Inv, Lists, Listed, Reschedule, Goto, lists,
      objects, mapping, dispatcher, calls, ghosts
<1>7. ASSUME NEW c \in Actors, Push(c) PROVE Lists'
  BY <1>7, PushMoves DEF Inv, Lists, Listed, Push, Goto, lists, objects,
      mapping, dispatcher, calls, ghosts, Hands
<1>8. ASSUME NEW c \in Actors, QuitFrees(c) PROVE Lists'
  BY <1>8, EmptyList DEF Inv, Lists, Listed, QuitFrees, Goto, lists, objects,
      mapping, dispatcher, calls, ghosts
<1>9. ASSUME NEW c \in Actors, TakeFree(c) PROVE Lists'
  BY <1>9, FreeMoves DEF Inv, Lists, Listed, TakeFree, MayCall, Goto, lists,
      objects, mapping, dispatcher, calls, ghosts
<1>10. ASSUME UNCHANGED lists
      PROVE  Lists'
  BY <1>10 DEF Inv, Lists, lists
<1>11. ASSUME StillRunning PROVE Lists'
  BY <1>10, <1>11 DEF StillRunning, Goto, lists, objects, mapping,
      dispatcher, calls, ghosts
<1>12. ASSUME LeaveLoop PROVE Lists'
  BY <1>10, <1>12 DEF LeaveLoop, Goto, lists, objects, mapping, dispatcher,
      calls, ghosts
<1>13. ASSUME StartWait PROVE Lists'
  BY <1>10, <1>13 DEF StartWait, Goto, lists, objects, mapping, dispatcher,
      calls, ghosts
<1>14. ASSUME WokenBySem PROVE Lists'
  BY <1>10, <1>14 DEF WokenBySem, Goto, lists, objects, mapping, dispatcher,
      calls, ghosts
<1>15. ASSUME WokenByTime PROVE Lists'
  BY <1>10, <1>15 DEF WokenByTime, Goto, lists, objects, mapping, dispatcher,
      calls, ghosts
<1>16. ASSUME Tick PROVE Lists'
  BY <1>10, <1>16 DEF Tick, Goto, lists, objects, mapping, dispatcher, calls,
      ghosts
<1>17. ASSUME SpinInInit PROVE Lists'
  BY <1>10, <1>17 DEF SpinInInit, Goto, lists, objects, mapping, dispatcher,
      calls, ghosts
<1>18. ASSUME NEW c \in Actors, Recycle(c) PROVE Lists'
  BY <1>10, <1>18 DEF Recycle, Goto, lists, objects, mapping, dispatcher,
      calls, ghosts
<1>19. ASSUME NEW c \in Actors, NEW interval \in Intervals, Setup(c,
    interval) PROVE Lists'
  BY <1>10, <1>19 DEF Setup, Goto, lists, objects, mapping, dispatcher,
      calls, ghosts
<1>20. ASSUME NEW c \in Actors, SetupFails(c) PROVE Lists'
  BY <1>10, <1>20 DEF SetupFails, Goto, lists, objects, mapping, dispatcher,
      calls, ghosts
<1>21. ASSUME NEW c \in Actors, Map(c) PROVE Lists'
  BY <1>10, <1>21 DEF Map, Goto, lists, objects, mapping, dispatcher, calls,
      ghosts
<1>22. ASSUME NEW c \in Actors, WakeThread(c) PROVE Lists'
  BY <1>10, <1>22 DEF WakeThread, Goto, lists, objects, mapping, dispatcher,
      calls, ghosts
<1>23. ASSUME NEW c \in Actors, ReturnId(c) PROVE Lists'
  BY <1>10, <1>23 DEF ReturnId, Goto, lists, objects, mapping, dispatcher,
      calls, ghosts
<1>24. ASSUME NEW c \in Actors, LookCanceled(c) PROVE Lists'
  BY <1>10, <1>24 DEF LookCanceled, FreeEntry, Goto, lists, objects, mapping,
      dispatcher, calls, ghosts
<1>25. ASSUME NEW c \in Actors, LookRunning(c) PROVE Lists'
  BY <1>10, <1>25 DEF LookRunning, Goto, lists, objects, mapping, dispatcher,
      calls, ghosts
<1>26. ASSUME NEW c \in Actors, Cancel(c) PROVE Lists'
  BY <1>10, <1>26 DEF Cancel, FreeEntry, Goto, lists, objects, mapping,
      dispatcher, calls, ghosts
<1>27. ASSUME NEW c \in Actors, QuitWakes(c) PROVE Lists'
  BY <1>10, <1>27 DEF QuitWakes, Goto, lists, objects, mapping, dispatcher,
      calls, ghosts
<1>28. ASSUME NEW c \in Actors, NEW b \in Blocks, AllocateTimer(c, b) PROVE
    Lists'
  BY <1>10, <1>28 DEF AllocateTimer, MayCall, Goto, lists, objects, mapping,
      dispatcher, calls, ghosts
<1>29. ASSUME NEW c \in Actors, NEW i \in Ids, Unlink(c, i) PROVE Lists'
  BY <1>10, <1>29 DEF Unlink, MayCall, Goto, lists, objects, mapping,
      dispatcher, calls, ghosts
<1>30. ASSUME NEW c \in Actors, Quit(c) PROVE Lists'
  BY <1>10, <1>30 DEF Quit, MayCall, Goto, lists, objects, mapping,
      dispatcher, calls, ghosts
<1>31. ASSUME UNCHANGED vars PROVE Lists'
  BY <1>10, <1>31 DEF vars, Goto, lists, objects, mapping, dispatcher, calls,
      ghosts
<1>32. ASSUME StartCallback PROVE Lists'
  BY <1>10, <1>32 DEF StartCallback, lists, objects, mapping,
      dispatcher, calls, ghosts
<1> QED
  BY <1>1, <1>2, <1>3, <1>4, <1>5, <1>6, <1>7, <1>8, <1>9, <1>10, <1>11,
      <1>12, <1>13, <1>14, <1>15, <1>16, <1>17, <1>18, <1>19, <1>20, <1>21,
      <1>22, <1>23, <1>24, <1>25, <1>26, <1>27, <1>28, <1>29, <1>30, <1>31, <1>32
      DEF Next, ThreadStep, InCall

\* A block leaves one place for another.
LEMMA HandsStep == ASSUME Inv, [Next]_vars PROVE Hands'
<1>1. ASSUME Maintain PROVE Hands'
  BY <1>1, MaintainMoves DEF Inv, TypeOK, Hands, Listed, Held, Maintain,
      Goto, lists, objects, mapping, dispatcher, calls, ghosts
<1>2. ASSUME Sort PROVE Hands'
  <2>1. Listed' = Listed
    BY <1>2, SortMoves DEF Inv, Lists, Hands, Listed, Sort, Goto, lists,
        objects, mapping, dispatcher, calls, ghosts
  <2>2. Held' \ {NoBlock} = Held \ {NoBlock}
    BY <1>2 DEF Inv, TypeOK, Hands, Held, Sort, Goto, lists, objects,
        mapping, dispatcher, calls, ghosts
  <2>3. allocated' = Listed' \cup (Held' \ {NoBlock})
    BY <1>2, <2>1, <2>2 DEF Inv, Hands, Held, Sort, Goto, lists,
        objects, mapping, dispatcher, calls, ghosts
  <2> QED  BY <1>2, <2>1, <2>3 DEF Inv, TypeOK, Hands, Held, Sort, Goto,
      lists, objects, mapping, dispatcher, calls, ghosts
<1>3. ASSUME StillRunning PROVE Hands'
  BY <1>3 DEF Inv, TypeOK, Hands, Listed, Held, StillRunning, Goto, lists,
      objects, mapping, dispatcher, calls, ghosts
<1>4. ASSUME LeaveLoop PROVE Hands'
  BY <1>4 DEF Inv, TypeOK, Hands, Listed, Held, LeaveLoop, Goto, lists,
      objects, mapping, dispatcher, calls, ghosts
<1>5. ASSUME DispatchCanceled PROVE Hands'
  <2>1. Listed' = Listed
    BY <1>5, DispatchCanceledMoves DEF Inv, Lists, Hands, Listed,
        DispatchCanceled, Goto, lists, objects, mapping, dispatcher, calls,
        ghosts
  <2>2. Held' \ {NoBlock} = Held \ {NoBlock}
    BY <1>5 DEF Inv, TypeOK, Hands, Held, DispatchCanceled, Goto,
        lists, objects, mapping, dispatcher, calls, ghosts
  <2>3. allocated' = Listed' \cup (Held' \ {NoBlock})
    BY <1>5, <2>1, <2>2 DEF Inv, Hands, Held, DispatchCanceled, Goto,
        lists, objects, mapping, dispatcher, calls, ghosts
  <2> QED  BY <1>5, <2>1, <2>3 DEF Inv, TypeOK, Hands, Held,
      DispatchCanceled, Goto, lists, objects, mapping, dispatcher, calls,
      ghosts
<1>6. ASSUME Dispatch PROVE Hands'
  <2>1. /\ Head(timers) \in Range(timers) /\ Head(timers) \in Blocks
        /\ Range(timers') = Range(timers) \ {Head(timers)}
        /\ Head(timers) \in Listed /\ NoBlock \notin Blocks
    BY <1>6, FirstMoves, TimersAssumption DEF Dispatch, FirstDue, Listed
  <2>2. Listed' = Listed \ {Head(timers)}
    BY <1>6, <2>1 DEF Inv, Lists, Hands, Listed, Dispatch, Goto, lists,
        objects, mapping, dispatcher, calls, ghosts
  <2>3. Held' \ {NoBlock} = (Held \ {NoBlock}) \cup {Head(timers)}
    BY <1>6, <2>1 DEF Inv, TypeOK, Hands, Held, Dispatch, Goto, lists,
        objects, mapping, dispatcher, calls, ghosts
  <2>4. allocated' = Listed' \cup (Held' \ {NoBlock})
    BY <1>6, <2>1, <2>2, <2>3 DEF Inv, Hands, Held, Dispatch, Goto, lists,
        objects, mapping, dispatcher, calls, ghosts
  <2> QED  BY <1>6, <2>1, <2>2, <2>4 DEF Inv, TypeOK, Hands, Held, Dispatch,
      Goto, lists, objects, mapping, dispatcher, calls, ghosts
<1>7. ASSUME Expire PROVE Hands'
  <2>1. /\ current \in Blocks /\ current \notin Listed /\ NoBlock \notin Blocks
        /\ NoBlock \notin Listed
    BY <1>7, ExpireMoves, ListFacts, TimersAssumption DEF Inv
  <2>2. Listed' = Listed \cup {current}
    BY <1>7, <2>1, ExpireMoves DEF Inv, Lists, Hands, Listed, Expire, Goto,
        lists, objects, mapping, dispatcher, calls, ghosts
  <2>3. Held' \ {NoBlock} = (Held \ {NoBlock}) \ {current}
    BY <1>7, <2>1 DEF Inv, TypeOK, Hands, Held, Expire, Goto, lists, objects,
        mapping, dispatcher, calls, ghosts
  <2>4. allocated' = Listed' \cup (Held' \ {NoBlock})
    BY <1>7, <2>1, <2>2, <2>3 DEF Inv, Hands, Held, Expire, Goto, lists,
        objects, mapping, dispatcher, calls, ghosts
  <2> QED  BY <1>7, <2>1, <2>2, <2>4 DEF Inv, TypeOK, Hands, Held, Expire,
      Goto, lists, objects, mapping, dispatcher, calls, ghosts
<1>8. ASSUME StartWait PROVE Hands'
  BY <1>8 DEF Inv, TypeOK, Hands, Listed, Held, StartWait, Goto, lists,
      objects, mapping, dispatcher, calls, ghosts
<1>9. ASSUME WokenBySem PROVE Hands'
  BY <1>9 DEF Inv, TypeOK, Hands, Listed, Held, WokenBySem, Goto, lists,
      objects, mapping, dispatcher, calls, ghosts
<1>10. ASSUME WokenByTime PROVE Hands'
  BY <1>10 DEF Inv, TypeOK, Hands, Listed, Held, WokenByTime, Goto, lists,
      objects, mapping, dispatcher, calls, ghosts
<1>11. ASSUME NEW interval \in Intervals, Reschedule(interval) PROVE Hands'
  <2>1. /\ current \in Blocks /\ current \notin Listed /\ NoBlock \notin Blocks
        /\ NoBlock \notin Listed
    BY <1>11, RescheduleMoves, ListFacts, TimersAssumption DEF Inv
  <2>2. Listed' = Listed \cup {current}
    BY <1>11, <2>1, RescheduleMoves DEF Inv, Lists, Hands, Listed, Reschedule,
        Goto, lists, objects, mapping, dispatcher, calls, ghosts
  <2>3. Held' \ {NoBlock} = (Held \ {NoBlock}) \ {current}
    BY <1>11, <2>1 DEF Inv, TypeOK, Hands, Held, Reschedule, Goto, lists,
        objects, mapping, dispatcher, calls, ghosts
  <2>4. allocated' = Listed' \cup (Held' \ {NoBlock})
    BY <1>11, <2>1, <2>2, <2>3 DEF Inv, Hands, Held, Reschedule, Goto, lists,
        objects, mapping, dispatcher, calls, ghosts
  <2> QED  BY <1>11, <2>1, <2>2, <2>4 DEF Inv, TypeOK, Hands, Held, Reschedule,
      Goto, lists, objects, mapping, dispatcher, calls, ghosts
<1>12. ASSUME Tick PROVE Hands'
  BY <1>12 DEF Inv, TypeOK, Hands, Listed, Held, Tick, Goto, lists, objects,
      mapping, dispatcher, calls, ghosts
<1>13. ASSUME SpinInInit PROVE Hands'
  BY <1>13 DEF Inv, TypeOK, Hands, Listed, Held, SpinInInit, Goto, lists,
      objects, mapping, dispatcher, calls, ghosts
<1>14. ASSUME NEW c \in Actors, Recycle(c) PROVE Hands'
  BY <1>14 DEF Inv, TypeOK, Hands, Listed, Held, Recycle, Goto, lists,
      objects, mapping, dispatcher, calls, ghosts
<1>15. ASSUME NEW c \in Actors, NEW interval \in Intervals, Setup(c,
    interval) PROVE Hands'
  BY <1>15 DEF Inv, TypeOK, Hands, Listed, Held, Setup, Goto, lists, objects,
      mapping, dispatcher, calls, ghosts
<1>16. ASSUME NEW c \in Actors, SetupFails(c) PROVE Hands'
  <2>1. /\ block[c] \in Blocks /\ block[c] \notin Listed /\ NoBlock \notin Blocks
        /\ NoBlock \notin Listed
    BY <1>16, ListFacts, TimersAssumption DEF Inv, TypeOK, Hands, SetupFails
  <2>2. Listed' = Listed
    BY <1>16, <2>1 DEF Inv, Lists, Hands, Listed, SetupFails, Goto, lists,
        objects, mapping, dispatcher, calls, ghosts
  <2>3. Held' \ {NoBlock} = (Held \ {NoBlock}) \ {block[c]}
    BY <1>16, <2>1 DEF Inv, TypeOK, Hands, Held, SetupFails, Goto, lists,
        objects, mapping, dispatcher, calls, ghosts
  <2>4. allocated' = Listed' \cup (Held' \ {NoBlock})
    BY <1>16, <2>1, <2>2, <2>3 DEF Inv, Hands, Held, SetupFails, Goto, lists,
        objects, mapping, dispatcher, calls, ghosts
  <2> QED  BY <1>16, <2>1, <2>2, <2>4 DEF Inv, TypeOK, Hands, Held, SetupFails,
      Goto, lists, objects, mapping, dispatcher, calls, ghosts
<1>17. ASSUME NEW c \in Actors, Map(c) PROVE Hands'
  BY <1>17 DEF Inv, TypeOK, Hands, Listed, Held, Map, Goto, lists, objects,
      mapping, dispatcher, calls, ghosts
<1>18. ASSUME NEW c \in Actors, Push(c) PROVE Hands'
  <2>1. /\ block[c] \in Blocks /\ block[c] \notin Listed /\ NoBlock \notin Blocks
        /\ NoBlock \notin Listed
    BY <1>18, ListFacts, TimersAssumption DEF Inv, TypeOK, Hands, Push
  <2>2. Listed' = Listed \cup {block[c]}
    BY <1>18, <2>1, PushMoves DEF Inv, Lists, Hands, Listed, Push, Goto,
        lists, objects, mapping, dispatcher, calls, ghosts
  <2>3. Held' \ {NoBlock} = (Held \ {NoBlock}) \ {block[c]}
    BY <1>18, <2>1 DEF Inv, TypeOK, Hands, Held, Push, Goto, lists, objects,
        mapping, dispatcher, calls, ghosts
  <2>4. allocated' = Listed' \cup (Held' \ {NoBlock})
    BY <1>18, <2>1, <2>2, <2>3 DEF Inv, Hands, Held, Push, Goto, lists,
        objects, mapping, dispatcher, calls, ghosts
  <2> QED  BY <1>18, <2>1, <2>2, <2>4 DEF Inv, TypeOK, Hands, Held, Push, Goto,
      lists, objects, mapping, dispatcher, calls, ghosts
<1>19. ASSUME NEW c \in Actors, WakeThread(c) PROVE Hands'
  BY <1>19 DEF Inv, TypeOK, Hands, Listed, Held, WakeThread, Goto, lists,
      objects, mapping, dispatcher, calls, ghosts
<1>20. ASSUME NEW c \in Actors, ReturnId(c) PROVE Hands'
  BY <1>20 DEF Inv, TypeOK, Hands, Listed, Held, ReturnId, Goto, lists,
      objects, mapping, dispatcher, calls, ghosts
<1>21. ASSUME NEW c \in Actors, LookCanceled(c) PROVE Hands'
  BY <1>21 DEF Inv, TypeOK, Hands, Listed, Held, LookCanceled, FreeEntry,
      Goto, lists, objects, mapping, dispatcher, calls, ghosts
<1>22. ASSUME NEW c \in Actors, LookRunning(c) PROVE Hands'
  BY <1>22 DEF Inv, TypeOK, Hands, Listed, Held, LookRunning, Goto, lists,
      objects, mapping, dispatcher, calls, ghosts
<1>23. ASSUME NEW c \in Actors, Cancel(c) PROVE Hands'
  BY <1>23 DEF Inv, TypeOK, Hands, Listed, Held, Cancel, FreeEntry, Goto,
      lists, objects, mapping, dispatcher, calls, ghosts
<1>24. ASSUME NEW c \in Actors, QuitWakes(c) PROVE Hands'
  BY <1>24 DEF Inv, TypeOK, Hands, Listed, Held, QuitWakes, Goto, lists,
      objects, mapping, dispatcher, calls, ghosts
<1>25. ASSUME NEW c \in Actors, QuitFrees(c) PROVE Hands'
  <2>1. /\ Range(timers') = {} /\ Range(freelist') = {}
        /\ Range(timers) \subseteq Listed /\ Range(freelist) \subseteq Listed
        /\ Held \cap Listed = {}
    BY <1>25, EmptyList DEF QuitFrees, Listed, Inv, Hands, Held
  <2>2. Listed' = Listed \ (Range(timers) \cup Range(freelist))
    BY <1>25, <2>1 DEF Inv, Lists, Hands, Listed, QuitFrees, Goto, lists,
        objects, mapping, dispatcher, calls, ghosts
  <2>3. Held' \ {NoBlock} = Held \ {NoBlock}
    BY <1>25, <2>1 DEF Inv, TypeOK, Hands, Held, QuitFrees, Goto, lists,
        objects, mapping, dispatcher, calls, ghosts
  <2>4. allocated' = Listed' \cup (Held' \ {NoBlock})
    BY <1>25, <2>1, <2>2, <2>3 DEF Inv, Hands, Held, QuitFrees, Goto, lists,
        objects, mapping, dispatcher, calls, ghosts
  <2> QED  BY <1>25, <2>1, <2>2, <2>4 DEF Inv, TypeOK, Hands, Held, QuitFrees,
      Goto, lists, objects, mapping, dispatcher, calls, ghosts
<1>26. ASSUME NEW c \in Actors, NEW b \in Blocks, AllocateTimer(c, b) PROVE
    Hands'
  <2>1. b \notin Listed /\ b \notin Held /\ b # NoBlock
    BY <1>26, TimersAssumption DEF Inv, Hands, AllocateTimer
  <2>2. block[c] = NoBlock /\ pc[c] = "out"
    BY <1>26 DEF Inv, Hands, AllocateTimer, MayCall
  <2>3. /\ \A d \in Actors : block'[d] = IF d = c THEN b ELSE block[d]
        /\ \A d \in Actors : pc'[d] = IF d = c THEN "setup" ELSE pc[d]
    BY <1>26 DEF Inv, TypeOK, AllocateTimer, MayCall, Goto
  <2>4. b \notin Held /\ current' = current /\ thread' = thread
    BY <1>26, <2>1 DEF Inv, Hands, Held, AllocateTimer, MayCall, dispatcher
  <2>5. Listed' = Listed
    BY <1>26, <2>1 DEF Inv, Lists, Hands, Listed, AllocateTimer, MayCall, lists
  <2>6. Held' \ {NoBlock} = (Held \ {NoBlock}) \cup {b}
    BY <2>1, <2>2, <2>3, <2>4 DEF Held
  <2>7. allocated' = Listed' \cup (Held' \ {NoBlock})
    BY <1>26, <2>1, <2>5, <2>6 DEF Inv, Hands, Held, AllocateTimer, MayCall, objects
  <2> QED  BY <2>1, <2>2, <2>3, <2>4, <2>5, <2>7 DEF Inv, Hands, Held
<1>27. ASSUME NEW c \in Actors, TakeFree(c) PROVE Hands'
  <2>1. /\ Head(freelist) \in Range(freelist) /\ Head(freelist) \in Blocks
        /\ Range(freelist') = Range(freelist) \ {Head(freelist)}
        /\ Head(freelist) \in Listed /\ Head(freelist) # NoBlock
    BY <1>27, FreeMoves, TimersAssumption DEF TakeFree, Listed
  <2>2. block[c] = NoBlock /\ pc[c] = "out"
    BY <1>27 DEF Inv, Hands, TakeFree, MayCall
  <2>3. /\ \A d \in Actors : block'[d] = IF d = c THEN Head(freelist) ELSE block[d]
        /\ \A d \in Actors : pc'[d] = IF d = c THEN "recycle" ELSE pc[d]
    BY <1>27 DEF Inv, TypeOK, TakeFree, MayCall, Goto
  <2>4. Head(freelist) \notin Held /\ current' = current /\ thread' = thread
    BY <1>27, <2>1 DEF Inv, Hands, Held, TakeFree, MayCall, dispatcher
  <2>5. Listed' = Listed \ {Head(freelist)}
    BY <1>27, <2>1 DEF Inv, Lists, Hands, Listed, TakeFree, MayCall, lists
  <2>6. Held' \ {NoBlock} = (Held \ {NoBlock}) \cup {Head(freelist)}
    BY <2>1, <2>2, <2>3, <2>4 DEF Held
  <2>7. allocated' = Listed' \cup (Held' \ {NoBlock})
    BY <1>27, <2>1, <2>5, <2>6 DEF Inv, Hands, Held, TakeFree, MayCall, objects
  <2> QED  BY <2>1, <2>2, <2>3, <2>4, <2>5, <2>7 DEF Inv, Hands, Held
<1>28. ASSUME NEW c \in Actors, NEW i \in Ids, Unlink(c, i) PROVE Hands'
  BY <1>28 DEF Inv, TypeOK, Hands, Listed, Held, Unlink, MayCall, Goto,
      lists, objects, mapping, dispatcher, calls, ghosts
<1>29. ASSUME NEW c \in Actors, Quit(c) PROVE Hands'
  BY <1>29 DEF Inv, TypeOK, Hands, Listed, Held, Quit, MayCall, Goto, lists,
      objects, mapping, dispatcher, calls, ghosts
<1>30. ASSUME UNCHANGED vars PROVE Hands'
  BY <1>30 DEF Inv, TypeOK, Hands, Listed, Held, vars, Goto, lists, objects,
      mapping, dispatcher, calls, ghosts
<1>31. ASSUME StartCallback PROVE Hands'
  BY <1>31 DEF Inv, TypeOK, Hands, Listed, Held, StartCallback, lists, objects, mapping,
      dispatcher, calls, ghosts
<1> QED
  BY <1>1, <1>2, <1>3, <1>4, <1>5, <1>6, <1>7, <1>8, <1>9, <1>10, <1>11,
      <1>12, <1>13, <1>14, <1>15, <1>16, <1>17, <1>18, <1>19, <1>20, <1>21,
      <1>22, <1>23, <1>24, <1>25, <1>26, <1>27, <1>28, <1>29, <1>30, <1>31 DEF Next,
      ThreadStep, InCall

\* Timers are put in where they belong and taken from the front.
LEMMA OrderStep == ASSUME Inv, [Next]_vars PROVE Order'
<1>1. ASSUME Maintain PROVE Order'
  BY <1>1 DEF Inv, Order, Sorted, NeverEarly, Maintain, Goto, lists, objects,
      mapping, dispatcher, calls, ghosts
<1>2. ASSUME Sort PROVE Order'
  <2>1. /\ Head(sorting) \in Blocks /\ Head(sorting) \notin Range(timers)
        /\ Insert(Head(sorting), due[Head(sorting)]) /\ due' = due
    BY <1>2, SortMoves DEF Sort, objects
  <2>2. due' \in [Blocks -> 0..MaxTime]
    BY <2>1 DEF Inv, TypeOK
  <2>3. Sorted'
    BY <2>1, <2>2, InsertSorts
  <2>4. NeverEarly' /\ (tick <= now)'
    BY <1>2 DEF Inv, TypeOK, Order, NeverEarly, Sort, dispatcher, objects
  <2> QED  BY <2>3, <2>4 DEF Order
<1>3. ASSUME StillRunning PROVE Order'
  BY <1>3 DEF Inv, Order, Sorted, NeverEarly, StillRunning, Goto, lists,
      objects, mapping, dispatcher, calls, ghosts, TypeOK
<1>4. ASSUME LeaveLoop PROVE Order'
  BY <1>4 DEF Inv, Order, Sorted, NeverEarly, LeaveLoop, Goto, lists,
      objects, mapping, dispatcher, calls, ghosts
<1>5. ASSUME DispatchCanceled PROVE Order'
  <2>1. Sorted'
    BY <1>5, FirstSorts DEF DispatchCanceled, FirstDue
  <2>2. NeverEarly' /\ (tick <= now)'
    BY <1>5 DEF Inv, TypeOK, Order, NeverEarly, DispatchCanceled, dispatcher,
        objects
  <2> QED  BY <2>1, <2>2 DEF Order
<1>6. ASSUME Dispatch PROVE Order'
  <2>1. Sorted'
    BY <1>6, FirstSorts DEF Dispatch, FirstDue, objects
  <2>2. NeverEarly' /\ (tick <= now)'
    BY <1>6 DEF Inv, TypeOK, Order, NeverEarly, Dispatch, FirstDue,
        dispatcher, objects
  <2> QED  BY <2>1, <2>2 DEF Order
<1>7. ASSUME Expire PROVE Order'
  <2>1. Sorted'
    BY <1>7 DEF Inv, Order, Sorted, Expire, lists, objects, Retire
  <2>2. NeverEarly' /\ (tick <= now)'
    BY <1>7 DEF Inv, TypeOK, Order, NeverEarly, Expire, dispatcher, objects
  <2> QED  BY <2>1, <2>2 DEF Order
<1>8. ASSUME StartWait PROVE Order'
  BY <1>8 DEF Inv, Order, Sorted, NeverEarly, StartWait, Goto, lists,
      objects, mapping, dispatcher, calls, ghosts
<1>9. ASSUME WokenBySem PROVE Order'
  BY <1>9 DEF Inv, Order, Sorted, NeverEarly, WokenBySem, Goto, lists,
      objects, mapping, dispatcher, calls, ghosts
<1>10. ASSUME WokenByTime PROVE Order'
  BY <1>10 DEF Inv, Order, Sorted, NeverEarly, WokenByTime, Goto, lists,
      objects, mapping, dispatcher, calls, ghosts
<1>11. ASSUME NEW interval \in Intervals, Reschedule(interval) PROVE Order'
  <2>1. /\ current \in Blocks /\ current \notin Range(timers)
        /\ Insert(current, tick + interval)
    BY <1>11, RescheduleMoves DEF Reschedule, Listed
  <2>2. due' \in [Blocks -> 0..MaxTime]
    BY <1>11, TypeStep DEF TypeOK, Next
  <2>3. /\ due'[current] = tick + interval
        /\ \A x \in Range(timers) : due'[x] = due[x]
    <3>1. Range(timers) \subseteq Blocks
      BY ListFacts DEF Inv, Listed
    <3> QED  BY <1>11, <2>1, <3>1 DEF Inv, TypeOK, Reschedule
  <2>4. Sorted'
    BY <2>1, <2>2, <2>3, InsertSorts
  <2>5. NeverEarly' /\ (tick <= now)'
    BY <1>11 DEF Inv, TypeOK, Order, NeverEarly, Reschedule, dispatcher, objects
  <2> QED  BY <2>4, <2>5 DEF Order
<1>12. ASSUME Tick PROVE Order'
  <2>1. Sorted'
    BY <1>12 DEF Inv, Order, Sorted, Tick, lists, objects
  <2>2. NeverEarly' /\ (tick <= now)'
    BY <1>12 DEF Inv, TypeOK, Order, NeverEarly, Tick, dispatcher, objects
  <2> QED  BY <2>1, <2>2 DEF Order
<1>13. ASSUME NEW c \in Actors, NEW interval \in Intervals, Setup(c,
    interval) PROVE Order'
  <2>1. block[c] \in Blocks /\ block[c] \notin Listed /\ block[c] # current
    BY <1>13 DEF Inv, TypeOK, Hands, Setup
  <2>2. /\ due' = [due EXCEPT ![block[c]] = now + interval]
        /\ timers' = timers /\ current' = current /\ thread' = thread
        /\ tick' = tick /\ now' = now
    BY <1>13 DEF Setup, lists, dispatcher
  <2>3. \A x \in Blocks : x # block[c] => due'[x] = due[x]
    BY <2>1, <2>2 DEF Inv, TypeOK
  <2>4. /\ timers \in Seq(Blocks) /\ Range(timers) = {timers[i] : i \in 1..Len(timers)}
        /\ Range(timers) \subseteq Blocks /\ Range(timers) \subseteq Listed
    BY ListFacts, ListIs DEF Inv, Listed
  <2>5. \A i \in 1..Len(timers) : due'[timers[i]] = due[timers[i]]
    BY <2>1, <2>3, <2>4
  <2>6. Sorted'
    BY <2>2, <2>5 DEF Inv, Order, Sorted
  <2>7. NeverEarly'
    BY <2>1, <2>2, <2>3, CurrentIs DEF Inv, Order, NeverEarly
  <2> QED  BY <2>2, <2>6, <2>7 DEF Inv, Order
<1>14. ASSUME NEW c \in Actors, QuitFrees(c) PROVE Order'
  <2>1. timers' = <<>> /\ Len(timers') = 0
    BY <1>14, EmptyList DEF QuitFrees
  <2>2. Sorted'
    BY <2>1 DEF Sorted
  <2>3. NeverEarly' /\ (tick <= now)'
    BY <1>14 DEF Inv, TypeOK, Order, NeverEarly, QuitFrees, dispatcher, objects
  <2> QED  BY <2>2, <2>3 DEF Order
<1>15. ASSUME UNCHANGED vars PROVE Order'
  BY <1>15 DEF Inv, Order, Sorted, NeverEarly, vars, Goto, lists, objects,
      mapping, dispatcher, calls, ghosts
<1>16. ASSUME UNCHANGED <<timers, due, thread, current, tick, now>>
      PROVE  Order'
  BY <1>16 DEF Inv, Order, Sorted, NeverEarly
<1>17. ASSUME SpinInInit PROVE Order'
  BY <1>16, <1>17 DEF SpinInInit, Goto, lists, objects, mapping, dispatcher,
      calls, ghosts
<1>18. ASSUME NEW c \in Actors, Recycle(c) PROVE Order'
  BY <1>16, <1>18 DEF Recycle, Goto, lists, objects, mapping, dispatcher,
      calls, ghosts
<1>19. ASSUME NEW c \in Actors, SetupFails(c) PROVE Order'
  BY <1>16, <1>19 DEF SetupFails, Goto, lists, objects, mapping, dispatcher,
      calls, ghosts
<1>20. ASSUME NEW c \in Actors, Map(c) PROVE Order'
  BY <1>16, <1>20 DEF Map, Goto, lists, objects, mapping, dispatcher, calls,
      ghosts
<1>21. ASSUME NEW c \in Actors, Push(c) PROVE Order'
  BY <1>16, <1>21 DEF Push, Goto, lists, objects, mapping, dispatcher, calls,
      ghosts
<1>22. ASSUME NEW c \in Actors, WakeThread(c) PROVE Order'
  BY <1>16, <1>22 DEF WakeThread, Goto, lists, objects, mapping, dispatcher,
      calls, ghosts
<1>23. ASSUME NEW c \in Actors, ReturnId(c) PROVE Order'
  BY <1>16, <1>23 DEF ReturnId, Goto, lists, objects, mapping, dispatcher,
      calls, ghosts
<1>24. ASSUME NEW c \in Actors, LookCanceled(c) PROVE Order'
  BY <1>16, <1>24 DEF LookCanceled, FreeEntry, Goto, lists, objects, mapping,
      dispatcher, calls, ghosts
<1>25. ASSUME NEW c \in Actors, LookRunning(c) PROVE Order'
  BY <1>16, <1>25 DEF LookRunning, Goto, lists, objects, mapping, dispatcher,
      calls, ghosts
<1>26. ASSUME NEW c \in Actors, Cancel(c) PROVE Order'
  BY <1>16, <1>26 DEF Cancel, FreeEntry, Goto, lists, objects, mapping,
      dispatcher, calls, ghosts
<1>27. ASSUME NEW c \in Actors, QuitWakes(c) PROVE Order'
  BY <1>16, <1>27 DEF QuitWakes, Goto, lists, objects, mapping, dispatcher,
      calls, ghosts
<1>28. ASSUME NEW c \in Actors, NEW b \in Blocks, AllocateTimer(c, b) PROVE
    Order'
  BY <1>16, <1>28 DEF AllocateTimer, MayCall, Goto, lists, objects, mapping,
      dispatcher, calls, ghosts
<1>29. ASSUME NEW c \in Actors, TakeFree(c) PROVE Order'
  BY <1>16, <1>29 DEF TakeFree, MayCall, Goto, lists, objects, mapping,
      dispatcher, calls, ghosts
<1>30. ASSUME NEW c \in Actors, NEW i \in Ids, Unlink(c, i) PROVE Order'
  BY <1>16, <1>30 DEF Unlink, MayCall, Goto, lists, objects, mapping,
      dispatcher, calls, ghosts
<1>31. ASSUME NEW c \in Actors, Quit(c) PROVE Order'
  BY <1>16, <1>31 DEF Quit, MayCall, Goto, lists, objects, mapping,
      dispatcher, calls, ghosts
<1>32. ASSUME StartCallback PROVE Order'
  BY <1>32 DEF Inv, Order, Sorted, NeverEarly, StartCallback, lists, objects, mapping,
      dispatcher, calls, ghosts
<1> QED
  BY <1>1, <1>2, <1>3, <1>4, <1>5, <1>6, <1>7, <1>8, <1>9, <1>10, <1>11,
      <1>12, <1>13, <1>14, <1>15, <1>16, <1>17, <1>18, <1>19, <1>20, <1>21,
      <1>22, <1>23, <1>24, <1>25, <1>26, <1>27, <1>28, <1>29, <1>30, <1>31, <1>32
      DEF Next, ThreadStep, InCall

\* An entry outside the map belongs to one call.
LEMMA EntriesStep == ASSUME Inv, [Next]_vars PROVE Entries'
<1>1. ASSUME SpinInInit PROVE Entries'
  BY <1>1 DEF Inv, TypeOK, Entries, HasEntry, SpinInInit, Goto, lists,
      objects, mapping, dispatcher, calls, ghosts
<1>2. ASSUME NEW c \in Actors, Recycle(c) PROVE Entries'
  BY <1>2 DEF Inv, TypeOK, Entries, HasEntry, Recycle, Goto, lists, objects,
      mapping, dispatcher, calls, ghosts
<1>3. ASSUME NEW c \in Actors, NEW interval \in Intervals, Setup(c, interval)
    PROVE Entries'
  <2>1. /\ \A d \in Actors : pc'[d] = IF d = c THEN "map" ELSE pc[d]
        /\ pc[c] = "setup"
    BY <1>3 DEF Inv, TypeOK, Setup, Goto
  <2>2. /\ \A d \in Actors : arg'[d] = IF d = c THEN nextId ELSE arg[d]
        /\ nextId' = nextId + 1 /\ entries' = entries \cup {nextId}
        /\ map' = map /\ map \subseteq entries
    BY <1>3 DEF Inv, TypeOK, Setup
  <2>3. /\ nextId \in Nat /\ nextId \notin entries /\ nextId \in 1..(nextId' - 1)
        /\ 1..(nextId - 1) \subseteq 1..(nextId' - 1) /\ nextId \notin 1..(nextId - 1)
    BY <2>2 DEF Inv, TypeOK, Entries
  <2>4. \A d \in Actors : HasEntry(d)' <=> d = c \/ HasEntry(d)
    BY <2>1 DEF HasEntry
  <2>5. ~HasEntry(c) /\ entries' \ map' = (entries \ map) \cup {nextId}
    BY <2>1, <2>2, <2>3 DEF HasEntry
  <2>6. entries' \subseteq 1..(nextId' - 1)
    BY <2>2, <2>3 DEF Inv, Entries
  <2>7. \A d \in Actors :
           pc'[d] \in {"map", "push", "signal", "return", "look", "cancel"}
           => arg'[d] \in 1..(nextId' - 1)
    BY <2>1, <2>2, <2>3 DEF Inv, Entries
  <2>8. /\ \A d \in Actors : HasEntry(d)' => arg'[d] \in entries' \ map'
        /\ \A i \in entries' \ map' : \E d \in Actors : HasEntry(d)' /\ arg'[d] = i
    BY <2>2, <2>4, <2>5 DEF Inv, Entries
  <2>9. ASSUME NEW d \in Actors, NEW e \in Actors, d # e, HasEntry(d)', HasEntry(e)'
        PROVE  arg'[d] # arg'[e]
    BY <2>2, <2>3, <2>4, <2>9 DEF Inv, Entries
  <2> QED  BY <2>6, <2>7, <2>8, <2>9 DEF Entries
<1>4. ASSUME NEW c \in Actors, SetupFails(c) PROVE Entries'
  <2>1. /\ \A d \in Actors : pc'[d] = IF d = c THEN "out" ELSE pc[d]
        /\ pc[c] = "setup"
    BY <1>4 DEF Inv, TypeOK, SetupFails, Goto
  <2>2. /\ arg' = arg /\ nextId' = nextId + 1 /\ entries' = entries /\ map' = map
    BY <1>4 DEF SetupFails
  <2>3. 1..(nextId - 1) \subseteq 1..(nextId' - 1)
    BY <2>2 DEF Inv, TypeOK
  <2> QED  BY <2>1, <2>2, <2>3 DEF Inv, Entries, HasEntry
<1>5. ASSUME NEW c \in Actors, Map(c) PROVE Entries'
  BY <1>5 DEF Inv, TypeOK, Entries, HasEntry, Map, Goto, lists, objects,
      mapping, dispatcher, calls, ghosts
<1>6. ASSUME NEW c \in Actors, Push(c) PROVE Entries'
  BY <1>6 DEF Inv, TypeOK, Entries, HasEntry, Push, Goto, lists, objects,
      mapping, dispatcher, calls, ghosts
<1>7. ASSUME NEW c \in Actors, WakeThread(c) PROVE Entries'
  BY <1>7 DEF Inv, TypeOK, Entries, HasEntry, WakeThread, Goto, lists,
      objects, mapping, dispatcher, calls, ghosts
<1>8. ASSUME NEW c \in Actors, ReturnId(c) PROVE Entries'
  BY <1>8 DEF Inv, TypeOK, Entries, HasEntry, ReturnId, Goto, lists, objects,
      mapping, dispatcher, calls, ghosts
<1>9. ASSUME NEW c \in Actors, LookCanceled(c) PROVE Entries'
  BY <1>9 DEF Inv, TypeOK, Entries, HasEntry, LookCanceled, FreeEntry, Goto,
      lists, objects, mapping, dispatcher, calls, ghosts
<1>10. ASSUME NEW c \in Actors, LookRunning(c) PROVE Entries'
  BY <1>10 DEF Inv, TypeOK, Entries, HasEntry, LookRunning, Goto, lists,
      objects, mapping, dispatcher, calls, ghosts
<1>11. ASSUME NEW c \in Actors, Cancel(c) PROVE Entries'
  BY <1>11 DEF Inv, TypeOK, Entries, HasEntry, Cancel, FreeEntry, Goto,
      lists, objects, mapping, dispatcher, calls, ghosts
<1>12. ASSUME NEW c \in Actors, QuitWakes(c) PROVE Entries'
  BY <1>12 DEF Inv, TypeOK, Entries, HasEntry, QuitWakes, Goto, lists,
      objects, mapping, dispatcher, calls, ghosts
<1>13. ASSUME NEW c \in Actors, QuitFrees(c) PROVE Entries'
  BY <1>13 DEF Inv, TypeOK, Entries, HasEntry, QuitFrees, Goto, lists,
      objects, mapping, dispatcher, calls, ghosts
<1>14. ASSUME NEW c \in Actors, NEW b \in Blocks, AllocateTimer(c, b) PROVE
    Entries'
  BY <1>14 DEF Inv, TypeOK, Entries, HasEntry, AllocateTimer, MayCall, Goto,
      lists, objects, mapping, dispatcher, calls, ghosts
<1>15. ASSUME NEW c \in Actors, TakeFree(c) PROVE Entries'
  BY <1>15 DEF Inv, TypeOK, Entries, HasEntry, TakeFree, MayCall, Goto,
      lists, objects, mapping, dispatcher, calls, ghosts
<1>16. ASSUME NEW c \in Actors, NEW i \in Ids, Unlink(c, i) PROVE Entries'
  <2>1. /\ \A d \in Actors : pc'[d] = IF d = c THEN "look" ELSE pc[d]
        /\ pc[c] = "out"
    BY <1>16 DEF Inv, TypeOK, Unlink, MayCall, Goto
  <2>2. /\ \A d \in Actors : arg'[d] = IF d = c THEN i ELSE arg[d]
        /\ nextId' = nextId /\ entries' = entries
        /\ map' = map \ {i} /\ i \in map /\ map \subseteq entries
    BY <1>16 DEF Inv, TypeOK, Unlink
  <2> QED  BY <2>1, <2>2 DEF Inv, Entries, HasEntry
<1>17. ASSUME NEW c \in Actors, Quit(c) PROVE Entries'
  <2>1. /\ \A d \in Actors : pc'[d] = IF d = c THEN "quit" ELSE pc[d]
        /\ pc[c] = "out"
    BY <1>17 DEF Inv, TypeOK, Quit, MayCall, Goto
  <2>2. /\ arg' = arg /\ nextId' = nextId /\ entries' = entries /\ map' = map
    BY <1>17 DEF Quit, mapping
  <2> QED  BY <2>1, <2>2 DEF Inv, Entries, HasEntry
<1>18. ASSUME UNCHANGED vars PROVE Entries'
  BY <1>18 DEF Inv, TypeOK, Entries, HasEntry, vars, Goto, lists, objects,
      mapping, dispatcher, calls, ghosts
<1>19. ASSUME UNCHANGED <<pc, arg, map, entries, nextId>>
      PROVE  Entries'
  BY <1>19 DEF Inv, TypeOK, Entries, HasEntry
<1>20. ASSUME Maintain PROVE Entries'
  BY <1>19, <1>20 DEF Maintain, Goto, lists, objects, mapping, dispatcher,
      calls, ghosts
<1>21. ASSUME Sort PROVE Entries'
  BY <1>19, <1>21 DEF Sort, Goto, lists, objects, mapping, dispatcher, calls,
      ghosts
<1>22. ASSUME StillRunning PROVE Entries'
  BY <1>19, <1>22 DEF StillRunning, Goto, lists, objects, mapping,
      dispatcher, calls, ghosts
<1>23. ASSUME LeaveLoop PROVE Entries'
  BY <1>19, <1>23 DEF LeaveLoop, Goto, lists, objects, mapping, dispatcher,
      calls, ghosts
<1>24. ASSUME DispatchCanceled PROVE Entries'
  BY <1>19, <1>24 DEF DispatchCanceled, Goto, lists, objects, mapping,
      dispatcher, calls, ghosts
<1>25. ASSUME Dispatch PROVE Entries'
  BY <1>19, <1>25 DEF Dispatch, Goto, lists, objects, mapping, dispatcher,
      calls, ghosts
<1>26. ASSUME Expire PROVE Entries'
  BY <1>19, <1>26 DEF Expire, Goto, lists, objects, mapping, dispatcher,
      calls, ghosts
<1>27. ASSUME StartWait PROVE Entries'
  BY <1>19, <1>27 DEF StartWait, Goto, lists, objects, mapping, dispatcher,
      calls, ghosts
<1>28. ASSUME WokenBySem PROVE Entries'
  BY <1>19, <1>28 DEF WokenBySem, Goto, lists, objects, mapping, dispatcher,
      calls, ghosts
<1>29. ASSUME WokenByTime PROVE Entries'
  BY <1>19, <1>29 DEF WokenByTime, Goto, lists, objects, mapping, dispatcher,
      calls, ghosts
<1>30. ASSUME NEW interval \in Intervals, Reschedule(interval) PROVE Entries'
  BY <1>19, <1>30 DEF Reschedule, Goto, lists, objects, mapping, dispatcher,
      calls, ghosts
<1>31. ASSUME Tick PROVE Entries'
  BY <1>19, <1>31 DEF Tick, Goto, lists, objects, mapping, dispatcher, calls,
      ghosts
<1>32. ASSUME StartCallback PROVE Entries'
  BY <1>19, <1>32 DEF StartCallback, lists, objects, mapping,
      dispatcher, calls, ghosts
<1> QED
  BY <1>1, <1>2, <1>3, <1>4, <1>5, <1>6, <1>7, <1>8, <1>9, <1>10, <1>11,
      <1>12, <1>13, <1>14, <1>15, <1>16, <1>17, <1>18, <1>19, <1>20, <1>21,
      <1>22, <1>23, <1>24, <1>25, <1>26, <1>27, <1>28, <1>29, <1>30, <1>31, <1>32
      DEF Next, ThreadStep, InCall

\* The timer thread and the quitting thread keep each other out.
LEMMA PhasesStep == ASSUME Inv, [Next]_vars PROVE Phases'
<1>1. ASSUME Maintain PROVE Phases'
  BY <1>1 DEF Inv, TypeOK, Phases, Quitting, Actors, Maintain, Goto, lists,
      objects, mapping, dispatcher, calls, ghosts
<1>2. ASSUME Sort PROVE Phases'
  BY <1>2 DEF Inv, TypeOK, Phases, Quitting, Actors, Sort, Goto, lists,
      objects, mapping, dispatcher, calls, ghosts
<1>3. ASSUME StillRunning PROVE Phases'
  BY <1>3 DEF Inv, TypeOK, Phases, Quitting, Actors, StillRunning, Goto,
      lists, objects, mapping, dispatcher, calls, ghosts
<1>4. ASSUME LeaveLoop PROVE Phases'
  BY <1>4 DEF Inv, TypeOK, Phases, Quitting, Actors, LeaveLoop, Goto, lists,
      objects, mapping, dispatcher, calls, ghosts
<1>5. ASSUME DispatchCanceled PROVE Phases'
  BY <1>5 DEF Inv, TypeOK, Phases, Quitting, Actors, DispatchCanceled, Goto,
      lists, objects, mapping, dispatcher, calls, ghosts
<1>6. ASSUME Dispatch PROVE Phases'
  BY <1>6 DEF Inv, TypeOK, Phases, Quitting, Actors, Dispatch, Goto, lists,
      objects, mapping, dispatcher, calls, ghosts
<1>7. ASSUME Expire PROVE Phases'
  BY <1>7 DEF Inv, TypeOK, Phases, Quitting, Actors, Expire, Goto, lists,
      objects, mapping, dispatcher, calls, ghosts
<1>8. ASSUME StartWait PROVE Phases'
  BY <1>8 DEF Inv, TypeOK, Phases, Quitting, Actors, StartWait, Goto, lists,
      objects, mapping, dispatcher, calls, ghosts
<1>9. ASSUME WokenBySem PROVE Phases'
  BY <1>9 DEF Inv, TypeOK, Phases, Quitting, Actors, WokenBySem, Goto, lists,
      objects, mapping, dispatcher, calls, ghosts
<1>10. ASSUME WokenByTime PROVE Phases'
  BY <1>10 DEF Inv, TypeOK, Phases, Quitting, Actors, WokenByTime, Goto,
      lists, objects, mapping, dispatcher, calls, ghosts
<1>11. ASSUME NEW interval \in Intervals, Reschedule(interval) PROVE Phases'
  BY <1>11 DEF Inv, TypeOK, Phases, Quitting, Actors, Reschedule, Goto,
      lists, objects, mapping, dispatcher, calls, ghosts
<1>12. ASSUME Tick PROVE Phases'
  BY <1>12 DEF Inv, TypeOK, Phases, Quitting, Actors, Tick, Goto, lists,
      objects, mapping, dispatcher, calls, ghosts
<1>13. ASSUME SpinInInit PROVE Phases'
  BY <1>13, TimersAssumption DEF Inv, TypeOK, Phases, Quitting, Actors,
      SpinInInit, Goto, lists, objects, mapping, dispatcher, calls, ghosts
<1>14. ASSUME NEW c \in Actors, Recycle(c) PROVE Phases'
  BY <1>14 DEF Inv, TypeOK, Phases, Quitting, Actors, Recycle, Goto, lists,
      objects, mapping, dispatcher, calls, ghosts
<1>15. ASSUME NEW c \in Actors, NEW interval \in Intervals, Setup(c,
    interval) PROVE Phases'
  BY <1>15 DEF Inv, TypeOK, Phases, Quitting, Actors, Setup, Goto, lists,
      objects, mapping, dispatcher, calls, ghosts
<1>16. ASSUME NEW c \in Actors, SetupFails(c) PROVE Phases'
  BY <1>16 DEF Inv, TypeOK, Phases, Quitting, Actors, SetupFails, Goto,
      lists, objects, mapping, dispatcher, calls, ghosts
<1>17. ASSUME NEW c \in Actors, Map(c) PROVE Phases'
  BY <1>17 DEF Inv, TypeOK, Phases, Quitting, Actors, Map, Goto, lists,
      objects, mapping, dispatcher, calls, ghosts
<1>18. ASSUME NEW c \in Actors, Push(c) PROVE Phases'
  BY <1>18 DEF Inv, TypeOK, Phases, Quitting, Actors, Push, Goto, lists,
      objects, mapping, dispatcher, calls, ghosts
<1>19. ASSUME NEW c \in Actors, WakeThread(c) PROVE Phases'
  BY <1>19 DEF Inv, TypeOK, Phases, Quitting, Actors, WakeThread, Goto,
      lists, objects, mapping, dispatcher, calls, ghosts
<1>20. ASSUME NEW c \in Actors, ReturnId(c) PROVE Phases'
  BY <1>20 DEF Inv, TypeOK, Phases, Quitting, Actors, ReturnId, Goto, lists,
      objects, mapping, dispatcher, calls, ghosts
<1>21. ASSUME NEW c \in Actors, LookCanceled(c) PROVE Phases'
  BY <1>21 DEF Inv, TypeOK, Phases, Quitting, Actors, LookCanceled,
      FreeEntry, Goto, lists, objects, mapping, dispatcher, calls, ghosts
<1>22. ASSUME NEW c \in Actors, LookRunning(c) PROVE Phases'
  BY <1>22 DEF Inv, TypeOK, Phases, Quitting, Actors, LookRunning, Goto,
      lists, objects, mapping, dispatcher, calls, ghosts
<1>23. ASSUME NEW c \in Actors, Cancel(c) PROVE Phases'
  BY <1>23 DEF Inv, TypeOK, Phases, Quitting, Actors, Cancel, FreeEntry,
      Goto, lists, objects, mapping, dispatcher, calls, ghosts
<1>24. ASSUME NEW c \in Actors, QuitWakes(c) PROVE Phases'
  BY <1>24 DEF Inv, TypeOK, Phases, Quitting, Actors, QuitWakes, Goto, lists,
      objects, mapping, dispatcher, calls, ghosts
<1>25. ASSUME NEW c \in Actors, QuitFrees(c) PROVE Phases'
  <2>1. /\ c \in Callers /\ ~active /\ thread = "exited" /\ pc[c] = "join"
        /\ pc[TimerThread] = "out"
    BY <1>25 DEF Inv, Phases, Quitting, QuitFrees
  <2>2. \A d \in Actors : ~HasEntry(d)
    BY <2>1 DEF Inv, Phases, Quitting, HasEntry, Actors
  <2>3. entries' = {} /\ timers' = <<>> /\ freelist' = <<>>
    BY <1>25, <2>2 DEF Inv, Entries, QuitFrees
  <2>4. \A d \in Actors : pc'[d] = IF d = c THEN "done" ELSE pc[d]
    BY <1>25 DEF Inv, TypeOK, QuitFrees, Goto
  <2>5. /\ thread' = thread /\ active' = active /\ sorting' = sorting
        /\ expired' = expired
    BY <1>25 DEF QuitFrees, dispatcher
  <2> QED  BY <2>1, <2>3, <2>4, <2>5, TimersAssumption DEF Inv, Phases,
      Quitting, Actors
<1>26. ASSUME NEW c \in Actors, NEW b \in Blocks, AllocateTimer(c, b) PROVE
    Phases'
  BY <1>26 DEF Inv, TypeOK, Phases, Quitting, Actors, AllocateTimer, MayCall,
      Goto, lists, objects, mapping, dispatcher, calls, ghosts
<1>27. ASSUME NEW c \in Actors, TakeFree(c) PROVE Phases'
  BY <1>27 DEF Inv, TypeOK, Phases, Quitting, Actors, TakeFree, MayCall,
      Goto, lists, objects, mapping, dispatcher, calls, ghosts
<1>28. ASSUME NEW c \in Actors, NEW i \in Ids, Unlink(c, i) PROVE Phases'
  BY <1>28 DEF Inv, TypeOK, Phases, Quitting, Actors, Unlink, MayCall, Goto,
      lists, objects, mapping, dispatcher, calls, ghosts
<1>29. ASSUME NEW c \in Actors, Quit(c) PROVE Phases'
  BY <1>29 DEF Inv, TypeOK, Phases, Quitting, Actors, Quit, MayCall, Goto,
      lists, objects, mapping, dispatcher, calls, ghosts
<1>30. ASSUME UNCHANGED vars PROVE Phases'
  BY <1>30 DEF Inv, TypeOK, Phases, Quitting, Actors, vars, Goto, lists,
      objects, mapping, dispatcher, calls, ghosts
<1>31. ASSUME StartCallback PROVE Phases'
  BY <1>31 DEF Inv, TypeOK, Phases, Quitting, Actors, StartCallback, lists, objects, mapping,
      dispatcher, calls, ghosts
<1> QED
  BY <1>1, <1>2, <1>3, <1>4, <1>5, <1>6, <1>7, <1>8, <1>9, <1>10, <1>11,
      <1>12, <1>13, <1>14, <1>15, <1>16, <1>17, <1>18, <1>19, <1>20, <1>21,
      <1>22, <1>23, <1>24, <1>25, <1>26, <1>27, <1>28, <1>29, <1>30, <1>31 DEF Next,
      ThreadStep, InCall

\* A timer has the id its block was set up with.
LEMMA NamesStep == ASSUME Inv, [Next]_vars PROVE Names'
<1>1. ASSUME Maintain PROVE Names'
  <2>1. Range(pending') \cup Range(sorting') \cup Range(timers')
        \subseteq Range(pending) \cup Range(sorting) \cup Range(timers)
    BY <1>1, MaintainMoves DEF Maintain, lists
  <2>2. ASSUME NEW b \in Blocks, Running(b)' PROVE Running(b)
    BY <1>1, <2>1, <2>2 DEF Inv, TypeOK, Running, Goto, Maintain, dispatcher,
        calls
  <2>3. /\ id' = id /\ owner' = owner /\ nextId' = nextId /\ removed' = removed
        /\ \A b \in Blocks : canceled[b] => canceled'[b]
    BY <1>1 DEF Inv, TypeOK, Maintain, objects, mapping, ghosts
  <2> QED  BY <2>2, <2>3 DEF Inv, TypeOK, Names
<1>2. ASSUME Sort PROVE Names'
  <2>1. Range(pending') \cup Range(sorting') \cup Range(timers')
        \subseteq Range(pending) \cup Range(sorting) \cup Range(timers)
    BY <1>2, SortMoves DEF Sort, lists
  <2>2. ASSUME NEW b \in Blocks, Running(b)' PROVE Running(b)
    BY <1>2, <2>1, <2>2 DEF Inv, TypeOK, Running, Goto, Sort, dispatcher,
        calls
  <2>3. /\ id' = id /\ owner' = owner /\ nextId' = nextId /\ removed' = removed
        /\ \A b \in Blocks : canceled[b] => canceled'[b]
    BY <1>2 DEF Inv, TypeOK, Sort, objects, mapping, ghosts
  <2> QED  BY <2>2, <2>3 DEF Inv, TypeOK, Names
<1>3. ASSUME StillRunning PROVE Names'
  BY <1>3 DEF Inv, TypeOK, Names, Running, StillRunning, Goto, lists,
      objects, mapping, dispatcher, calls, ghosts
<1>4. ASSUME LeaveLoop PROVE Names'
  BY <1>4 DEF Inv, TypeOK, Names, Running, LeaveLoop, Goto, lists, objects,
      mapping, dispatcher, calls, ghosts
<1>5. ASSUME DispatchCanceled PROVE Names'
  <2>1. Range(pending') \cup Range(sorting') \cup Range(timers')
        \subseteq Range(pending) \cup Range(sorting) \cup Range(timers)
    BY <1>5, DispatchCanceledMoves DEF FirstDue, DispatchCanceled, lists
  <2>2. ASSUME NEW b \in Blocks, Running(b)' PROVE Running(b)
    BY <1>5, <2>1, <2>2 DEF Inv, TypeOK, FirstDue, Running, Goto,
        DispatchCanceled, dispatcher, calls
  <2>3. /\ id' = id /\ owner' = owner /\ nextId' = nextId /\ removed' = removed
        /\ \A b \in Blocks : canceled[b] => canceled'[b]
    BY <1>5 DEF Inv, TypeOK, DispatchCanceled, Retire, objects, mapping,
        ghosts
  <2> QED  BY <2>2, <2>3 DEF Inv, TypeOK, Names
<1>6. ASSUME Dispatch PROVE Names'
  <2>1. Range(pending') \cup Range(sorting') \cup Range(timers')
        \subseteq Range(pending) \cup Range(sorting) \cup Range(timers)
    BY <1>6, FirstMoves DEF FirstDue, Dispatch, lists
  <2>2. ASSUME NEW b \in Blocks, Running(b)' PROVE Running(b)
    BY <1>6, <2>1, <2>2, FirstMoves DEF Inv, TypeOK, FirstDue, Running, Goto,
        Dispatch, dispatcher, calls
  <2>3. /\ id' = id /\ owner' = owner /\ nextId' = nextId /\ removed' = removed
        /\ \A b \in Blocks : canceled[b] => canceled'[b]
    BY <1>6 DEF Inv, TypeOK, Dispatch, objects, mapping, ghosts
  <2> QED  BY <2>2, <2>3 DEF Inv, TypeOK, Names
<1>7. ASSUME Expire PROVE Names'
  <2>1. /\ Range(pending') \cup Range(sorting') \cup Range(timers')
           \subseteq Range(pending) \cup Range(sorting) \cup Range(timers)
        /\ NoBlock \notin Blocks
    BY <1>7, ExpireMoves, TimersAssumption DEF Expire, lists
  <2>2. ASSUME NEW b \in Blocks, Running(b)' PROVE Running(b)
    BY <1>7, <2>1, <2>2 DEF Inv, TypeOK, Running, Goto, Expire, dispatcher,
        calls
  <2>3. /\ id' = id /\ owner' = owner /\ nextId' = nextId /\ removed' = removed
        /\ \A b \in Blocks : canceled[b] => canceled'[b]
    BY <1>7 DEF Inv, TypeOK, Expire, Retire, objects, mapping, ghosts
  <2> QED  BY <2>2, <2>3 DEF Inv, TypeOK, Names
<1>8. ASSUME StartWait PROVE Names'
  BY <1>8 DEF Inv, TypeOK, Names, Running, StartWait, Goto, lists, objects,
      mapping, dispatcher, calls, ghosts
<1>9. ASSUME WokenBySem PROVE Names'
  BY <1>9 DEF Inv, TypeOK, Names, Running, WokenBySem, Goto, lists, objects,
      mapping, dispatcher, calls, ghosts
<1>10. ASSUME WokenByTime PROVE Names'
  BY <1>10 DEF Inv, TypeOK, Names, Running, WokenByTime, Goto, lists,
      objects, mapping, dispatcher, calls, ghosts
<1>11. ASSUME NEW interval \in Intervals, Reschedule(interval) PROVE Names'
  <2>1. /\ Range(pending') \cup Range(sorting') \cup Range(timers')
           \subseteq Range(pending) \cup Range(sorting) \cup Range(timers) \cup {current}
        /\ NoBlock \notin Blocks
    BY <1>11, RescheduleMoves, TimersAssumption DEF Reschedule, lists
  <2>2. ASSUME NEW b \in Blocks, Running(b)' PROVE Running(b)
    BY <1>11, <2>1, <2>2 DEF Inv, TypeOK, Running, Goto, Reschedule,
        dispatcher, calls
  <2>3. /\ id' = id /\ owner' = owner /\ nextId' = nextId /\ removed' = removed
        /\ \A b \in Blocks : canceled[b] => canceled'[b]
    BY <1>11 DEF Inv, TypeOK, Reschedule, objects, mapping, ghosts
  <2> QED  BY <2>2, <2>3 DEF Inv, TypeOK, Names
<1>12. ASSUME Tick PROVE Names'
  BY <1>12 DEF Inv, TypeOK, Names, Running, Tick, Goto, lists, objects,
      mapping, dispatcher, calls, ghosts
<1>13. ASSUME SpinInInit PROVE Names'
  BY <1>13 DEF Inv, TypeOK, Names, Running, SpinInInit, Goto, lists, objects,
      mapping, dispatcher, calls, ghosts
<1>14. ASSUME NEW c \in Actors, Recycle(c) PROVE Names'
  BY <1>14 DEF Inv, TypeOK, Names, Running, Recycle, Goto, lists, objects,
      mapping, dispatcher, calls, ghosts
<1>15. ASSUME NEW c \in Actors, NEW interval \in Intervals, Setup(c,
    interval) PROVE Names'
  <2>1. block[c] \in Blocks /\ pc[c] = "setup"
    BY <1>15 DEF Inv, TypeOK, Hands, Setup
  <2>2. /\ \A b \in Blocks : id'[b] = IF b = block[c] THEN nextId ELSE id[b]
        /\ \A b \in Blocks : b # block[c] => canceled'[b] = canceled[b]
        /\ nextId' = nextId + 1 /\ removed' = removed
    BY <1>15, <2>1 DEF Inv, TypeOK, Setup, ghosts
  <2>3. \A i \in Ids : owner'[i] = IF i = nextId THEN block[c] ELSE owner[i]
    BY <1>15 DEF Inv, TypeOK, Setup
  <2>4. /\ nextId \in Ids /\ nextId # 0 /\ nextId < nextId + 1 /\ nextId \notin removed
        /\ 1..(nextId - 1) \subseteq 1..((nextId + 1) - 1)
    BY <1>15, TimersAssumption DEF Inv, TypeOK, Names, Setup, Ids
  <2>5. ASSUME NEW b \in Blocks, b # block[c], Running(b)' PROVE Running(b)
    BY <1>15, <2>1, <2>5 DEF Inv, TypeOK, Running, Setup, Goto, lists, dispatcher
  <2>6. ASSUME NEW b \in Blocks, Running(b)' PROVE id'[b] # 0
    BY <2>2, <2>4, <2>5, <2>6 DEF Inv, Names
  <2>7. ASSUME NEW b \in Blocks, id'[b] # 0
        PROVE  id'[b] < nextId' /\ owner'[id'[b]] = b
    <3>1. CASE b = block[c]
      BY <2>2, <2>3, <2>4, <3>1
    <3>2. CASE b # block[c]
      <4>1. id'[b] = id[b] /\ id[b] < nextId /\ owner[id[b]] = b /\ id[b] \in 0..MaxId
        BY <2>2, <2>7, <3>2 DEF Inv, TypeOK, Names
      <4>2. id[b] \in Ids /\ id[b] # nextId /\ id[b] < nextId + 1
        BY <2>4, <2>7, <4>1, TimersAssumption DEF Ids
      <4> QED  BY <2>2, <2>3, <4>1, <4>2
    <3> QED  BY <3>1, <3>2
  <2>8. ASSUME NEW b \in Blocks, id'[b] \in removed PROVE canceled'[b]
    BY <2>2, <2>4, <2>8 DEF Inv, Names
  <2>9. removed' \subseteq 1..(nextId' - 1)
    BY <2>2, <2>4 DEF Inv, Names
  <2> QED  BY <2>2, <2>6, <2>7, <2>8, <2>9 DEF Names
<1>16. ASSUME NEW c \in Actors, SetupFails(c) PROVE Names'
  BY <1>16 DEF Inv, TypeOK, Names, Running, SetupFails, Goto, lists, objects,
      mapping, dispatcher, calls, ghosts
<1>17. ASSUME NEW c \in Actors, Map(c) PROVE Names'
  BY <1>17 DEF Inv, TypeOK, Names, Running, Map, Goto, lists, objects,
      mapping, dispatcher, calls, ghosts
<1>18. ASSUME NEW c \in Actors, Push(c) PROVE Names'
  <2>1. /\ Range(pending') \cup Range(sorting') \cup Range(timers')
           \subseteq Range(pending) \cup Range(sorting) \cup Range(timers) \cup {block[c]}
        /\ block[c] \in Blocks /\ NoBlock \notin Blocks
    BY <1>18, PushMoves, TimersAssumption DEF Push, lists
  <2>2. ASSUME NEW b \in Blocks, Running(b)' PROVE Running(b)
    BY <1>18, <2>1, <2>2 DEF Inv, TypeOK, Hands, Running, Goto, Push,
        dispatcher, calls
  <2>3. /\ id' = id /\ owner' = owner /\ nextId' = nextId /\ removed' = removed
        /\ \A b \in Blocks : canceled[b] => canceled'[b]
    BY <1>18 DEF Inv, TypeOK, Push, objects, mapping, ghosts
  <2> QED  BY <2>2, <2>3 DEF Inv, TypeOK, Names
<1>19. ASSUME NEW c \in Actors, WakeThread(c) PROVE Names'
  BY <1>19 DEF Inv, TypeOK, Names, Running, WakeThread, Goto, lists, objects,
      mapping, dispatcher, calls, ghosts
<1>20. ASSUME NEW c \in Actors, ReturnId(c) PROVE Names'
  BY <1>20 DEF Inv, TypeOK, Names, Running, ReturnId, Goto, lists, objects,
      mapping, dispatcher, calls, ghosts
<1>21. ASSUME NEW c \in Actors, LookCanceled(c) PROVE Names'
  BY <1>21 DEF Inv, TypeOK, Names, Running, LookCanceled, FreeEntry, Goto,
      lists, objects, mapping, dispatcher, calls, ghosts
<1>22. ASSUME NEW c \in Actors, LookRunning(c) PROVE Names'
  BY <1>22 DEF Inv, TypeOK, Names, Running, LookRunning, Goto, lists,
      objects, mapping, dispatcher, calls, ghosts
<1>23. ASSUME NEW c \in Actors, Cancel(c) PROVE Names'
  <2>1. arg[c] \in 1..(nextId - 1) /\ arg[c] # 0
    BY <1>23 DEF Inv, TypeOK, Entries, Cancel
  <2>2. /\ id' = id /\ owner' = owner /\ nextId' = nextId
        /\ removed' = removed \cup {arg[c]}
        /\ canceled' = [canceled EXCEPT ![owner[arg[c]]] = TRUE]
    BY <1>23 DEF Cancel
  <2>3. ASSUME NEW b \in Blocks, Running(b)' PROVE Running(b)
    BY <1>23, <2>3 DEF Inv, TypeOK, Running, Cancel, FreeEntry, Goto, lists,
        dispatcher
  <2>4. ASSUME NEW b \in Blocks, id[b] \in removed' PROVE canceled'[b]
    BY <2>1, <2>2, <2>4 DEF Inv, TypeOK, Names
  <2> QED  BY <2>1, <2>2, <2>3, <2>4 DEF Inv, Names
<1>24. ASSUME NEW c \in Actors, QuitWakes(c) PROVE Names'
  BY <1>24 DEF Inv, TypeOK, Names, Running, QuitWakes, Goto, lists, objects,
      mapping, dispatcher, calls, ghosts
<1>25. ASSUME NEW c \in Actors, QuitFrees(c) PROVE Names'
  <2>1. Range(pending') \cup Range(sorting') \cup Range(timers')
        \subseteq Range(pending) \cup Range(sorting) \cup Range(timers)
    BY <1>25, EmptyList DEF QuitFrees, lists
  <2>2. ASSUME NEW b \in Blocks, Running(b)' PROVE Running(b)
    BY <1>25, <2>1, <2>2 DEF Inv, TypeOK, Running, Goto, QuitFrees,
        dispatcher, calls
  <2>3. /\ id' = id /\ owner' = owner /\ nextId' = nextId /\ removed' = removed
        /\ \A b \in Blocks : canceled[b] => canceled'[b]
    BY <1>25 DEF Inv, TypeOK, QuitFrees, objects, mapping, ghosts
  <2> QED  BY <2>2, <2>3 DEF Inv, TypeOK, Names
<1>26. ASSUME NEW c \in Actors, NEW b \in Blocks, AllocateTimer(c, b) PROVE
    Names'
  BY <1>26 DEF Inv, TypeOK, Names, Running, AllocateTimer, MayCall, Goto,
      lists, objects, mapping, dispatcher, calls, ghosts
<1>27. ASSUME NEW c \in Actors, TakeFree(c) PROVE Names'
  BY <1>27 DEF Inv, TypeOK, Names, Running, TakeFree, MayCall, Goto, lists,
      objects, mapping, dispatcher, calls, ghosts
<1>28. ASSUME NEW c \in Actors, NEW i \in Ids, Unlink(c, i) PROVE Names'
  BY <1>28 DEF Inv, TypeOK, Names, Running, Unlink, MayCall, Goto, lists,
      objects, mapping, dispatcher, calls, ghosts
<1>29. ASSUME NEW c \in Actors, Quit(c) PROVE Names'
  BY <1>29 DEF Inv, TypeOK, Names, Running, Quit, MayCall, Goto, lists,
      objects, mapping, dispatcher, calls, ghosts
<1>30. ASSUME UNCHANGED vars PROVE Names'
  BY <1>30 DEF Inv, TypeOK, Names, Running, vars, Goto, lists, objects,
      mapping, dispatcher, calls, ghosts
<1>31. ASSUME StartCallback PROVE Names'
  BY <1>31 DEF Inv, TypeOK, Names, Running, StartCallback, lists, objects, mapping,
      dispatcher, calls, ghosts
<1> QED
  BY <1>1, <1>2, <1>3, <1>4, <1>5, <1>6, <1>7, <1>8, <1>9, <1>10, <1>11,
      <1>12, <1>13, <1>14, <1>15, <1>16, <1>17, <1>18, <1>19, <1>20, <1>21,
      <1>22, <1>23, <1>24, <1>25, <1>26, <1>27, <1>28, <1>29, <1>30, <1>31 DEF Next,
      ThreadStep, InCall

-----------------------------------------------------------------------------
(* The theorems                                                            *)

\* Nothing has been created.
LEMMA InvInit == Init => Inv
<1> SUFFICES ASSUME Init PROVE Inv
  OBVIOUS
<1>1. Listed = {}
  BY EmptyList DEF Init, Listed
<1>2. TypeOK
  <2>1. {pending, sorting, timers, expired, freelist} \subseteq Seq(Blocks)
    BY EmptySeq DEF Init
  <2>2. 0 \in 0..MaxId /\ 0 \in 0..MaxTime /\ 1 \in 1..(MaxId + 1) /\ 0 \in Nat
    BY TimersAssumption
  <2>3. id \in [Blocks -> 0..MaxId] /\ due \in [Blocks -> 0..MaxTime]
    BY <2>2 DEF Init
  <2>4. canceled \in [Blocks -> BOOLEAN]
    BY DEF Init
  <2> QED  BY <2>1, <2>2, <2>3, <2>4 DEF Init, TypeOK
<1>3. Lists
  BY EmptyList DEF Init, Lists
<1>4. Hands
  BY <1>1 DEF Init, Hands, Held
<1>5. Order
  BY EmptyList DEF Init, Order, Sorted, NeverEarly
<1>6. Entries
  BY DEF Init, Entries, HasEntry
<1>7. Names
  <2>1. Range(pending) = {} /\ Range(sorting) = {} /\ Range(timers) = {}
    BY EmptyList DEF Init
  <2>2. \A b \in Blocks : ~Running(b)
    BY <2>1, TimersAssumption DEF Init, Running
  <2> QED  BY <2>2 DEF Init, Names
<1>8. Phases
  BY DEF Init, Phases, Quitting, Actors
<1> QED  BY <1>2, <1>3, <1>4, <1>5, <1>6, <1>7, <1>8 DEF Inv

\* Every step keeps all the parts.
LEMMA InvStep == Inv /\ [Next]_vars => Inv'
<1> SUFFICES ASSUME Inv, [Next]_vars PROVE Inv'
  OBVIOUS
<1>1. TypeOK' /\ Lists' /\ Hands'
  BY TypeStep, ListsStep, HandsStep
<1>2. Order' /\ Entries' /\ Names' /\ Phases'
  BY OrderStep, EntriesStep, NamesStep, PhasesStep
<1> QED  BY <1>1, <1>2 DEF Inv

\* The inductive invariant holds in every state.
THEOREM InvHolds == Spec => []Inv
BY InvInit, InvStep, PTL DEF Spec

\* The variables of SDL_timer.c stay within their types.
THEOREM TypeCorrect == Spec => []TypeOK
<1>1. Inv => TypeOK
  BY DEF Inv
<1> QED  BY <1>1, InvHolds, PTL

\* A timer block is on one list, once, or in one pair of hands: SDL_TimerThread,
\* SDL_CreateTimer and SDL_QuitTimers never hold the same block, and none in
\* use has been freed.
THEOREM PlacesUnique == Spec => []OnePlace
<1>1. Inv => OnePlace
  <2> SUFFICES ASSUME Inv PROVE OnePlace
    OBVIOUS
  <2>1. /\ pending \in Seq(Blocks) /\ sorting \in Seq(Blocks)
        /\ timers \in Seq(Blocks) /\ expired \in Seq(Blocks)
        /\ freelist \in Seq(Blocks)
    BY ListFacts DEF Inv
  <2> DEFINE a == pending \o sorting  b == a \o timers  c == b \o expired
             d == c \o freelist
  <2>2. /\ a \in Seq(Blocks) /\ IsInjective(a)
        /\ Range(a) = Range(pending) \cup Range(sorting)
    BY <2>1, ListJoin DEF Inv, Lists
  <2> HIDE DEF a
  <2>3. /\ b \in Seq(Blocks) /\ IsInjective(b)
        /\ Range(b) = Range(a) \cup Range(timers)
    <3>1. Range(a) \cap Range(timers) = {} /\ IsInjective(timers)
      BY <2>2 DEF Inv, Lists
    <3> QED  BY <2>1, <2>2, <3>1, ListJoin
  <2> HIDE DEF b
  <2>4. /\ c \in Seq(Blocks) /\ IsInjective(c)
        /\ Range(c) = Range(b) \cup Range(expired)
    <3>1. Range(b) \cap Range(expired) = {} /\ IsInjective(expired)
      BY <2>2, <2>3 DEF Inv, Lists
    <3> QED  BY <2>1, <2>3, <3>1, ListJoin
  <2> HIDE DEF c
  <2>5. /\ d \in Seq(Blocks) /\ IsInjective(d)
        /\ Range(d) = Range(c) \cup Range(freelist)
    <3>1. Range(c) \cap Range(freelist) = {} /\ IsInjective(freelist)
      BY <2>2, <2>3, <2>4 DEF Inv, Lists
    <3> QED  BY <2>1, <2>4, <3>1, ListJoin
  <2>6. d = pending \o sorting \o timers \o expired \o freelist
    BY DEF a, b, c
  <2> HIDE DEF d
  <2>7. IsInjective(d) /\ Range(d) = Listed
    BY <2>2, <2>3, <2>4, <2>5 DEF Listed
  <2>8. Listed \cap Held = {}
    BY DEF Inv, Hands, Held
  <2> QED  BY <2>6, <2>7, <2>8 DEF Inv, Hands, OnePlace
<1> QED  BY <1>1, InvHolds, PTL

\* The list of timers is sorted, which the loop of SDL_TimerThread relies on,
\* and no callback runs before its timer is due.
THEOREM DueOrder == Spec => []InDueOrder
<1>1. Inv => InDueOrder
  BY DEF Inv, Order, InDueOrder
<1> QED  BY <1>1, InvHolds, PTL

\* What the timer thread is about to call has not been called since it was
\* removed, if it was.
NotLateYet ==
    /\ late \subseteq removed
    /\ thread = "call" => id[current] \notin late

\* What the timer thread picks has not been removed, and it picks only so.
LEMMA PickedIsNotRemoved ==
    ASSUME Inv, Next, thread # "call", thread' = "call"
    PROVE  Dispatch /\ id[current'] \notin removed
<1>1. CASE Dispatch
  <2>1. Head(timers) \in Blocks /\ current' = Head(timers) /\ ~canceled[Head(timers)]
    BY <1>1, FirstMoves DEF Dispatch, FirstDue
  <2> QED  BY <1>1, <2>1 DEF Inv, Names
<1>2. CASE Maintain \/ Sort \/ StillRunning \/ LeaveLoop \/ DispatchCanceled
  BY <1>2 DEF Maintain, Sort, StillRunning, LeaveLoop, DispatchCanceled, dispatcher
<1>3. CASE StartCallback \/ Expire \/ StartWait \/ WokenBySem \/ WokenByTime
  BY <1>3 DEF StartCallback, Expire, StartWait, WokenBySem, WokenByTime
<1>4. CASE Tick \/ SpinInInit \/ \E interval \in Intervals : Reschedule(interval)
  BY <1>4 DEF Tick, SpinInInit, Reschedule, dispatcher
<1>5. ASSUME NEW c \in Actors, InCall(c) PROVE thread' = thread
  BY <1>5 DEF InCall, Recycle, Setup, Map, Push, WakeThread, ReturnId,
              LookCanceled, LookRunning, Cancel, QuitWakes, QuitFrees, dispatcher
<1>6. ASSUME NEW c \in Actors,
             \/ \E b \in Blocks : AllocateTimer(c, b)
             \/ TakeFree(c)
             \/ SetupFails(c)
             \/ \E i \in Ids : Unlink(c, i)
             \/ Quit(c)
      PROVE  thread' = thread
  BY <1>6 DEF AllocateTimer, TakeFree, SetupFails, Unlink, Quit, dispatcher
<1> QED  BY <1>1, <1>2, <1>3, <1>4, <1>5, <1>6 DEF Next, ThreadStep

\* Only the start of a callback adds to late, nothing is taken from removed,
\* and what is about to be called keeps its id.
LEMMA OnItsWay ==
    ASSUME Inv, [Next]_vars
    PROVE  /\ removed \subseteq removed'
           /\ StartCallback \/ late' = late
           /\ thread = "call" /\ thread' = "call" =>
                 id'[current'] = id[current]
<1>1. CASE StartCallback
  BY <1>1 DEF StartCallback
<1>2. CASE Maintain \/ Sort \/ StillRunning \/ LeaveLoop \/ DispatchCanceled
  BY <1>2 DEF Maintain, Sort, StillRunning, LeaveLoop, DispatchCanceled, ghosts
<1>3. CASE Dispatch \/ Expire \/ StartWait \/ WokenBySem \/ WokenByTime
  BY <1>3 DEF Dispatch, Expire, StartWait, WokenBySem, WokenByTime, ghosts
<1>4. CASE Tick \/ SpinInInit \/ \E interval \in Intervals : Reschedule(interval)
  BY <1>4 DEF Tick, SpinInInit, Reschedule, dispatcher, objects, ghosts
<1>5. ASSUME NEW c \in Actors, NEW interval \in Intervals, Setup(c, interval)
      PROVE  /\ removed' = removed /\ late' = late
             /\ thread = "call" => id'[current'] = id[current]
  <2>1. block[c] # NoBlock /\ block[c] # current
    BY <1>5 DEF Inv, Hands, Setup
  <2> QED  BY <1>5, <2>1, CurrentIs DEF Inv, TypeOK, Setup, dispatcher, ghosts
<1>6. ASSUME NEW c \in Actors,
             \/ Recycle(c) \/ Map(c) \/ Push(c) \/ WakeThread(c) \/ ReturnId(c)
             \/ LookCanceled(c) \/ LookRunning(c) \/ Cancel(c)
             \/ QuitWakes(c) \/ QuitFrees(c)
      PROVE  /\ removed \subseteq removed' /\ late' = late
             /\ id' = id /\ current' = current
  BY <1>6 DEF Recycle, Map, Push, WakeThread, ReturnId, LookCanceled,
      LookRunning, Cancel, QuitWakes, QuitFrees, dispatcher, objects, ghosts
<1>7. ASSUME NEW c \in Actors,
             \/ \E b \in Blocks : AllocateTimer(c, b)
             \/ TakeFree(c)
             \/ SetupFails(c)
             \/ \E i \in Ids : Unlink(c, i)
             \/ Quit(c)
      PROVE  /\ removed' = removed /\ late' = late
             /\ id' = id /\ current' = current
  BY <1>7 DEF AllocateTimer, TakeFree, SetupFails, Unlink, Quit, dispatcher,
      objects, ghosts
<1>8. CASE UNCHANGED vars
  BY <1>8 DEF vars, dispatcher, objects, ghosts
<1> QED
  BY <1>1, <1>2, <1>3, <1>4, <1>5, <1>6, <1>7, <1>8 DEF Next, ThreadStep, InCall

\* Every step keeps it.
LEMMA NotLateYetStep ==
    ASSUME Inv, NotLateYet, [Next]_vars
    PROVE  NotLateYet'
<1>1. late' \subseteq removed'
  BY OnItsWay DEF NotLateYet, StartCallback
<1>2. ASSUME thread' = "call" PROVE id'[current'] \notin late'
  <2>1. CASE thread = "call"
    <3>1. ~StartCallback
      BY <1>2 DEF StartCallback
    <3> QED  BY <1>2, <2>1, <3>1, OnItsWay DEF NotLateYet
  <2>2. CASE thread # "call"
    <3>1. Next
      BY <1>2, <2>2 DEF vars, dispatcher
    <3>2. Dispatch /\ id[current'] \notin removed
      BY <1>2, <2>2, <3>1, PickedIsNotRemoved
    <3> QED  BY <3>2 DEF NotLateYet, Dispatch, objects, ghosts
  <2> QED  BY <2>1, <2>2
<1> QED  BY <1>1, <1>2 DEF NotLateYet

\* Once SDL_RemoveTimer has returned true for a timer, SDL_TimerThread does not
\* decide to run it any more, as its block is canceled as long as it has that
\* id; and its callback is started at most once more, namely if the decision had
\* been made before.
THEOREM RemovedQuiet == Spec => RemovedStaysQuiet
<1>1. Init => NotLateYet
  BY DEF Init, NotLateYet
<1>2. Inv /\ NotLateYet /\ [Next]_vars => NotLateYet'
  BY NotLateYetStep
<1>3. Inv /\ NotLateYet /\ [Next]_vars =>
         [/\ thread = "dispatch" /\ thread' = "call" => id[current'] \notin removed
          /\ thread = "call" /\ thread' = "callback" => id[current] \notin late]_vars
  BY PickedIsNotRemoved DEF NotLateYet
<1> QED  BY <1>1, <1>2, <1>3, InvHolds, PTL DEF Spec, RemovedStaysQuiet

\* When SDL_QuitTimers has returned, every entry of the map and every timer has
\* been freed, but for the timers in data->pending.
THEOREM OnlyPendingIsLeft == Spec => []OnlyPendingLeft
<1>1. Inv => OnlyPendingLeft
  <2> SUFFICES ASSUME Inv, NEW c \in Callers, pc[c] = "done"
               PROVE  entries = {} /\ allocated = Range(pending)
    BY DEF OnlyPendingLeft
  <2>1. /\ thread = "exited" /\ entries = {} /\ timers = <<>> /\ freelist = <<>>
        /\ expired = <<>> /\ sorting = <<>> /\ ~active
    BY DEF Inv, Phases, Quitting, Actors
  <2>2. Listed = Range(pending)
    BY <2>1, EmptyList DEF Listed
  <2>3. \A d \in Actors : pc[d] = "out" \/ Quitting(d)
    BY <2>1 DEF Inv, Phases, Actors
  <2>4. current = NoBlock /\ \A d \in Actors : block[d] = NoBlock
    BY <2>1, <2>3 DEF Inv, Hands, Quitting
  <2> QED  BY <2>1, <2>2, <2>4 DEF Inv, Hands, Held
<1> QED  BY <1>1, InvHolds, PTL
=============================================================================

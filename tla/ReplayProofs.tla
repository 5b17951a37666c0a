---------------------------- MODULE ReplayProofs ----------------------------
(***************************************************************************)
(* What a log of any length does to the database, for any keys, values and *)
(* fields: replay is one command after the other, well-typed commands keep *)
(* the database well-typed, a log acts on each item by itself, and the     *)
(* records that a handler appends make what the handler made.  And the     *)
(* commands that an AOF rewrite or an RDB load makes of a dump build that  *)
(* dump up again, in whatever order the maps of the stores are walked.     *)
(***************************************************************************)
EXTENDS Database, TLAPS, FiniteSetTheorems, WellFoundedInduction

-----------------------------------------------------------------------------
(* Induction over the naturals, for a set of numbers in place of a         *)
(* predicate: a least counterexample cannot exist.                         *)
LEMMA LeastElement ==
  ASSUME NEW T \in SUBSET Nat, T # {}
  PROVE  \E n \in T : \A m \in T : n <= m
<1> DEFINE R == OpToRel(<, Nat)
<1>1. IsWellFoundedOn(R, Nat)
  BY NatLessThanWellFounded
<1>2. ASSUME NEW x \in Nat, NEW y \in Nat, x < y PROVE <<x, y>> \in R
  BY <1>2 DEF OpToRel
<1> HIDE DEF R
<1>3. PICK n \in T : \A m \in T : ~ (<<m, n>> \in R)
  BY <1>1, WFMin
<1>4. \A m \in T : ~ (m < n)
  BY <1>2, <1>3
<1> QED
  BY <1>4

(* Induction itself: a set that has zero and with a number the next has    *)
(* every number.                                                           *)
LEMMA Induction ==
  ASSUME NEW S, 0 \in S, \A n \in Nat : n \in S => n + 1 \in S
  PROVE  Nat \subseteq S
<1> SUFFICES ASSUME ~(Nat \subseteq S) PROVE FALSE
  OBVIOUS
<1>1. PICK n \in Nat \ S : \A m \in Nat \ S : n <= m
  BY LeastElement
<1>2. n - 1 \in Nat /\ n - 1 \in S
  BY <1>1
<1>3. n - 1 + 1 \in S
  BY <1>2
<1> QED
  BY <1>1, <1>3

-----------------------------------------------------------------------------
(* Replay takes the commands one by one: r[n] is the database after n.     *)
Replays(r, d, log, N, t) ==
  /\ r[0] = d
  /\ \A n \in 1 .. N : r[n] = Exec(r[n - 1], log[n], t)

(* The fold of the log is a recursive function of the positions still to   *)
(* go; that there is one takes an induction.                               *)
Folds(it, d, log, N, t) ==
  it = [s \in SUBSET (1 .. N) |->
          IF s = {} THEN d ELSE Exec(it[s \ {Max(s)}], log[Max(s)], t)]

(* The two facts about Max that the fold of a log rests on.                *)
LEMMA MaxIs ==
  ASSUME NEW n \in Nat, NEW s \in SUBSET (1 .. n + 1), n + 1 \in s
  PROVE  Max(s) = n + 1
<1>1. \A y \in s : n + 1 >= y
  OBVIOUS
<1>2. \E x \in s : \A y \in s : x >= y
  BY <1>1
<1> DEFINE m == Max(s)
<1>3. m \in s /\ \A y \in s : m >= y
  BY <1>2 DEF Max
<1> HIDE DEF m
<1>4. m \in 1 .. n + 1 /\ m >= n + 1
  BY <1>3
<1>5. m = n + 1
  BY <1>4
<1> QED
  BY <1>5 DEF m

LEMMA MaxIn ==
  ASSUME NEW n \in Nat, NEW s \in SUBSET (1 .. n), s # {}
  PROVE  Max(s) \in s
<1> DEFINE T == {m \in Nat : \A y \in s : m >= y}
<1>1. T \in SUBSET Nat /\ n \in T
  OBVIOUS
<1>2. PICK m \in T : \A k \in T : m <= k
  BY <1>1, LeastElement
<1>3. m \in s
  <2> SUFFICES ASSUME m \notin s PROVE FALSE
    OBVIOUS
  <2>1. m # 0 /\ m \in Nat
    <3>1. m \in Nat /\ \A y \in s : m >= y
      BY <1>2
    <3>2. PICK y \in s : TRUE
      OBVIOUS
    <3> QED
      BY <3>1, <3>2
  <2>2. \A y \in s : m - 1 >= y
    BY <1>2, <2>1
  <2>3. m - 1 \in T
    BY <2>1, <2>2
  <2> QED
    BY <1>2, <2>1, <2>3
<1>4. \A y \in s : m >= y
  BY <1>2
<1> QED
  BY <1>3, <1>4 DEF Max

(* Such a function exists, for every length of the log.                    *)
LEMMA FoldExists ==
  ASSUME NEW t \in Nat, NEW d, NEW log, NEW N \in Nat
  PROVE  \E it : Folds(it, d, log, N, t)
<1> DEFINE S == {n \in Nat : \E it : Folds(it, d, log, n, t)}
<1>1. 0 \in S
  <2> DEFINE it == [s \in SUBSET (1 .. 0) |-> d]
  <2>1. SUBSET (1 .. 0) = {{}}
    OBVIOUS
  <2>2. Folds(it, d, log, 0, t)
    BY <2>1 DEF Folds
  <2> QED
    BY <2>2
<1>2. ASSUME NEW n \in Nat, n \in S PROVE n + 1 \in S
  <2>1. PICK it : Folds(it, d, log, n, t)
    BY <1>2
  <2> DEFINE up == [s \in SUBSET (1 .. n + 1) |->
                      IF n + 1 \in s THEN Exec(it[s \ {n + 1}], log[n + 1], t) ELSE it[s]]
  <2>2. ASSUME NEW s \in SUBSET (1 .. n + 1)
        PROVE  up[s] = IF s = {} THEN d ELSE Exec(up[s \ {Max(s)}], log[Max(s)], t)
    <3>1. CASE n + 1 \in s
      <4>1. Max(s) = n + 1 /\ s # {}
        BY <3>1, MaxIs
      <4>2. s \ {n + 1} \in SUBSET (1 .. n + 1) /\ n + 1 \notin s \ {n + 1}
        OBVIOUS
      <4>3. up[s \ {n + 1}] = it[s \ {n + 1}]
        BY <4>2
      <4> QED
        BY <3>1, <4>1, <4>3
    <3>2. CASE n + 1 \notin s
      <4>1. s \in SUBSET (1 .. n)
        BY <3>2
      <4>2. up[s] = it[s]
        BY <3>2
      <4>3. it[s] = IF s = {} THEN d ELSE Exec(it[s \ {Max(s)}], log[Max(s)], t)
        BY <2>1, <4>1 DEF Folds
      <4>4. s \ {Max(s)} \in SUBSET (1 .. n + 1) /\ n + 1 \notin s \ {Max(s)}
        BY <3>2
      <4>5. up[s \ {Max(s)}] = it[s \ {Max(s)}]
        BY <4>4
      <4> QED
        BY <4>2, <4>3, <4>5
    <3> QED
      BY <3>1, <3>2
  <2>3. up = [s \in SUBSET (1 .. n + 1) |->
               IF s = {} THEN d ELSE Exec(up[s \ {Max(s)}], log[Max(s)], t)]
    <3> HIDE DEF up
    <3>1. up = [s \in SUBSET (1 .. n + 1) |-> up[s]]
      BY DEF up
    <3> QED
      BY <2>2, <3>1
  <2> HIDE DEF up
  <2>4. Folds(up, d, log, n + 1, t)
    BY <2>3 DEF Folds
  <2> QED
    BY <2>4
<1> HIDE DEF S
<1>3. Nat \subseteq S
  BY <1>1, <1>2, Induction
<1> QED
  BY <1>3 DEF S

(* Replayed, a fold of the community modules, runs through the log from    *)
(* its first record to its last.                                           *)
LEMMA ReplayIs ==
  ASSUME NEW t \in Nat, NEW d, NEW log, NEW N \in Nat, Len(log) = N, DOMAIN log = 1 .. N
  PROVE  \E r : Replays(r, d, log, N, t) /\ Replayed(d, log, t) = r[N]
<1> DEFINE it == CHOOSE f : f = [s \in SUBSET (1 .. N) |->
                   IF s = {} THEN d ELSE Exec(f[s \ {Max(s)}], log[Max(s)], t)]
           r == [n \in 0 .. N |-> it[1 .. n]]
<1>1. Replayed(d, log, t) = it[1 .. N]
  BY DEF Replayed, FoldLeft, MapThenFoldSet
<1>2. Folds(it, d, log, N, t)
  <2>1. \E f : f = [s \in SUBSET (1 .. N) |->
                   IF s = {} THEN d ELSE Exec(f[s \ {Max(s)}], log[Max(s)], t)]
    <3>1. PICK g : Folds(g, d, log, N, t)
      BY FoldExists
    <3> QED
      BY <3>1 DEF Folds
  <2>2. it = [s \in SUBSET (1 .. N) |->
                   IF s = {} THEN d ELSE Exec(it[s \ {Max(s)}], log[Max(s)], t)]
    BY <2>1
  <2> HIDE DEF it
  <2> QED
    BY <2>2 DEF Folds
<1> HIDE DEF it
<1>3. r[0] = d
  <2>1. 1 .. 0 = {}
    OBVIOUS
  <2>2. it[{}] = d
    BY <1>2 DEF Folds
  <2> QED
    BY <2>1, <2>2
<1>4. ASSUME NEW n \in 1 .. N PROVE r[n] = Exec(r[n - 1], log[n], t)
  <2>1. n - 1 \in Nat /\ (n - 1) + 1 = n
    OBVIOUS
  <2>2. n \in 1 .. n
    OBVIOUS
  <2>3. \A x \in 1 .. n : x \in 1 .. N
    OBVIOUS
  <2>4. Max(1 .. n) = n
    BY <2>1, <2>2, MaxIs
  <2>5. (1 .. n) \ {n} = 1 .. n - 1
    OBVIOUS
  <2>6. it[1 .. n] = Exec(it[1 .. n - 1], log[n], t)
    BY <1>2, <2>2, <2>3, <2>4, <2>5 DEF Folds
  <2> QED
    BY <2>1, <2>6
<1>5. r[N] = it[1 .. N]
  OBVIOUS
<1> HIDE DEF r
<1>6. Replays(r, d, log, N, t)
  BY <1>3, <1>4 DEF Replays
<1> QED
  BY <1>1, <1>5, <1>6

(* Any function that replays the log step by step ends where replay does.  *)
LEMMA ReplayEnds ==
  ASSUME NEW t \in Nat, NEW d, NEW log, NEW N \in Nat, Len(log) = N, DOMAIN log = 1 .. N,
         NEW r, Replays(r, d, log, N, t)
  PROVE  Replayed(d, log, t) = r[N]
<1>1. PICK q : Replays(q, d, log, N, t) /\ Replayed(d, log, t) = q[N]
  BY ReplayIs
<1> DEFINE S == {n \in Nat : n <= N => q[n] = r[n]}
<1>2. 0 \in S
  BY <1>1 DEF Replays
<1>3. ASSUME NEW n \in Nat, n \in S PROVE n + 1 \in S
  <2> SUFFICES ASSUME n + 1 <= N PROVE q[n + 1] = r[n + 1]
    OBVIOUS
  <2>1. n + 1 \in 1 .. N /\ (n + 1) - 1 = n /\ q[n] = r[n]
    BY <1>3
  <2> QED
    BY <1>1, <2>1 DEF Replays
<1> HIDE DEF S
<1>4. N \in S
  BY <1>2, <1>3, Induction
<1> QED
  BY <1>1, <1>4 DEF S

(* Replay of nothing, of one record, of one record more.                   *)
LEMMA ReplayEmpty ==
  ASSUME NEW t \in Nat, NEW d
  PROVE  Replayed(d, << >>, t) = d
<1>1. Replays([n \in 0 .. 0 |-> d], d, << >>, 0, t)
  BY DEF Replays
<1>2. Len(<< >>) = 0 /\ DOMAIN << >> = 1 .. 0
  OBVIOUS
<1> QED
  BY <1>1, <1>2, ReplayEnds

(* What two logs do one after the other, in one log.                       *)
LEMMA ReplayConcat ==
  ASSUME NEW t \in Nat, NEW d, NEW C, NEW L \in Seq(C), NEW M \in Seq(C)
  PROVE  Replayed(d, L \o M, t) = Replayed(Replayed(d, L, t), M, t)
<1> DEFINE a == Len(L)
           b == Len(M)
           LM == L \o M
<1>1. /\ a \in Nat /\ DOMAIN L = 1 .. a
      /\ b \in Nat /\ DOMAIN M = 1 .. b
      /\ Len(LM) = a + b /\ DOMAIN LM = 1 .. a + b /\ a + b \in Nat
      /\ \A i \in 1 .. a : LM[i] = L[i]
      /\ \A i \in 1 .. b : LM[a + i] = M[i]
  OBVIOUS
<1> HIDE DEF a, b, LM
<1>2. PICK r : Replays(r, d, LM, a + b, t) /\ Replayed(d, LM, t) = r[a + b]
  BY <1>1, ReplayIs
<1>3. Replays(r, d, L, a, t)
  <2>1. \A n \in 1 .. a : n \in 1 .. a + b
    BY <1>1
  <2> QED
    BY <1>1, <1>2, <2>1 DEF Replays
<1>4. Replayed(d, L, t) = r[a]
  BY <1>1, <1>3, ReplayEnds DEF a
<1> DEFINE q == [n \in 0 .. b |-> r[a + n]]
<1>5. Replays(q, r[a], M, b, t)
  <2>1. q[0] = r[a]
    BY <1>1
  <2>2. ASSUME NEW n \in 1 .. b PROVE q[n] = Exec(q[n - 1], M[n], t)
    <3>1. a + n \in 1 .. a + b /\ (a + n) - 1 = a + (n - 1) /\ n - 1 \in 0 .. b /\ n \in 0 .. b
      BY <1>1
    <3>2. q[n] = r[a + n] /\ q[n - 1] = r[a + (n - 1)]
      BY <3>1
    <3> HIDE DEF q
    <3>3. r[a + n] = Exec(r[(a + n) - 1], LM[a + n], t)
      BY <1>2, <3>1 DEF Replays
    <3> QED
      BY <1>1, <3>1, <3>2, <3>3
  <2> HIDE DEF q
  <2> QED
    BY <2>1, <2>2 DEF Replays
<1>6. q[b] = r[a + b]
  BY <1>1
<1> HIDE DEF q
<1>7. Replayed(r[a], M, t) = q[b]
  BY <1>1, <1>5, ReplayEnds DEF b
<1> QED
  BY <1>2, <1>4, <1>6, <1>7 DEF LM

LEMMA ReplayOne ==
  ASSUME NEW t \in Nat, NEW d, NEW c
  PROVE  Replayed(d, <<c>>, t) = Exec(d, c, t)
<1> DEFINE r == [n \in 0 .. 1 |-> IF n = 0 THEN d ELSE Exec(d, c, t)]
           log == <<c>>
<1>1. r[0] = d /\ r[1] = Exec(d, c, t) /\ 1 .. 1 = {1} /\ log[1] = c /\ 1 - 1 = 0
  OBVIOUS
<1>2. Len(log) = 1 /\ DOMAIN log = 1 .. 1 /\ 1 \in Nat
  OBVIOUS
<1> HIDE DEF r, log
<1>3. Replays(r, d, log, 1, t)
  BY <1>1 DEF Replays
<1>4. Replayed(d, log, t) = r[1]
  <2> DEFINE N == 1
  <2>1. N \in Nat /\ Len(log) = N /\ DOMAIN log = 1 .. N /\ Replays(r, d, log, N, t)
    BY <1>2, <1>3
  <2> HIDE DEF N
  <2>2. Replayed(d, log, t) = r[N]
    BY <2>1, ReplayEnds
  <2> QED
    BY <2>2 DEF N
<1>5. Replayed(d, log, t) = Exec(d, c, t)
  BY <1>1, <1>4
<1> QED
  BY <1>5 DEF log

LEMMA ReplayAppend ==
  ASSUME NEW t \in Nat, NEW d, NEW C, NEW L \in Seq(C), NEW c \in C
  PROVE  Replayed(d, Append(L, c), t) = Exec(Replayed(d, L, t), c, t)
<1> DEFINE one == <<c>>
<1>1. Append(L, c) = L \o one /\ one \in Seq(C)
  OBVIOUS
<1>2. \A x : Replayed(x, one, t) = Exec(x, c, t)
  BY ReplayOne
<1> HIDE DEF one
<1>3. Replayed(d, L \o one, t) = Replayed(Replayed(d, L, t), one, t)
  BY <1>1, ReplayConcat
<1>4. Replayed(d, Append(L, c), t) = Replayed(d, L \o one, t)
  BY <1>1, Zenon
<1> QED
  BY <1>2, <1>3, <1>4

(* A set of logs that has the empty one and with a log every longer one    *)
(* has them all.                                                           *)
LEMMA LogInduction ==
  ASSUME NEW C, NEW T, << >> \in T,
         \A L \in Seq(C) : \A c \in C : L \in T => Append(L, c) \in T
  PROVE  Seq(C) \subseteq T
<1> DEFINE S == {n \in Nat : \A L \in Seq(C) : Len(L) = n => L \in T}
<1>1. 0 \in S
  <2>1. \A L \in Seq(C) : Len(L) = 0 => L = << >>
    OBVIOUS
  <2> QED
    BY <2>1
<1>2. ASSUME NEW n \in Nat, n \in S PROVE n + 1 \in S
  <2> SUFFICES ASSUME NEW L \in Seq(C), Len(L) = n + 1 PROVE L \in T
    OBVIOUS
  <2> DEFINE M == SubSeq(L, 1, n)
  <2>1. M \in Seq(C) /\ Len(M) = n /\ L[n + 1] \in C /\ L = Append(M, L[n + 1])
    OBVIOUS
  <2>2. M \in T
    BY <1>2, <2>1
  <2> HIDE DEF M
  <2> QED
    BY <2>1, <2>2
<1> HIDE DEF S
<1>3. Nat \subseteq S
  BY <1>1, <1>2, Induction
<1>4. ASSUME NEW L \in Seq(C) PROVE L \in T
  <2>1. Len(L) \in S
    BY <1>3
  <2> QED
    BY <2>1 DEF S
<1> QED
  BY <1>4

(* What holds before a log and is kept by its commands holds after it.     *)
LEMMA ReplayKeeps ==
  ASSUME NEW t \in Nat, NEW C, NEW L \in Seq(C), NEW S, NEW d \in S,
         \A x \in S : \A c \in C : Exec(x, c, t) \in S
  PROVE  Replayed(d, L, t) \in S
<1> DEFINE T == {M \in Seq(C) : Replayed(d, M, t) \in S}
<1>1. << >> \in T
  BY ReplayEmpty
<1>2. ASSUME NEW M \in Seq(C), NEW c \in C, M \in T PROVE Append(M, c) \in T
  <2>1. Replayed(d, Append(M, c), t) = Exec(Replayed(d, M, t), c, t) /\ Append(M, c) \in Seq(C)
    BY ReplayAppend
  <2> QED
    BY <1>2, <2>1
<1> HIDE DEF T
<1>3. Seq(C) \subseteq T
  BY <1>1, <1>2, LogInduction
<1> QED
  BY <1>3 DEF T

-----------------------------------------------------------------------------
(* SORT.                                                                   *)

(* A way to arrange n numbers in order.                                    *)
Arranges(p, s, asc, n) ==
  /\ p \in [1 .. n -> 1 .. n]
  /\ \A i, j \in 1 .. n : p[i] = p[j] => i = j
  /\ \A m \in 1 .. n : \E i \in 1 .. n : p[i] = m
  /\ \A i, j \in 1 .. n : i < j => IF asc THEN s[p[i]] <= s[p[j]] ELSE s[p[j]] <= s[p[i]]

(* One more number goes in front of the first that is not before it.       *)
LEMMA ArrangeOneMore ==
  ASSUME NEW n \in Nat, NEW s, \A i \in 1 .. n + 1 : s[i] \in Int,
         NEW asc \in BOOLEAN, NEW p, Arranges(p, s, asc, n)
  PROVE  \E q : Arranges(q, s, asc, n + 1)
<1> DEFINE x == s[n + 1]
           Before(i) == IF asc THEN s[p[i]] <= x ELSE x <= s[p[i]]
           T == {i \in 1 .. n + 1 : i = n + 1 \/ ~Before(i)}
<1>1. PICK k \in T : \A i \in T : k <= i
  <2>1. T \in SUBSET Nat /\ n + 1 \in T
    OBVIOUS
  <2> QED
    BY <2>1, LeastElement
<1>2. k \in 1 .. n + 1
  OBVIOUS
<1>3. /\ p \in [1 .. n -> 1 .. n]
      /\ \A i, j \in 1 .. n : p[i] = p[j] => i = j
      /\ \A m \in 1 .. n : \E i \in 1 .. n : p[i] = m
      /\ \A i \in 1 .. n : s[p[i]] \in Int
      /\ x \in Int
  <2>1. p \in [1 .. n -> 1 .. n] /\ \A i \in 1 .. n : p[i] \in 1 .. n
    BY DEF Arranges
  <2>2. \A i \in 1 .. n : p[i] \in 1 .. n + 1
    BY <2>1
  <2>3. \A i \in 1 .. n : s[p[i]] \in Int
    BY <2>2
  <2>4. n + 1 \in 1 .. n + 1
    OBVIOUS
  <2>5. x \in Int
    BY <2>4
  <2> HIDE DEF x
  <2> QED
    BY <2>1, <2>3, <2>5 DEF Arranges
<1>4. \A i \in 1 .. n : i < k => Before(i)
  BY <1>1, <1>2
<1>5. \A i \in 1 .. n : k <= i => ~Before(i)
  <2> SUFFICES ASSUME NEW i \in 1 .. n, k <= i PROVE ~Before(i)
    OBVIOUS
  <2>1. k \in 1 .. n /\ ~Before(k)
    BY <1>1, <1>2
  <2>2. k < i => IF asc THEN s[p[k]] <= s[p[i]] ELSE s[p[i]] <= s[p[k]]
    BY <2>1 DEF Arranges
  <2>3. k < i \/ k = i
    BY <1>2
  <2>4. s[p[k]] \in Int /\ s[p[i]] \in Int /\ x \in Int
    BY <1>3, <2>1
  <2> HIDE DEF x
  <2>5. CASE k < i
    BY <2>1, <2>2, <2>4, <2>5
  <2>6. CASE k = i
    BY <2>1, <2>6
  <2> QED
    BY <2>3, <2>5, <2>6
<1> HIDE DEF T
<1> DEFINE q == [i \in 1 .. n + 1 |-> IF i < k THEN p[i] ELSE IF i = k THEN n + 1 ELSE p[i - 1]]
<1>6. /\ \A i \in 1 .. n + 1 : i < k => i \in 1 .. n /\ q[i] = p[i]
      /\ q[k] = n + 1
      /\ \A i \in 1 .. n + 1 : i > k => i - 1 \in 1 .. n /\ q[i] = p[i - 1]
  BY <1>2
<1>7. \A i \in 1 .. n : p[i] \in Int /\ p[i] \in 1 .. n + 1 /\ p[i] # n + 1
  BY <1>3
<1>8. DOMAIN q = 1 .. n + 1 /\ q = [i \in 1 .. n + 1 |-> q[i]]
  OBVIOUS
<1> HIDE DEF q
<1>9. q \in [1 .. n + 1 -> 1 .. n + 1]
  <2>1. ASSUME NEW i \in 1 .. n + 1 PROVE q[i] \in 1 .. n + 1
    <3>1. i < k \/ i = k \/ i > k
      BY <1>2
    <3> QED
      BY <1>6, <1>7, <3>1
  <2> QED
    BY <1>8, <2>1
<1>10. ASSUME NEW i \in 1 .. n + 1, NEW j \in 1 .. n + 1, q[i] = q[j] PROVE i = j
  <2>1. /\ i < k \/ i = k \/ i > k
        /\ j < k \/ j = k \/ j > k
    BY <1>2
  <2>2. ASSUME NEW a \in 1 .. n, NEW b \in 1 .. n, p[a] = p[b] PROVE a = b
    BY <1>3, <2>2
  <2> QED
    BY <1>2, <1>10, <1>6, <1>7, <2>1, <2>2
<1>11. ASSUME NEW m \in 1 .. n + 1 PROVE \E i \in 1 .. n + 1 : q[i] = m
  <2>1. CASE m = n + 1
    BY <1>2, <1>6, <2>1
  <2>2. CASE m # n + 1
    <3>1. PICK i \in 1 .. n : p[i] = m
      BY <1>3, <2>2
    <3>2. CASE i < k
      BY <1>6, <3>1, <3>2
    <3>3. CASE ~(i < k)
      <4>1. i + 1 \in 1 .. n + 1 /\ ~(i + 1 < k) /\ i + 1 # k /\ (i + 1) - 1 = i
        BY <1>2, <3>3
      <4>2. i + 1 > k /\ q[i + 1] = m
        BY <1>2, <1>6, <3>1, <4>1
      <4> QED
        BY <4>1, <4>2
    <3> QED
      BY <3>2, <3>3
  <2> QED
    BY <2>1, <2>2
<1>12. ASSUME NEW i \in 1 .. n + 1, NEW j \in 1 .. n + 1, i < j
      PROVE  IF asc THEN s[q[i]] <= s[q[j]] ELSE s[q[j]] <= s[q[i]]
  <2>1. \A a, b \in 1 .. n : a < b => IF asc THEN s[p[a]] <= s[p[b]] ELSE s[p[b]] <= s[p[a]]
    BY DEF Arranges
  <2>2. CASE j < k
    <3>1. i < k
      BY <1>2, <1>12, <2>2
    <3>2. i \in 1 .. n /\ j \in 1 .. n /\ q[i] = p[i] /\ q[j] = p[j]
      BY <1>6, <2>2, <3>1
    <3> QED
      BY <1>12, <2>1, <3>2
  <2>3. CASE j = k
    <3>1. i \in 1 .. n /\ q[i] = p[i] /\ q[j] = n + 1
      BY <1>2, <1>12, <1>6, <2>3
    <3>2. i < k
      BY <1>12, <2>3
    <3>3. Before(i)
      BY <1>4, <3>1, <3>2
    <3> QED
      BY <3>1, <3>3
  <2>4. CASE j > k /\ i < k
    <3>1. i \in 1 .. n /\ j - 1 \in 1 .. n /\ i < j - 1 /\ q[i] = p[i] /\ q[j] = p[j - 1]
      BY <1>2, <1>6, <2>4
    <3> QED
      BY <2>1, <3>1
  <2>5. CASE i = k
    <3>1. j - 1 \in 1 .. n /\ k <= j - 1 /\ q[i] = n + 1 /\ q[j] = p[j - 1]
      BY <1>2, <1>12, <1>6, <2>5
    <3>2. ~Before(j - 1) /\ s[p[j - 1]] \in Int /\ x \in Int
      BY <1>3, <1>5, <3>1
    <3> QED
      BY <3>1, <3>2
  <2>6. CASE i > k
    <3>1. i - 1 \in 1 .. n /\ j - 1 \in 1 .. n /\ i - 1 < j - 1
          /\ q[i] = p[i - 1] /\ q[j] = p[j - 1]
      BY <1>2, <1>12, <1>6, <2>6
    <3> QED
      BY <2>1, <3>1
  <2> QED
    BY <1>2, <1>12, <2>2, <2>3, <2>4, <2>5, <2>6
<1> QED
  BY <1>9, <1>10, <1>11, <1>12 DEF Arranges

(* Any list of numbers can be put in order.                                *)
LEMMA ArrangementExists ==
  ASSUME NEW N \in Nat, NEW s, \A i \in 1 .. N : s[i] \in Int, NEW asc \in BOOLEAN
  PROVE  \E p : Arranges(p, s, asc, N)
<1> DEFINE S == {n \in Nat : n <= N => \E p : Arranges(p, s, asc, n)}
<1>1. 0 \in S
  <2>1. Arranges([i \in 1 .. 0 |-> i], s, asc, 0)
    BY DEF Arranges
  <2> QED
    BY <2>1
<1>2. ASSUME NEW n \in Nat, n \in S PROVE n + 1 \in S
  <2> SUFFICES ASSUME n + 1 <= N PROVE \E p : Arranges(p, s, asc, n + 1)
    OBVIOUS
  <2>1. PICK p : Arranges(p, s, asc, n)
    BY <1>2
  <2>2. \A i \in 1 .. n + 1 : s[i] \in Int
    OBVIOUS
  <2> QED
    BY <2>1, <2>2, ArrangeOneMore
<1> HIDE DEF S
<1>3. N \in S
  BY <1>1, <1>2, Induction
<1> QED
  BY <1>3 DEF S

(* sort.Slice has something to return, and what it returns has the         *)
(* elements it was given, each as often.                                   *)
LEMMA SortedIs ==
  ASSUME NEW list \in Seq(Int), NEW asc \in BOOLEAN
  PROVE  /\ Sorted(list, asc) \in Sortings(list, asc)
         /\ DOMAIN Sorted(list, asc) = 1 .. Len(list)
         /\ \A i \in 1 .. Len(list) : \E j \in 1 .. Len(list) : Sorted(list, asc)[i] = list[j]
         /\ \A v : Occurrences(Sorted(list, asc), v) = Occurrences(list, v)
<1> DEFINE N == Len(list)
<1>1. N \in Nat /\ DOMAIN list = 1 .. N /\ \A i \in 1 .. N : list[i] \in Int
  OBVIOUS
<1> HIDE DEF N
<1>2. PICK p : Arranges(p, list, asc, N)
  BY <1>1, ArrangementExists
<1> DEFINE t == [i \in 1 .. N |-> list[p[i]]]
<1>3. t \in [DOMAIN list -> {list[i] : i \in DOMAIN list}]
  BY <1>1, <1>2 DEF Arranges
<1>4. Ordered(t, asc)
  BY <1>2 DEF Ordered, Arranges
<1>5. ASSUME NEW v PROVE Occurrences(t, v) = Occurrences(list, v)
  <2> DEFINE A == {i \in DOMAIN t : t[i] = v}
             B == {i \in DOMAIN list : list[i] = v}
             f == [i \in A |-> p[i]]
  <2>1. IsFiniteSet(A)
    <3>1. IsFiniteSet(1 .. N) /\ A \subseteq 1 .. N
      BY <1>1, FS_Interval
    <3> QED
      BY <3>1, FS_Subset
  <2>2. f \in [A -> B] /\ \A i, j \in A : f[i] = f[j] => i = j
    BY <1>1, <1>2 DEF Arranges
  <2>3. \A m \in B : \E i \in A : f[i] = m
    BY <1>1, <1>2 DEF Arranges
  <2> HIDE DEF A, B, f
  <2>4. f \in Bijection(A, B)
    BY <2>2, <2>3 DEF Bijection, Injection, Surjection, IsInjective
  <2>5. Cardinality(A) = Cardinality(B)
    BY <2>1, <2>4, FS_Bijection DEF ExistsBijection
  <2> QED
    BY <2>5 DEF A, B, Occurrences
<1>6. t \in Sortings(list, asc)
  BY <1>3, <1>4, <1>5 DEF Sortings
<1> DEFINE u == Sorted(list, asc)
<1>7. u \in Sortings(list, asc)
  BY <1>6 DEF Sorted
<1> HIDE DEF u
<1>8. /\ u \in [DOMAIN list -> {list[i] : i \in DOMAIN list}]
      /\ \A i \in DOMAIN list : Occurrences(u, list[i]) = Occurrences(list, list[i])
  BY <1>7 DEF Sortings
<1>9. DOMAIN u = 1 .. N /\ \A i \in 1 .. N : \E j \in 1 .. N : u[i] = list[j]
  BY <1>1, <1>8
<1>10. ASSUME NEW v PROVE Occurrences(u, v) = Occurrences(list, v)
  <2>1. CASE \E i \in 1 .. N : list[i] = v
    BY <1>1, <1>8, <2>1
  <2>2. CASE ~ \E i \in 1 .. N : list[i] = v
    <3>1. {i \in DOMAIN u : u[i] = v} = {} /\ {i \in DOMAIN list : list[i] = v} = {}
      BY <1>1, <1>9, <2>2
    <3> QED
      BY <3>1 DEF Occurrences
  <2> QED
    BY <2>1, <2>2
<1> QED
  BY <1>7, <1>9, <1>10 DEF u, N

-----------------------------------------------------------------------------
(* Commands, item by item, and types.                                      *)

(* The fields of a database, and those of a command, with their types.     *)
LEMMA DBFields ==
  ASSUME NEW d \in DBType
  PROVE  /\ d = [dict |-> d.dict, set |-> d.set, list |-> d.list, hash |-> d.hash]
         /\ d.dict \in [Key -> DictItem \cup {Absent}]
         /\ d.set \in [Key -> SetItem \cup {Absent}]
         /\ d.list \in [Key -> Seq(Value)]
         /\ d.hash \in [Key -> HashItem]
  BY DEF DBType

LEMMA CommandFields ==
  ASSUME NEW c \in Command
  PROVE  /\ c.op \in {"SET", "DEL", "EXPIRE", "PEXPIREAT", "SEXPIRE", "SEXPIREAT", "SADD", "SREM",
                      "LPUSH", "RPUSH", "LPOP", "RPOP", "SORT", "HSET", "HDEL"}
         /\ c.op = "DEL" => c.keys \subseteq Key
         /\ c.op # "DEL" => c.key \in Key
         /\ c.op = "SET" => c.val \in Value /\ c.ttl \in Nat
         /\ c.op \in {"EXPIRE", "SEXPIRE"} => c.ttl \in Nat
         /\ c.op \in {"PEXPIREAT", "SEXPIREAT"} => c.at \in Nat \ {0}
         /\ c.op \in {"SADD", "SREM"} => c.members \in (SUBSET Value) \ {{}}
         /\ c.op \in {"LPUSH", "RPUSH"} => c.vals \in Seq(Value)
         /\ c.op \in {"LPOP", "RPOP"} => c.count \in Nat
         /\ c.op = "SORT" => c.asc \in BOOLEAN
         /\ c.op = "HSET" => c.pairs \in HashItem
         /\ c.op = "HDEL" => c.fields \subseteq Field
  BY DEF Command

(* What a command makes of the item under one key, store by store, when it *)
(* runs at time t.                                                         *)
Due(ttl, t) == IF ttl = 0 THEN 0 ELSE t + ttl

DictAfter(d, c, k, t) ==
  CASE c.op = "SET" /\ k = c.key -> [value |-> c.val, deadline |-> Due(c.ttl, t)]
    [] c.op = "DEL" /\ k \in c.keys -> Absent
    [] c.op = "EXPIRE" /\ k = c.key -> Redated(d.dict[k], t + c.ttl, t)
    [] c.op = "PEXPIREAT" /\ k = c.key -> Redated(d.dict[k], c.at, t)
    [] OTHER -> d.dict[k]

SetAfter(d, c, k, t) ==
  CASE c.op = "SADD" /\ k = c.key -> Sadd(d.set[k], c.members)
    [] c.op = "SREM" /\ k = c.key -> Srem(d.set[k], c.members)
    [] c.op = "SEXPIRE" /\ k = c.key -> Redated(d.set[k], t + c.ttl, t)
    [] c.op = "SEXPIREAT" /\ k = c.key -> Redated(d.set[k], c.at, t)
    [] OTHER -> d.set[k]

ListAfter(d, c, k) ==
  CASE c.op = "LPUSH" /\ k = c.key -> Reverse(c.vals) \o d.list[k]
    [] c.op = "RPUSH" /\ k = c.key -> d.list[k] \o c.vals
    [] c.op = "LPOP" /\ k = c.key -> SubSeq(d.list[k], c.count + 1, Len(d.list[k]))
    [] c.op = "RPOP" /\ k = c.key -> SubSeq(d.list[k], 1, Len(d.list[k]) - c.count)
    [] c.op = "SORT" /\ k = c.key -> Sorted(d.list[k], c.asc)
    [] OTHER -> d.list[k]

HashAfter(d, c, k) ==
  CASE c.op = "HSET" /\ k = c.key -> Overwrite(d.hash[k], c.pairs)
    [] c.op = "HDEL" /\ k = c.key -> [f \in DOMAIN d.hash[k] \ c.fields |-> d.hash[k][f]]
    [] OTHER -> d.hash[k]

(* A command acts on every item by itself: Exec is made of the four above. *)
LEMMA ExecIs ==
  ASSUME NEW t \in Nat, NEW d \in DBType, NEW c \in Command
  PROVE  Exec(d, c, t) = [dict |-> [k \in Key |-> DictAfter(d, c, k, t)],
                       set  |-> [k \in Key |-> SetAfter(d, c, k, t)],
                       list |-> [k \in Key |-> ListAfter(d, c, k)],
                       hash |-> [k \in Key |-> HashAfter(d, c, k)]]
<1> DEFINE D == [k \in Key |-> DictAfter(d, c, k, t)]
           S == [k \in Key |-> SetAfter(d, c, k, t)]
           L == [k \in Key |-> ListAfter(d, c, k)]
           H == [k \in Key |-> HashAfter(d, c, k)]
<1>1. /\ d = [dict |-> d.dict, set |-> d.set, list |-> d.list, hash |-> d.hash]
      /\ d.dict = [k \in Key |-> d.dict[k]] /\ d.set = [k \in Key |-> d.set[k]]
      /\ d.list = [k \in Key |-> d.list[k]] /\ d.hash = [k \in Key |-> d.hash[k]]
  BY DBFields
<1>2. c.op \notin {"SET", "DEL", "EXPIRE", "PEXPIREAT"} => D = d.dict
  BY <1>1 DEF DictAfter
<1>3. c.op \notin {"SADD", "SREM", "SEXPIRE", "SEXPIREAT"} => S = d.set
  BY <1>1 DEF SetAfter
<1>4. c.op \notin {"LPUSH", "RPUSH", "LPOP", "RPOP", "SORT"} => L = d.list
  BY <1>1 DEF ListAfter
<1>5. c.op \notin {"HSET", "HDEL"} => H = d.hash
  BY <1>1 DEF HashAfter
<1>6. CASE c.op = "SET"
  <2>1. Exec(d, c, t) = [d EXCEPT !.dict[c.key] = [value |-> c.val, deadline |-> Due(c.ttl, t)]]
    BY <1>6 DEF Exec, Due
  <2>2. D = [d.dict EXCEPT ![c.key] = [value |-> c.val, deadline |-> Due(c.ttl, t)]]
    BY <1>1, <1>6 DEF DictAfter
  <2> HIDE DEF D, S, L, H
  <2>3. Exec(d, c, t) = [dict |-> D, set |-> S, list |-> L, hash |-> H]
    BY <1>1, <1>3, <1>4, <1>5, <1>6, <2>1, <2>2
  <2> QED
    BY <2>3 DEF D, S, L, H
<1>7. CASE c.op = "DEL"
  <2>1. Exec(d, c, t) = [d EXCEPT !.dict = [k \in Key |-> IF k \in c.keys THEN Absent ELSE @[k]]]
    BY <1>7 DEF Exec
  <2>2. D = [k \in Key |-> IF k \in c.keys THEN Absent ELSE d.dict[k]]
    BY <1>1, <1>7 DEF DictAfter
  <2> HIDE DEF D, S, L, H
  <2>3. Exec(d, c, t) = [dict |-> D, set |-> S, list |-> L, hash |-> H]
    BY <1>1, <1>3, <1>4, <1>5, <1>7, <2>1, <2>2
  <2> QED
    BY <2>3 DEF D, S, L, H
<1>8. CASE c.op = "EXPIRE"
  <2>1. Exec(d, c, t) = [d EXCEPT !.dict[c.key] = Redated(@, t + c.ttl, t)]
    BY <1>8 DEF Exec
  <2>2. D = [d.dict EXCEPT ![c.key] = Redated(@, t + c.ttl, t)]
    BY <1>1, <1>8 DEF DictAfter
  <2> HIDE DEF D, S, L, H
  <2>3. Exec(d, c, t) = [dict |-> D, set |-> S, list |-> L, hash |-> H]
    BY <1>1, <1>3, <1>4, <1>5, <1>8, <2>1, <2>2
  <2> QED
    BY <2>3 DEF D, S, L, H
<1>9. CASE c.op = "PEXPIREAT"
  <2>1. Exec(d, c, t) = [d EXCEPT !.dict[c.key] = Redated(@, c.at, t)]
    BY <1>9 DEF Exec
  <2>2. D = [d.dict EXCEPT ![c.key] = Redated(@, c.at, t)]
    BY <1>1, <1>9 DEF DictAfter
  <2> HIDE DEF D, S, L, H
  <2>3. Exec(d, c, t) = [dict |-> D, set |-> S, list |-> L, hash |-> H]
    BY <1>1, <1>3, <1>4, <1>5, <1>9, <2>1, <2>2
  <2> QED
    BY <2>3 DEF D, S, L, H
<1>10. CASE c.op = "SADD"
  <2>1. Exec(d, c, t) = [d EXCEPT !.set[c.key] = Sadd(@, c.members)]
    BY <1>10 DEF Exec
  <2>2. S = [d.set EXCEPT ![c.key] = Sadd(@, c.members)]
    BY <1>1, <1>10 DEF SetAfter
  <2> HIDE DEF D, S, L, H
  <2>3. Exec(d, c, t) = [dict |-> D, set |-> S, list |-> L, hash |-> H]
    BY <1>1, <1>2, <1>4, <1>5, <1>10, <2>1, <2>2
  <2> QED
    BY <2>3 DEF D, S, L, H
<1>11. CASE c.op = "SREM"
  <2>1. Exec(d, c, t) = [d EXCEPT !.set[c.key] = Srem(@, c.members)]
    BY <1>11 DEF Exec
  <2>2. S = [d.set EXCEPT ![c.key] = Srem(@, c.members)]
    BY <1>1, <1>11 DEF SetAfter
  <2> HIDE DEF D, S, L, H
  <2>3. Exec(d, c, t) = [dict |-> D, set |-> S, list |-> L, hash |-> H]
    BY <1>1, <1>2, <1>4, <1>5, <1>11, <2>1, <2>2
  <2> QED
    BY <2>3 DEF D, S, L, H
<1>12. CASE c.op = "SEXPIRE"
  <2>1. Exec(d, c, t) = [d EXCEPT !.set[c.key] = Redated(@, t + c.ttl, t)]
    BY <1>12 DEF Exec
  <2>2. S = [d.set EXCEPT ![c.key] = Redated(@, t + c.ttl, t)]
    BY <1>1, <1>12 DEF SetAfter
  <2> HIDE DEF D, S, L, H
  <2>3. Exec(d, c, t) = [dict |-> D, set |-> S, list |-> L, hash |-> H]
    BY <1>1, <1>2, <1>4, <1>5, <1>12, <2>1, <2>2
  <2> QED
    BY <2>3 DEF D, S, L, H
<1>13. CASE c.op = "LPUSH"
  <2>1. Exec(d, c, t) = [d EXCEPT !.list[c.key] = Reverse(c.vals) \o @]
    BY <1>13 DEF Exec
  <2>2. L = [d.list EXCEPT ![c.key] = Reverse(c.vals) \o @]
    BY <1>1, <1>13 DEF ListAfter
  <2> HIDE DEF D, S, L, H
  <2>3. Exec(d, c, t) = [dict |-> D, set |-> S, list |-> L, hash |-> H]
    BY <1>1, <1>2, <1>3, <1>5, <1>13, <2>1, <2>2
  <2> QED
    BY <2>3 DEF D, S, L, H
<1>14. CASE c.op = "RPUSH"
  <2>1. Exec(d, c, t) = [d EXCEPT !.list[c.key] = @ \o c.vals]
    BY <1>14 DEF Exec
  <2>2. L = [d.list EXCEPT ![c.key] = @ \o c.vals]
    BY <1>1, <1>14 DEF ListAfter
  <2> HIDE DEF D, S, L, H
  <2>3. Exec(d, c, t) = [dict |-> D, set |-> S, list |-> L, hash |-> H]
    BY <1>1, <1>2, <1>3, <1>5, <1>14, <2>1, <2>2
  <2> QED
    BY <2>3 DEF D, S, L, H
<1>15. CASE c.op = "LPOP"
  <2>1. Exec(d, c, t) = [d EXCEPT !.list[c.key] = SubSeq(@, c.count + 1, Len(@))]
    BY <1>15 DEF Exec
  <2>2. L = [d.list EXCEPT ![c.key] = SubSeq(@, c.count + 1, Len(@))]
    BY <1>1, <1>15 DEF ListAfter
  <2> HIDE DEF D, S, L, H
  <2>3. Exec(d, c, t) = [dict |-> D, set |-> S, list |-> L, hash |-> H]
    BY <1>1, <1>2, <1>3, <1>5, <1>15, <2>1, <2>2
  <2> QED
    BY <2>3 DEF D, S, L, H
<1>16. CASE c.op = "RPOP"
  <2>1. Exec(d, c, t) = [d EXCEPT !.list[c.key] = SubSeq(@, 1, Len(@) - c.count)]
    BY <1>16 DEF Exec
  <2>2. L = [d.list EXCEPT ![c.key] = SubSeq(@, 1, Len(@) - c.count)]
    BY <1>1, <1>16 DEF ListAfter
  <2> HIDE DEF D, S, L, H
  <2>3. Exec(d, c, t) = [dict |-> D, set |-> S, list |-> L, hash |-> H]
    BY <1>1, <1>2, <1>3, <1>5, <1>16, <2>1, <2>2
  <2> QED
    BY <2>3 DEF D, S, L, H
<1>17. CASE c.op = "SORT"
  <2>1. Exec(d, c, t) = [d EXCEPT !.list[c.key] = Sorted(@, c.asc)]
    BY <1>17 DEF Exec
  <2>2. L = [d.list EXCEPT ![c.key] = Sorted(@, c.asc)]
    BY <1>1, <1>17 DEF ListAfter
  <2> HIDE DEF D, S, L, H
  <2>3. Exec(d, c, t) = [dict |-> D, set |-> S, list |-> L, hash |-> H]
    BY <1>1, <1>2, <1>3, <1>5, <1>17, <2>1, <2>2
  <2> QED
    BY <2>3 DEF D, S, L, H
<1>18. CASE c.op = "HSET"
  <2>1. Exec(d, c, t) = [d EXCEPT !.hash[c.key] = Overwrite(@, c.pairs)]
    BY <1>18 DEF Exec
  <2>2. H = [d.hash EXCEPT ![c.key] = Overwrite(@, c.pairs)]
    BY <1>1, <1>18 DEF HashAfter
  <2> HIDE DEF D, S, L, H
  <2>3. Exec(d, c, t) = [dict |-> D, set |-> S, list |-> L, hash |-> H]
    BY <1>1, <1>2, <1>3, <1>4, <1>18, <2>1, <2>2
  <2> QED
    BY <2>3 DEF D, S, L, H
<1>19. CASE c.op = "HDEL"
  <2>1. Exec(d, c, t) = [d EXCEPT !.hash[c.key] = [f \in DOMAIN @ \ c.fields |-> @[f]]]
    BY <1>19 DEF Exec
  <2>2. H = [d.hash EXCEPT ![c.key] = [f \in DOMAIN @ \ c.fields |-> @[f]]]
    BY <1>1, <1>19 DEF HashAfter
  <2> HIDE DEF D, S, L, H
  <2>3. Exec(d, c, t) = [dict |-> D, set |-> S, list |-> L, hash |-> H]
    BY <1>1, <1>2, <1>3, <1>4, <1>19, <2>1, <2>2
  <2> QED
    BY <2>3 DEF D, S, L, H
<1>20. CASE c.op = "SEXPIREAT"
  <2>1. Exec(d, c, t) = [d EXCEPT !.set[c.key] = Redated(@, c.at, t)]
    BY <1>20 DEF Exec
  <2>2. S = [d.set EXCEPT ![c.key] = Redated(@, c.at, t)]
    BY <1>1, <1>20 DEF SetAfter
  <2> HIDE DEF D, S, L, H
  <2>3. Exec(d, c, t) = [dict |-> D, set |-> S, list |-> L, hash |-> H]
    BY <1>1, <1>2, <1>4, <1>5, <1>20, <2>1, <2>2
  <2> QED
    BY <2>3 DEF D, S, L, H
<1> QED
  BY CommandFields, <1>6, <1>7, <1>8, <1>9, <1>10, <1>11, <1>12, <1>13, <1>14, <1>15, <1>16, <1>17, <1>18,
     <1>19, <1>20

(* A hash is a function from some fields to values.                        *)
LEMMA HashItems ==
  ASSUME NEW h
  PROVE  h \in HashItem <=> /\ h = [f \in DOMAIN h |-> h[f]]
                            /\ DOMAIN h \subseteq Field
                            /\ \A f \in DOMAIN h : h[f] \in Value
<1>1. ASSUME h \in HashItem
      PROVE  /\ h = [f \in DOMAIN h |-> h[f]] /\ DOMAIN h \subseteq Field
             /\ \A f \in DOMAIN h : h[f] \in Value
  <2>1. PICK F \in SUBSET Field : h \in [F -> Value]
    BY <1>1 DEF HashItem
  <2> QED
    BY <2>1
<1>2. ASSUME h = [f \in DOMAIN h |-> h[f]], DOMAIN h \subseteq Field,
             \A f \in DOMAIN h : h[f] \in Value
      PROVE  h \in HashItem
  <2>1. h \in [DOMAIN h -> Value]
    BY <1>2
  <2> QED
    BY <1>2, <2>1 DEF HashItem
<1> QED
  BY <1>1, <1>2

(* SORT compares elements as integers, which they are.                     *)
LEMMA IntegerLists == Seq(Value) \subseteq Seq(Int)
<1> SUFFICES ASSUME NEW l \in Seq(Value) PROVE l \in Seq(Int)
  OBVIOUS
<1>1. Len(l) \in Nat /\ l = [i \in 1 .. Len(l) |-> l[i]] /\ \A i \in 1 .. Len(l) : l[i] \in Value
  OBVIOUS
<1>2. \A i \in 1 .. Len(l) : l[i] \in Int
  BY <1>1, DatabaseAssumption
<1> QED
  BY <1>1, <1>2

(* Every item that a command makes is one the store can have.              *)
LEMMA RedatedTyped ==
  ASSUME NEW at \in Nat, NEW t \in Nat
  PROVE  /\ \A i \in DictItem \cup {Absent} : Redated(i, at, t) \in DictItem \cup {Absent}
         /\ \A i \in SetItem \cup {Absent} : Redated(i, at, t) \in SetItem \cup {Absent}
  BY DEF Redated, DictItem, SetItem

LEMMA DictTyped ==
  ASSUME NEW t \in Nat, NEW d \in DBType, NEW c \in Command, NEW k \in Key
  PROVE  DictAfter(d, c, k, t) \in DictItem \cup {Absent}
<1>1. d.dict[k] \in DictItem \cup {Absent}
  BY DBFields
<1>2. c.op = "SET" => [value |-> c.val, deadline |-> Due(c.ttl, t)] \in DictItem
  BY CommandFields DEF DictItem, Due
<1>3. c.op = "EXPIRE" => Redated(d.dict[k], t + c.ttl, t) \in DictItem \cup {Absent}
  <2>1. c.op = "EXPIRE" => t + c.ttl \in Nat
    BY CommandFields
  <2> QED
    BY <1>1, <2>1, RedatedTyped
<1>4. c.op = "PEXPIREAT" => Redated(d.dict[k], c.at, t) \in DictItem \cup {Absent}
  BY <1>1, CommandFields, RedatedTyped
<1> QED
  BY <1>1, <1>2, <1>3, <1>4 DEF DictAfter

LEMMA SetTyped ==
  ASSUME NEW t \in Nat, NEW d \in DBType, NEW c \in Command, NEW k \in Key
  PROVE  SetAfter(d, c, k, t) \in SetItem \cup {Absent}
<1>1. d.set[k] \in SetItem \cup {Absent}
  BY DBFields
<1>2. c.op = "SADD" => Sadd(d.set[k], c.members) \in SetItem
  BY <1>1, CommandFields DEF SetItem, Sadd
<1>3. c.op = "SREM" => Srem(d.set[k], c.members) \in SetItem \cup {Absent}
  BY <1>1, CommandFields DEF SetItem, Srem
<1>4. c.op = "SEXPIRE" => Redated(d.set[k], t + c.ttl, t) \in SetItem \cup {Absent}
  <2>1. c.op = "SEXPIRE" => t + c.ttl \in Nat
    BY CommandFields
  <2> QED
    BY <1>1, <2>1, RedatedTyped
<1>5. c.op = "SEXPIREAT" => Redated(d.set[k], c.at, t) \in SetItem \cup {Absent}
  BY <1>1, CommandFields, RedatedTyped
<1> QED
  BY <1>1, <1>2, <1>3, <1>4, <1>5 DEF SetAfter

LEMMA ListTyped ==
  ASSUME NEW d \in DBType, NEW c \in Command, NEW k \in Key
  PROVE  ListAfter(d, c, k) \in Seq(Value)
<1> DEFINE l == d.list[k]
<1>1. l \in Seq(Value) /\ Len(l) \in Nat
  BY DBFields
<1> HIDE DEF l
<1>2. c.op \in {"LPUSH", "RPUSH"} => Reverse(c.vals) \o l \in Seq(Value) /\ l \o c.vals \in Seq(Value)
  <2> SUFFICES ASSUME c.op \in {"LPUSH", "RPUSH"}
               PROVE  Reverse(c.vals) \o l \in Seq(Value) /\ l \o c.vals \in Seq(Value)
    OBVIOUS
  <2>1. c.vals \in Seq(Value)
    BY CommandFields
  <2>2. Reverse(c.vals) \in Seq(Value)
    BY <2>1 DEF Reverse
  <2> QED
    BY <1>1, <2>1, <2>2
<1>3. c.op \in {"LPOP", "RPOP"} =>
        /\ SubSeq(l, c.count + 1, Len(l)) \in Seq(Value)
        /\ SubSeq(l, 1, Len(l) - c.count) \in Seq(Value)
  <2> SUFFICES ASSUME c.op \in {"LPOP", "RPOP"}
               PROVE  /\ SubSeq(l, c.count + 1, Len(l)) \in Seq(Value)
                      /\ SubSeq(l, 1, Len(l) - c.count) \in Seq(Value)
    OBVIOUS
  <2>1. c.count \in Nat
    BY CommandFields
  <2> QED
    BY <1>1, <2>1
<1>4. c.op = "SORT" => Sorted(l, c.asc) \in Seq(Value)
  <2> SUFFICES ASSUME c.op = "SORT" PROVE Sorted(l, c.asc) \in Seq(Value)
    OBVIOUS
  <2> DEFINE asc == c.asc
             t == Sorted(l, asc)
  <2>1. asc \in BOOLEAN
    BY CommandFields
  <2>2. l \in Seq(Int)
    BY <1>1, IntegerLists
  <2> HIDE DEF asc
  <2>3. /\ t \in Sortings(l, asc) /\ DOMAIN t = 1 .. Len(l)
        /\ \A i \in 1 .. Len(l) : \E j \in 1 .. Len(l) : t[i] = l[j]
    BY <2>1, <2>2, SortedIs, Zenon
  <2> HIDE DEF t
  <2>4. t = [i \in 1 .. Len(l) |-> t[i]]
    BY <2>3 DEF Sortings
  <2>5. \A i \in 1 .. Len(l) : t[i] \in Value
    BY <1>1, <2>3
  <2>6. t \in Seq(Value)
    BY <1>1, <2>4, <2>5
  <2> QED
    BY <2>6 DEF t, asc
<1> QED
  BY <1>1, <1>2, <1>3, <1>4 DEF ListAfter, l

LEMMA HashTyped ==
  ASSUME NEW d \in DBType, NEW c \in Command, NEW k \in Key
  PROVE  HashAfter(d, c, k) \in HashItem
<1> DEFINE h == d.hash[k]
<1>1. h \in HashItem
  BY DBFields
<1> HIDE DEF h
<1>2. c.op = "HSET" => Overwrite(h, c.pairs) \in HashItem
  <2> SUFFICES ASSUME c.op = "HSET" PROVE Overwrite(h, c.pairs) \in HashItem
    OBVIOUS
  <2> DEFINE p == c.pairs
             o == Overwrite(h, p)
  <2>1. p \in HashItem
    BY CommandFields
  <2> HIDE DEF p
  <2>2. o = [f \in DOMAIN o |-> o[f]] /\ DOMAIN o = DOMAIN p \cup DOMAIN h
        /\ \A f \in DOMAIN o : o[f] = IF f \in DOMAIN p THEN p[f] ELSE h[f]
    BY DEF Overwrite
  <2> HIDE DEF o
  <2>3. o \in HashItem
    BY <1>1, <2>1, <2>2, HashItems
  <2> QED
    BY <2>3 DEF o, p
<1>3. c.op = "HDEL" => [f \in DOMAIN h \ c.fields |-> h[f]] \in HashItem
  BY <1>1, HashItems
<1> QED
  BY <1>1, <1>2, <1>3 DEF HashAfter, h

(* A command of the right type, or a log of them, keeps a database one.    *)
LEMMA ExecTyped ==
  ASSUME NEW t \in Nat, NEW d \in DBType, NEW c \in Command
  PROVE  Exec(d, c, t) \in DBType
<1>1. [k \in Key |-> DictAfter(d, c, k, t)] \in [Key -> DictItem \cup {Absent}]
  BY DictTyped
<1>2. [k \in Key |-> SetAfter(d, c, k, t)] \in [Key -> SetItem \cup {Absent}]
  BY SetTyped
<1>3. [k \in Key |-> ListAfter(d, c, k)] \in [Key -> Seq(Value)]
  BY ListTyped
<1>4. [k \in Key |-> HashAfter(d, c, k)] \in [Key -> HashItem]
  BY HashTyped
<1> DEFINE D == [k \in Key |-> DictAfter(d, c, k, t)]
           S == [k \in Key |-> SetAfter(d, c, k, t)]
           L == [k \in Key |-> ListAfter(d, c, k)]
           H == [k \in Key |-> HashAfter(d, c, k)]
<1>5. Exec(d, c, t) = [dict |-> D, set |-> S, list |-> L, hash |-> H]
  BY ExecIs
<1> HIDE DEF D, S, L, H
<1>6. [dict |-> D, set |-> S, list |-> L, hash |-> H] \in DBType
  <2>1. /\ D \in [Key -> DictItem \cup {Absent}] /\ S \in [Key -> SetItem \cup {Absent}]
        /\ L \in [Key -> Seq(Value)] /\ H \in [Key -> HashItem]
    BY <1>1, <1>2, <1>3, <1>4 DEF D, S, L, H
  <2> QED
    BY <2>1 DEF DBType
<1> QED
  BY <1>5, <1>6

LEMMA EmptyTyped == EmptyDB \in DBType
<1>1. << >> \in HashItem
  <2>1. DOMAIN << >> = {} /\ << >> = [f \in DOMAIN << >> |-> << >>[f]]
    OBVIOUS
  <2> QED
    BY <2>1, HashItems
<1> QED
  BY <1>1 DEF EmptyDB, DBType

LEMMA ReplayTyped ==
  ASSUME NEW t \in Nat, NEW d \in DBType, NEW L \in Seq(Command)
  PROVE  Replayed(d, L, t) \in DBType
  BY ReplayKeeps, ExecTyped

-----------------------------------------------------------------------------
(* What a log of records does to one item.                                 *)

(* The commands that the handlers and the rewrite write to the AOF.        *)
Loggable ==
  {c \in Command : /\ c.op \notin {"LPOP", "RPOP", "EXPIRE", "SEXPIRE", "SEXPIREAT"}
                   /\ c.op = "SET" => c.ttl = 0}

(* Records are commands, so replay of a log keeps a database one.          *)
LEMMA LogsAreCommands == Seq(Loggable) \subseteq Seq(Command)
<1> SUFFICES ASSUME NEW L \in Seq(Loggable) PROVE L \in Seq(Command)
  OBVIOUS
<1>1. Len(L) \in Nat /\ L = [i \in 1 .. Len(L) |-> L[i]] /\ \A i \in 1 .. Len(L) : L[i] \in Loggable
  OBVIOUS
<1>2. \A i \in 1 .. Len(L) : L[i] \in Command
  BY <1>1 DEF Loggable
<1> QED
  BY <1>1, <1>2

LEMMA LogTyped ==
  ASSUME NEW t \in Nat, NEW d \in DBType, NEW L \in Seq(Loggable)
  PROVE  Replayed(d, L, t) \in DBType
  BY LogsAreCommands, ReplayTyped

(* The stores by name, the commands on each, the items a command names.    *)
StoreNames == {"dict", "set", "list", "hash"}

OpsOn == [dict |-> {"SET", "DEL", "EXPIRE", "PEXPIREAT"}, set |-> {"SADD", "SREM", "SEXPIRE", "SEXPIREAT"},
          list |-> {"LPUSH", "RPUSH", "LPOP", "RPOP", "SORT"}, hash |-> {"HSET", "HDEL"}]

Touches(c, s, k) == c.op \in OpsOn[s] /\ k \in KeysOf(c)

(* What durability is about: the item of the dict, the members of a set,   *)
(* the list, the fields of a hash.                                         *)
View(d, s, k) ==
  CASE s = "dict" -> d.dict[k]
    [] s = "set"  -> Members(d.set[k])
    [] s = "list" -> d.list[k]
    [] s = "hash" -> DOMAIN d.hash[k]

(* The views of a database after a command; one it does not name is the    *)
(* same.                                                                   *)
LEMMA ExecViews ==
  ASSUME NEW t \in Nat, NEW d \in DBType, NEW c \in Command, NEW k \in Key
  PROVE  /\ Exec(d, c, t) \in DBType
         /\ View(Exec(d, c, t), "dict", k) = DictAfter(d, c, k, t)
         /\ View(Exec(d, c, t), "set", k) = Members(SetAfter(d, c, k, t))
         /\ View(Exec(d, c, t), "list", k) = ListAfter(d, c, k)
         /\ View(Exec(d, c, t), "hash", k) = DOMAIN HashAfter(d, c, k)
<1>1. Exec(d, c, t) \in DBType
  BY ExecTyped
<1>2. /\ Exec(d, c, t).dict[k] = DictAfter(d, c, k, t)
      /\ Exec(d, c, t).set[k] = SetAfter(d, c, k, t)
      /\ Exec(d, c, t).list[k] = ListAfter(d, c, k)
      /\ Exec(d, c, t).hash[k] = HashAfter(d, c, k)
  BY ExecIs
<1> QED
  BY <1>1, <1>2 DEF View

LEMMA UntouchedByOne ==
  ASSUME NEW t \in Nat, NEW d \in DBType, NEW c \in Command, NEW s \in StoreNames, NEW k \in Key,
         ~Touches(c, s, k)
  PROVE  View(Exec(d, c, t), s, k) = View(d, s, k)
<1>1. CASE s = "dict"
  <2>1. c.op \in {"SET", "DEL", "EXPIRE", "PEXPIREAT"} => k \notin KeysOf(c)
    BY <1>1 DEF Touches, OpsOn
  <2>2. c.op \in {"SET", "DEL", "EXPIRE", "PEXPIREAT"} => IF c.op = "DEL" THEN k \notin c.keys ELSE k # c.key
    BY <2>1 DEF KeysOf
  <2>3. DictAfter(d, c, k, t) = d.dict[k]
    BY <2>2 DEF DictAfter
  <2> QED
    BY <1>1, <2>3, ExecViews DEF View
<1>2. CASE s = "set"
  BY <1>2, ExecViews, CommandFields DEF View, Touches, OpsOn, KeysOf, SetAfter
<1>3. CASE s = "list"
  BY <1>3, ExecViews, CommandFields DEF View, Touches, OpsOn, KeysOf, ListAfter
<1>4. CASE s = "hash"
  <2>1. c.op \in {"HSET", "HDEL"} => k \notin KeysOf(c)
    BY <1>4 DEF Touches, OpsOn
  <2>2. c.op \in {"HSET", "HDEL"} => IF c.op = "DEL" THEN k \notin c.keys ELSE k # c.key
    BY <2>1 DEF KeysOf
  <2>3. HashAfter(d, c, k) = d.hash[k]
    BY <2>2 DEF HashAfter
  <2> QED
    BY <1>4, <2>3, ExecViews DEF View
<1> QED
  BY <1>1, <1>2, <1>3, <1>4 DEF StoreNames

(* A log that names an item nowhere leaves it alone.                       *)
Leaves(L, s, k) == \A i \in DOMAIN L : ~Touches(L[i], s, k)

LEMMA Untouched ==
  ASSUME NEW t \in Nat, NEW d \in DBType, NEW L \in Seq(Command), NEW s \in StoreNames, NEW k \in Key,
         Leaves(L, s, k)
  PROVE  View(Replayed(d, L, t), s, k) = View(d, s, k)
<1> DEFINE C == {c \in Command : ~Touches(c, s, k)}
           S == {x \in DBType : View(x, s, k) = View(d, s, k)}
<1>1. L \in Seq(C)
  <2>1. Len(L) \in Nat /\ L = [i \in 1 .. Len(L) |-> L[i]] /\ DOMAIN L = 1 .. Len(L)
        /\ \A i \in 1 .. Len(L) : L[i] \in Command
    OBVIOUS
  <2>2. \A i \in 1 .. Len(L) : L[i] \in C
    BY <2>1 DEF Leaves
  <2> HIDE DEF C
  <2> QED
    BY <2>1, <2>2
<1>2. ASSUME NEW x \in S, NEW c \in C PROVE Exec(x, c, t) \in S
  BY ExecTyped, UntouchedByOne
<1>3. d \in S
  OBVIOUS
<1> HIDE DEF C, S
<1>4. Replayed(d, L, t) \in S
  BY <1>1, <1>2, <1>3, ReplayKeeps
<1> QED
  BY <1>4 DEF S

(* On an item of the dict a log replayed at one time is one of three       *)
(* things: nothing, another deadline for what is there, or an item of its  *)
(* own.                                                                    *)
DictItems == DictItem \cup {Absent}

Dated(x, at) == IF x = Absent THEN Absent ELSE [x EXCEPT !.deadline = at]

DictEffects ==
  {f \in [DictItems -> DictItems] :
     \/ \A x \in DictItems : f[x] = x
     \/ \E at \in Nat : \A x \in DictItems : f[x] = Dated(x, at)
     \/ \E y \in DictItems : \A x \in DictItems : f[x] = y}

(* The three are closed under composition, and every record does one of    *)
(* them.                                                                   *)
LEMMA DatedTwice ==
  ASSUME NEW x \in DictItems, NEW a \in Nat, NEW b \in Nat
  PROVE  Dated(Dated(x, a), b) = Dated(x, b) /\ Dated(x, a) \in DictItems
  BY DatabaseAssumption DEF DictItems, DictItem, Dated

LEMMA DictEffectOfOne ==
  ASSUME NEW t \in Nat, NEW c \in Loggable, NEW k \in Key
  PROVE  \E f \in DictEffects : \A d \in DBType : View(Exec(d, c, t), "dict", k) = f[View(d, "dict", k)]
<1>1. c \in Command /\ c.op # "EXPIRE"
  BY DEF Loggable
<1>2. \A d \in DBType : View(d, "dict", k) = d.dict[k] /\ d.dict[k] \in DictItems
  BY DBFields DEF View, DictItems
<1>3. \A d \in DBType : View(Exec(d, c, t), "dict", k) = DictAfter(d, c, k, t)
  BY <1>1, ExecViews
<1> DEFINE id == [x \in DictItems |-> x]
           dated(at) == [x \in DictItems |-> Dated(x, at)]
           const(y) == [x \in DictItems |-> y]
<1>4. /\ id \in DictEffects /\ \A y \in DictItems : const(y) \in DictEffects
      /\ \A at \in Nat : dated(at) \in DictEffects
  <2>1. id \in DictEffects /\ \A y \in DictItems : const(y) \in DictEffects
    BY DEF DictEffects
  <2>2. ASSUME NEW at \in Nat PROVE dated(at) \in DictEffects
    <3>1. \A x \in DictItems : Dated(x, at) \in DictItems
      BY DatedTwice
    <3> QED
      BY <3>1 DEF DictEffects
  <2> QED
    BY <2>1, <2>2
<1>5. CASE ~Touches(c, "dict", k)
  <2>1. \A d \in DBType : View(Exec(d, c, t), "dict", k) = id[View(d, "dict", k)]
    BY <1>1, <1>2, <1>5, UntouchedByOne DEF StoreNames
  <2> QED
    BY <1>4, <2>1
<1>6. CASE c.op = "SET" /\ k = c.key
  <2> DEFINE y == [value |-> c.val, deadline |-> Due(c.ttl, t)]
  <2>1. y \in DictItems
    BY <1>1, <1>6, CommandFields DEF DictItems, DictItem, Due
  <2>2. \A d \in DBType : View(Exec(d, c, t), "dict", k) = const(y)[View(d, "dict", k)]
    BY <1>2, <1>3, <1>6 DEF DictAfter
  <2> QED
    BY <1>4, <2>1, <2>2
<1>7. CASE c.op = "DEL" /\ k \in c.keys
  <2>1. \A d \in DBType : View(Exec(d, c, t), "dict", k) = const(Absent)[View(d, "dict", k)]
    BY <1>2, <1>3, <1>7 DEF DictAfter
  <2>2. Absent \in DictItems
    BY DEF DictItems
  <2> QED
    BY <1>4, <2>1, <2>2
<1>8. CASE c.op = "PEXPIREAT" /\ k = c.key /\ Past(c.at, t)
  <2>1. \A d \in DBType : View(Exec(d, c, t), "dict", k) = const(Absent)[View(d, "dict", k)]
    BY <1>2, <1>3, <1>8 DEF DictAfter, Redated
  <2>2. Absent \in DictItems
    BY DEF DictItems
  <2> QED
    BY <1>4, <2>1, <2>2
<1>9. CASE c.op = "PEXPIREAT" /\ k = c.key /\ ~Past(c.at, t)
  <2>1. \A d \in DBType : View(Exec(d, c, t), "dict", k) = dated(c.at)[View(d, "dict", k)]
    BY <1>2, <1>3, <1>9 DEF DictAfter, Redated, Dated
  <2>2. c.at \in Nat
    BY <1>1, <1>9, CommandFields
  <2> QED
    BY <1>4, <2>1, <2>2
<1>10. Touches(c, "dict", k) =>
         \/ c.op \in {"SET", "PEXPIREAT"} /\ k = c.key
         \/ c.op = "DEL" /\ k \in c.keys
  <2>1. Touches(c, "dict", k) => c.op \in {"SET", "DEL", "PEXPIREAT"} /\ k \in KeysOf(c)
    BY <1>1 DEF Touches, OpsOn
  <2> QED
    BY <2>1 DEF KeysOf
<1> QED
  BY <1>5, <1>6, <1>7, <1>8, <1>9, <1>10

LEMMA DictEffectsCompose ==
  ASSUME NEW f \in DictEffects, NEW g \in DictEffects
  PROVE  [x \in DictItems |-> g[f[x]]] \in DictEffects
<1> DEFINE h == [x \in DictItems |-> g[f[x]]]
<1>1. f \in [DictItems -> DictItems] /\ g \in [DictItems -> DictItems]
  BY DEF DictEffects
<1>2. h \in [DictItems -> DictItems] /\ \A x \in DictItems : h[x] = g[f[x]]
  BY <1>1
<1> HIDE DEF h
<1>3. CASE \A x \in DictItems : g[x] = x
  BY <1>1, <1>2, <1>3 DEF DictEffects
<1>4. CASE \A x \in DictItems : f[x] = x
  BY <1>1, <1>2, <1>4 DEF DictEffects
<1>5. CASE \E y \in DictItems : \A x \in DictItems : g[x] = y
  BY <1>1, <1>2, <1>5 DEF DictEffects
<1>6. CASE \E y \in DictItems : \A x \in DictItems : f[x] = y
  <2>1. PICK y \in DictItems : \A x \in DictItems : f[x] = y
    BY <1>6
  <2>2. g[y] \in DictItems /\ \A x \in DictItems : h[x] = g[y]
    BY <1>1, <1>2, <2>1
  <2> QED
    BY <1>2, <2>2 DEF DictEffects
<1>7. CASE /\ ~ \A x \in DictItems : f[x] = x
           /\ ~ \E y \in DictItems : \A x \in DictItems : f[x] = y
           /\ ~ \A x \in DictItems : g[x] = x
           /\ ~ \E y \in DictItems : \A x \in DictItems : g[x] = y
  <2>1. PICK a \in Nat : \A x \in DictItems : f[x] = Dated(x, a)
    BY <1>7 DEF DictEffects
  <2>2. PICK b \in Nat : \A x \in DictItems : g[x] = Dated(x, b)
    BY <1>7 DEF DictEffects
  <2>3. \A x \in DictItems : h[x] = Dated(x, b)
    BY <1>1, <1>2, <2>1, <2>2, DatedTwice
  <2> QED
    BY <1>2, <2>3 DEF DictEffects
<1> QED
  BY <1>3, <1>4, <1>5, <1>6, <1>7

LEMMA DictEffect ==
  ASSUME NEW t \in Nat, NEW L \in Seq(Loggable), NEW k \in Key
  PROVE  \E f \in DictEffects : \A d \in DBType : View(Replayed(d, L, t), "dict", k) = f[View(d, "dict", k)]
<1> DEFINE T == {M \in Seq(Loggable) :
                   \E f \in DictEffects : \A d \in DBType :
                     View(Replayed(d, M, t), "dict", k) = f[View(d, "dict", k)]}
<1>1. \A d \in DBType : View(d, "dict", k) \in DictItems
  BY DBFields DEF View, DictItems
<1>2. << >> \in T
  <2> DEFINE id == [x \in DictItems |-> x]
  <2>1. id \in DictEffects
    BY DEF DictEffects
  <2>2. \A d \in DBType : View(Replayed(d, << >>, t), "dict", k) = id[View(d, "dict", k)]
    BY <1>1, ReplayEmpty
  <2> HIDE DEF id
  <2> QED
    BY <2>1, <2>2
<1>3. ASSUME NEW M \in Seq(Loggable), NEW c \in Loggable, M \in T PROVE Append(M, c) \in T
  <2>1. PICK f \in DictEffects : \A d \in DBType : View(Replayed(d, M, t), "dict", k) = f[View(d, "dict", k)]
    BY <1>3
  <2>2. PICK g \in DictEffects : \A d \in DBType : View(Exec(d, c, t), "dict", k) = g[View(d, "dict", k)]
    BY DictEffectOfOne
  <2> DEFINE h == [x \in DictItems |-> g[f[x]]]
  <2>3. h \in DictEffects
    BY DictEffectsCompose
  <2>4. ASSUME NEW d \in DBType
        PROVE  View(Replayed(d, Append(M, c), t), "dict", k) = h[View(d, "dict", k)]
    <3>1. Replayed(d, Append(M, c), t) = Exec(Replayed(d, M, t), c, t)
      BY ReplayAppend
    <3>2. Replayed(d, M, t) \in DBType
      BY LogTyped
    <3> QED
      BY <1>1, <2>1, <2>2, <3>1, <3>2
  <2>5. Append(M, c) \in Seq(Loggable)
    OBVIOUS
  <2> HIDE DEF h
  <2> QED
    BY <2>3, <2>4, <2>5
<1> HIDE DEF T
<1>4. L \in T
  BY <1>2, <1>3, LogInduction
<1> QED
  BY <1>4 DEF T

(* On the members of a set, or the fields of a hash, a log takes some away *)
(* and adds some.                                                          *)
Edits(v, w, D, A) == w = (v \ D) \cup A

(* Edits too: every record does one, so a log does one.                    *)
LEMMA EditOfOne ==
  ASSUME NEW t \in Nat, NEW c \in Loggable, NEW s \in {"set", "hash"}, NEW k \in Key
  PROVE  \E D, A : \A d \in DBType : Edits(View(d, s, k), View(Exec(d, c, t), s, k), D, A)
<1>1. c \in Command /\ c.op \notin {"SEXPIRE", "SEXPIREAT"} /\ s \in StoreNames
  BY DEF Loggable, StoreNames
<1>2. \A d \in DBType : /\ s = "set" => View(d, s, k) = Members(d.set[k])
                        /\ s = "hash" => View(d, s, k) = DOMAIN d.hash[k]
                        /\ s = "set" => View(Exec(d, c, t), s, k) = Members(SetAfter(d, c, k, t))
                        /\ s = "hash" => View(Exec(d, c, t), s, k) = DOMAIN HashAfter(d, c, k)
                        /\ d.set[k] \in SetItem \cup {Absent}
  BY <1>1, ExecViews, DBFields DEF View
<1>3. CASE ~Touches(c, s, k)
  <2>1. \A d \in DBType : Edits(View(d, s, k), View(Exec(d, c, t), s, k), {}, {})
    BY <1>1, <1>3, UntouchedByOne DEF Edits
  <2> QED
    BY <2>1
<1>4. CASE s = "set" /\ c.op = "SADD" /\ k = c.key
  <2>1. \A d \in DBType : SetAfter(d, c, k, t) = Sadd(d.set[k], c.members)
    BY <1>4 DEF SetAfter
  <2>2. \A i \in SetItem \cup {Absent} : Members(Sadd(i, c.members)) = Members(i) \cup c.members
    <3>1. c.members \in (SUBSET Value) \ {{}}
      BY <1>1, <1>4, CommandFields
    <3>2. [members |-> c.members, deadline |-> 0] \in SetItem
      BY <3>1 DEF SetItem
    <3>3. \A i \in SetItem : [i EXCEPT !.members = @ \cup c.members] \in SetItem
      BY <3>1 DEF SetItem
    <3>4. \A i \in SetItem : i # Absent /\ [i EXCEPT !.members = @ \cup c.members].members = i.members \cup c.members
      BY DatabaseAssumption DEF SetItem
    <3> QED
      BY <3>2, <3>3, <3>4, DatabaseAssumption DEF Members, Sadd
  <2>3. \A d \in DBType : Edits(View(d, s, k), View(Exec(d, c, t), s, k), {}, c.members)
    BY <1>2, <1>4, <2>1, <2>2 DEF Edits
  <2> QED
    BY <2>3
<1>5. CASE s = "set" /\ c.op = "SREM" /\ k = c.key
  <2>1. \A d \in DBType : SetAfter(d, c, k, t) = Srem(d.set[k], c.members)
    BY <1>5 DEF SetAfter
  <2>2. \A i \in SetItem \cup {Absent} : Members(Srem(i, c.members)) = Members(i) \ c.members
    BY DatabaseAssumption DEF Members, Srem, SetItem
  <2>3. \A d \in DBType : Edits(View(d, s, k), View(Exec(d, c, t), s, k), c.members, {})
    BY <1>2, <1>5, <2>1, <2>2 DEF Edits
  <2> QED
    BY <2>3
<1>6. CASE s = "hash" /\ c.op = "HSET" /\ k = c.key
  <2>1. \A d \in DBType : HashAfter(d, c, k) = Overwrite(d.hash[k], c.pairs)
    BY <1>6 DEF HashAfter
  <2>2. \A d \in DBType : DOMAIN HashAfter(d, c, k) = DOMAIN c.pairs \cup DOMAIN d.hash[k]
    BY <2>1 DEF Overwrite
  <2>3. \A d \in DBType : Edits(View(d, s, k), View(Exec(d, c, t), s, k), {}, DOMAIN c.pairs)
    BY <1>2, <1>6, <2>2 DEF Edits
  <2> QED
    BY <2>3
<1>7. CASE s = "hash" /\ c.op = "HDEL" /\ k = c.key
  <2>1. \A d \in DBType : HashAfter(d, c, k) = [f \in DOMAIN d.hash[k] \ c.fields |-> d.hash[k][f]]
    BY <1>7 DEF HashAfter
  <2>2. \A d \in DBType : DOMAIN HashAfter(d, c, k) = DOMAIN d.hash[k] \ c.fields
    BY <2>1, Zenon
  <2>3. ASSUME NEW d \in DBType PROVE Edits(View(d, s, k), View(Exec(d, c, t), s, k), c.fields, {})
    <3>1. View(d, s, k) = DOMAIN d.hash[k] /\ View(Exec(d, c, t), s, k) = DOMAIN HashAfter(d, c, k)
      BY <1>2, <1>7
    <3>2. DOMAIN HashAfter(d, c, k) = DOMAIN d.hash[k] \ c.fields
      BY <2>2
    <3> QED
      BY <3>1, <3>2 DEF Edits
  <2> QED
    BY <2>3
<1>8. Touches(c, s, k) => c.op # "DEL" /\ k = c.key
                          /\ (s = "set" => c.op \in {"SADD", "SREM"})
                          /\ (s = "hash" => c.op \in {"HSET", "HDEL"})
  <2>1. CASE s = "set"
    BY <1>1, <2>1 DEF Touches, OpsOn, KeysOf
  <2>2. CASE s = "hash"
    BY <1>1, <2>2 DEF Touches, OpsOn, KeysOf
  <2> QED
    BY <2>1, <2>2
<1> QED
  BY <1>3, <1>4, <1>5, <1>6, <1>7, <1>8

LEMMA Edit ==
  ASSUME NEW t \in Nat, NEW L \in Seq(Loggable), NEW s \in {"set", "hash"}, NEW k \in Key
  PROVE  \E D, A : \A d \in DBType : Edits(View(d, s, k), View(Replayed(d, L, t), s, k), D, A)
<1> DEFINE T == {M \in Seq(Loggable) :
                   \E D, A : \A d \in DBType : Edits(View(d, s, k), View(Replayed(d, M, t), s, k), D, A)}
<1>1. << >> \in T
  <2>1. \A d \in DBType : Edits(View(d, s, k), View(Replayed(d, << >>, t), s, k), {}, {})
    BY ReplayEmpty DEF Edits
  <2> QED
    BY <2>1
<1>2. ASSUME NEW M \in Seq(Loggable), NEW c \in Loggable, M \in T PROVE Append(M, c) \in T
  <2>1. PICK D, A : \A d \in DBType : Edits(View(d, s, k), View(Replayed(d, M, t), s, k), D, A)
    BY <1>2
  <2>2. PICK E, B : \A d \in DBType : Edits(View(d, s, k), View(Exec(d, c, t), s, k), E, B)
    BY EditOfOne
  <2>3. ASSUME NEW d \in DBType
        PROVE  Edits(View(d, s, k), View(Replayed(d, Append(M, c), t), s, k), D \cup E, (A \ E) \cup B)
    <3>1. Replayed(d, Append(M, c), t) = Exec(Replayed(d, M, t), c, t)
      BY ReplayAppend
    <3>2. Replayed(d, M, t) \in DBType
      BY LogTyped
    <3>3. View(Exec(Replayed(d, M, t), c, t), s, k) = (View(Replayed(d, M, t), s, k) \ E) \cup B
      BY <2>2, <3>2 DEF Edits
    <3>4. View(Replayed(d, M, t), s, k) = (View(d, s, k) \ D) \cup A
      BY <2>1 DEF Edits
    <3> QED
      BY <3>1, <3>3, <3>4 DEF Edits
  <2>4. Append(M, c) \in Seq(Loggable)
    OBVIOUS
  <2> QED
    BY <2>3, <2>4
<1> HIDE DEF T
<1>3. L \in T
  BY <1>1, <1>2, LogInduction
<1> QED
  BY <1>3 DEF T

(* A log replayed on top of its own result changes nothing more.           *)
LEMMA TwiceIsOnce ==
  ASSUME NEW t \in Nat, NEW d \in DBType, NEW L \in Seq(Loggable), NEW s \in {"dict", "set", "hash"}, NEW k \in Key
  PROVE  View(Replayed(Replayed(d, L, t), L, t), s, k) = View(Replayed(d, L, t), s, k)
<1>1. Replayed(d, L, t) \in DBType
  BY LogTyped
<1>2. CASE s = "dict"
  <2>1. PICK f \in DictEffects : \A x \in DBType : View(Replayed(x, L, t), "dict", k) = f[View(x, "dict", k)]
    BY DictEffect
  <2> DEFINE v == View(d, "dict", k)
  <2>2. v \in DictItems
    BY DBFields DEF View, DictItems
  <2> HIDE DEF v
  <2>3. f[f[v]] = f[v]
    BY <2>2, DatedTwice DEF DictEffects
  <2> QED
    BY <1>1, <1>2, <2>1, <2>3 DEF v
<1>3. CASE s \in {"set", "hash"}
  <2>1. PICK D, A : \A x \in DBType : Edits(View(x, s, k), View(Replayed(x, L, t), s, k), D, A)
    BY <1>3, Edit
  <2>2. View(Replayed(d, L, t), s, k) = (View(d, s, k) \ D) \cup A
    BY <2>1 DEF Edits
  <2>3. View(Replayed(Replayed(d, L, t), L, t), s, k) = (View(Replayed(d, L, t), s, k) \ D) \cup A
    BY <1>1, <2>1 DEF Edits
  <2> QED
    BY <2>2, <2>3
<1> QED
  BY <1>2, <1>3

-----------------------------------------------------------------------------
(* Lists, and which databases a log cannot tell apart.                     *)

(* How often an element is in a list.                                      *)
At(l, v) == {i \in 1 .. Len(l) : l[i] = v}

(* Occurrences, which Persistence counts with a set of positions, is that. *)
LEMMA OccurrencesAre ==
  ASSUME NEW C, NEW l \in Seq(C), NEW v
  PROVE  /\ Occurrences(l, v) = Cardinality(At(l, v))
         /\ IsFiniteSet(At(l, v)) /\ Occurrences(l, v) \in Nat
<1>1. At(l, v) \subseteq 1 .. Len(l) /\ Len(l) \in Nat /\ DOMAIN l = 1 .. Len(l)
  BY DEF At
<1>2. IsFiniteSet(At(l, v))
  <2>1. IsFiniteSet(1 .. Len(l))
    BY <1>1, FS_Interval
  <2> QED
    BY <1>1, <2>1, FS_Subset
<1>3. Occurrences(l, v) = Cardinality(At(l, v))
  BY <1>1 DEF Occurrences, At
<1> QED
  BY <1>2, <1>3, FS_CardinalityType

(* A part of a list has no element more often than the list.               *)
LEMMA OccurrencesOfPart ==
  ASSUME NEW C, NEW l \in Seq(C), NEW a \in Nat, a >= 1, NEW b \in Int, b <= Len(l), NEW v
  PROVE  Occurrences(SubSeq(l, a, b), v) <= Occurrences(l, v)
<1> DEFINE p == SubSeq(l, a, b)
           A == At(p, v)
           B == At(l, v)
           f == [i \in A |-> i + a - 1]
<1>1. /\ p \in Seq(C)
      /\ \A i \in 1 .. Len(p) : i + a - 1 \in 1 .. Len(l) /\ p[i] = l[i + a - 1]
  <2>1. CASE a <= b
    BY <2>1
  <2>2. CASE ~(a <= b)
    BY <2>2
  <2> QED
    BY <2>1, <2>2
<1> HIDE DEF p
<1>2. f \in [A -> B]
  BY <1>1 DEF At
<1>3. \A i, j \in A : f[i] = f[j] => i = j
  BY <1>1 DEF At
<1>4. f \in Injection(A, B)
  BY <1>2, <1>3 DEF Injection, IsInjective
<1>5. /\ IsFiniteSet(B) /\ Occurrences(l, v) = Cardinality(B)
      /\ Occurrences(p, v) = Cardinality(A)
  BY <1>1, OccurrencesAre
<1> HIDE DEF A, B, f
<1>6. Cardinality(A) <= Cardinality(B)
  BY <1>4, <1>5, FS_Injection
<1> QED
  BY <1>5, <1>6 DEF p

(* Elements of two lists together.                                         *)
LEMMA OccurrencesOfBoth ==
  ASSUME NEW C, NEW l \in Seq(C), NEW m \in Seq(C), NEW v
  PROVE  Occurrences(l \o m, v) = Occurrences(l, v) + Occurrences(m, v)
<1> DEFINE a == Len(l)
           b == Len(m)
           lm == l \o m
           A == At(l, v)
           B == At(m, v)
           M == {i \in a + 1 .. a + b : m[i - a] = v}
           f == [i \in B |-> i + a]
<1>1. /\ a \in Nat /\ b \in Nat /\ lm \in Seq(C) /\ Len(lm) = a + b
      /\ \A i \in 1 .. a : lm[i] = l[i]
      /\ \A i \in a + 1 .. a + b : lm[i] = m[i - a]
  OBVIOUS
<1>2. At(lm, v) = A \cup M
  <2> HIDE DEF lm
  <2>1. ASSUME NEW i PROVE i \in At(lm, v) <=> i \in A \cup M
    <3>1. CASE i \in 1 .. a
      BY <1>1, <3>1 DEF At
    <3>2. CASE i \notin 1 .. a
      BY <1>1, <3>2 DEF At
    <3> QED
      BY <3>1, <3>2
  <2> QED
    BY <2>1
<1>3. A \cap M = {}
  BY <1>1 DEF At
<1>4. f \in Bijection(B, M)
  <2>1. f \in [B -> M]
    BY <1>1 DEF At
  <2>2. \A i, j \in B : f[i] = f[j] => i = j
    BY <1>1 DEF At
  <2>3. ASSUME NEW n \in M PROVE \E i \in B : f[i] = n
    <3>1. n - a \in B /\ n - a + a = n
      BY <1>1 DEF At
    <3> QED
      BY <3>1
  <2> HIDE DEF f, B, M
  <2> QED
    BY <2>1, <2>2, <2>3 DEF Bijection, Injection, Surjection, IsInjective
<1>5. /\ IsFiniteSet(A) /\ Occurrences(l, v) = Cardinality(A)
      /\ IsFiniteSet(B) /\ Occurrences(m, v) = Cardinality(B)
      /\ Occurrences(lm, v) = Cardinality(At(lm, v))
      /\ Occurrences(l, v) \in Nat /\ Occurrences(m, v) \in Nat
  BY <1>1, OccurrencesAre
<1> HIDE DEF A, B, M, f, lm
<1>6. IsFiniteSet(M) /\ Cardinality(M) = Cardinality(B)
  BY <1>4, <1>5, FS_Bijection DEF ExistsBijection
<1>7. Cardinality(A \cup M) = Cardinality(A) + Cardinality(M) - Cardinality({})
  BY <1>3, <1>5, <1>6, FS_Union
<1> QED
  BY <1>2, <1>5, <1>6, <1>7, FS_EmptySet DEF lm

(* Two databases agree about an item; about a list of which elements were  *)
(* popped, that nothing is missing.                                        *)
Covers(a, b, s, k, pops) ==
  IF s = "list" /\ pops
  THEN \A v \in Value : Occurrences(b.list[k], v) <= Occurrences(a.list[k], v)
  ELSE View(a, s, k) = View(b, s, k)

(* A record done to both of two databases keeps them in agreement; SORT    *)
(* and pushes cannot lose an element that was there.                       *)
LEMMA CoversOne ==
  ASSUME NEW t \in Nat, NEW a \in DBType, NEW b \in DBType, NEW c \in Loggable,
         NEW s \in StoreNames, NEW k \in Key, NEW pops, Covers(a, b, s, k, pops)
  PROVE  Covers(Exec(a, c, t), Exec(b, c, t), s, k, pops)
<1>1. c \in Command
  BY DEF Loggable
<1>2. CASE s = "list"
  <2>1. /\ a.list[k] \in Seq(Value) /\ b.list[k] \in Seq(Value)
        /\ View(a, s, k) = a.list[k] /\ View(b, s, k) = b.list[k]
    BY <1>2, DBFields DEF View
  <2>2. /\ Exec(a, c, t).list[k] = ListAfter(a, c, k) /\ Exec(b, c, t).list[k] = ListAfter(b, c, k)
        /\ View(Exec(a, c, t), s, k) = ListAfter(a, c, k) /\ View(Exec(b, c, t), s, k) = ListAfter(b, c, k)
    BY <1>1, <1>2, ExecViews DEF View
  <2>3. CASE ~pops
    <3>1. a.list[k] = b.list[k]
      BY <1>2, <2>1, <2>3 DEF Covers
    <3>2. ListAfter(a, c, k) = ListAfter(b, c, k)
      BY <3>1 DEF ListAfter
    <3> QED
      BY <2>2, <2>3, <3>2 DEF Covers
  <2>4. CASE pops
    <3>1. \A v \in Value : Occurrences(b.list[k], v) <= Occurrences(a.list[k], v)
      BY <1>2, <2>4 DEF Covers
    <3>2. ASSUME NEW v \in Value
          PROVE  Occurrences(ListAfter(b, c, k), v) <= Occurrences(ListAfter(a, c, k), v)
      <4> DEFINE la == a.list[k]
                 lb == b.list[k]
      <4>1. /\ Occurrences(lb, v) <= Occurrences(la, v)
            /\ Occurrences(lb, v) \in Nat /\ Occurrences(la, v) \in Nat
        BY <2>1, <3>1, OccurrencesAre
      <4>2. CASE c.op \in {"LPUSH", "RPUSH"} /\ k = c.key
        <5> DEFINE x == c.vals
                   y == Reverse(x)
        <5>1. x \in Seq(Value)
          BY <1>1, <4>2, CommandFields
        <5>2. y \in Seq(Value)
          BY <5>1 DEF Reverse
        <5>3. /\ c.op = "LPUSH" => ListAfter(a, c, k) = y \o la /\ ListAfter(b, c, k) = y \o lb
              /\ c.op = "RPUSH" => ListAfter(a, c, k) = la \o x /\ ListAfter(b, c, k) = lb \o x
          BY <4>2 DEF ListAfter
        <5>4. la \in Seq(Value) /\ lb \in Seq(Value)
          BY <2>1
        <5> HIDE DEF la, lb, x, y
        <5>5. /\ Occurrences(y \o la, v) = Occurrences(y, v) + Occurrences(la, v)
              /\ Occurrences(y \o lb, v) = Occurrences(y, v) + Occurrences(lb, v)
              /\ Occurrences(la \o x, v) = Occurrences(la, v) + Occurrences(x, v)
              /\ Occurrences(lb \o x, v) = Occurrences(lb, v) + Occurrences(x, v)
          BY <5>1, <5>2, <5>4, OccurrencesOfBoth
        <5>6. Occurrences(x, v) \in Nat /\ Occurrences(y, v) \in Nat
          BY <5>1, <5>2, OccurrencesAre
        <5>7. /\ Occurrences(y \o lb, v) <= Occurrences(y \o la, v)
              /\ Occurrences(lb \o x, v) <= Occurrences(la \o x, v)
          BY <4>1, <5>5, <5>6
        <5> QED
          BY <4>2, <5>3, <5>7
      <4>3. CASE c.op = "SORT" /\ k = c.key
        <5> DEFINE asc == c.asc
        <5>1. asc \in BOOLEAN
          BY <1>1, <4>3, CommandFields
        <5>2. ListAfter(a, c, k) = Sorted(la, asc) /\ ListAfter(b, c, k) = Sorted(lb, asc)
          BY <4>3 DEF ListAfter
        <5>3. la \in Seq(Int) /\ lb \in Seq(Int)
          BY <2>1, IntegerLists
        <5> HIDE DEF asc, la, lb
        <5>4. \A l \in Seq(Int) : Occurrences(Sorted(l, asc), v) = Occurrences(l, v)
          BY <5>1, SortedIs, Zenon
        <5> QED
          BY <4>1, <5>2, <5>3, <5>4
      <4>4. CASE ~(c.op \in {"LPUSH", "RPUSH", "SORT"} /\ k = c.key)
        <5>1. ListAfter(a, c, k) = la /\ ListAfter(b, c, k) = lb
          BY <4>4 DEF ListAfter, Loggable
        <5> QED
          BY <4>1, <5>1
      <4> QED
        BY <4>2, <4>3, <4>4
    <3> QED
      BY <1>2, <2>2, <2>4, <3>2 DEF Covers
  <2> QED
    BY <2>3, <2>4
<1>3. CASE s # "list"
  <2>1. View(a, s, k) = View(b, s, k)
    BY <1>3 DEF Covers
  <2>2. CASE s = "dict"
    BY <1>3, <2>1, <2>2, DictEffectOfOne DEF Covers
  <2>3. CASE s \in {"set", "hash"}
    <3>1. PICK D, A : \A d \in DBType : Edits(View(d, s, k), View(Exec(d, c, t), s, k), D, A)
      BY <2>3, EditOfOne
    <3>2. View(Exec(a, c, t), s, k) = View(Exec(b, c, t), s, k)
      BY <2>1, <3>1 DEF Edits
    <3> QED
      BY <1>3, <3>2 DEF Covers
  <2> QED
    BY <1>3, <2>2, <2>3 DEF StoreNames
<1> QED
  BY <1>2, <1>3

(* A log keeps two databases in agreement.                                 *)
LEMMA CoversReplay ==
  ASSUME NEW t \in Nat, NEW a \in DBType, NEW b \in DBType, NEW L \in Seq(Loggable),
         NEW s \in StoreNames, NEW k \in Key, NEW pops, Covers(a, b, s, k, pops)
  PROVE  Covers(Replayed(a, L, t), Replayed(b, L, t), s, k, pops)
<1> DEFINE T == {M \in Seq(Loggable) : Covers(Replayed(a, M, t), Replayed(b, M, t), s, k, pops)}
<1>1. << >> \in T
  BY ReplayEmpty
<1>2. ASSUME NEW M \in Seq(Loggable), NEW c \in Loggable, M \in T PROVE Append(M, c) \in T
  <2>1. /\ Replayed(a, Append(M, c), t) = Exec(Replayed(a, M, t), c, t)
        /\ Replayed(b, Append(M, c), t) = Exec(Replayed(b, M, t), c, t)
    BY ReplayAppend
  <2>2. Replayed(a, M, t) \in DBType /\ Replayed(b, M, t) \in DBType
    BY LogTyped
  <2>3. Covers(Replayed(a, M, t), Replayed(b, M, t), s, k, pops) /\ Append(M, c) \in Seq(Loggable)
    BY <1>2
  <2>4. Covers(Exec(Replayed(a, M, t), c, t), Exec(Replayed(b, M, t), c, t), s, k, pops)
    BY <2>2, <2>3, CoversOne
  <2> QED
    BY <2>1, <2>3, <2>4
<1> HIDE DEF T
<1>3. L \in T
  BY <1>1, <1>2, LogInduction
<1> QED
  BY <1>3 DEF T

(* But for deadlines of sets, nothing outside of the dict depends on the   *)
(* time of a command, or of the replay of a log.                           *)
Others == StoreNames \ {"dict"}

LEMMA TimelessOne ==
  ASSUME NEW t \in Nat, NEW u \in Nat, NEW d \in DBType, NEW c \in Command,
         NEW s \in Others, NEW k \in Key, s = "set" => c.op \notin {"SEXPIRE", "SEXPIREAT"}
  PROVE  View(Exec(d, c, t), s, k) = View(Exec(d, c, u), s, k)
<1>1. s = "set" => SetAfter(d, c, k, t) = SetAfter(d, c, k, u)
  BY DEF SetAfter
<1>2. s = "set" \/ s = "list" \/ s = "hash"
  BY DEF Others, StoreNames
<1> QED
  BY <1>1, <1>2, ExecViews

LEMMA Timeless ==
  ASSUME NEW t \in Nat, NEW u \in Nat, NEW d \in DBType, NEW L \in Seq(Loggable),
         NEW s \in Others, NEW k \in Key
  PROVE  View(Replayed(d, L, t), s, k) = View(Replayed(d, L, u), s, k)
<1> DEFINE T == {M \in Seq(Loggable) : View(Replayed(d, M, t), s, k) = View(Replayed(d, M, u), s, k)}
<1>1. << >> \in T
  BY ReplayEmpty
<1>2. ASSUME NEW M \in Seq(Loggable), NEW c \in Loggable, M \in T PROVE Append(M, c) \in T
  <2> DEFINE a == Replayed(d, M, t)
             b == Replayed(d, M, u)
  <2>1. a \in DBType /\ b \in DBType /\ View(a, s, k) = View(b, s, k) /\ s \in StoreNames
    BY <1>2, LogTyped DEF Others
  <2>2. /\ Replayed(d, Append(M, c), t) = Exec(a, c, t)
        /\ Replayed(d, Append(M, c), u) = Exec(b, c, u)
        /\ Append(M, c) \in Seq(Loggable)
    BY ReplayAppend
  <2> HIDE DEF a, b
  <2>3. Covers(a, b, s, k, FALSE)
    BY <2>1 DEF Covers
  <2>4. Covers(Exec(a, c, t), Exec(b, c, t), s, k, FALSE)
    BY <2>1, <2>3, CoversOne
  <2>5. View(Exec(a, c, t), s, k) = View(Exec(b, c, t), s, k)
    BY <2>4 DEF Covers
  <2>6. View(Exec(b, c, t), s, k) = View(Exec(b, c, u), s, k)
    BY <2>1, TimelessOne DEF Loggable
  <2> QED
    BY <2>2, <2>5, <2>6
<1> HIDE DEF T
<1>3. L \in T
  BY <1>1, <1>2, LogInduction
<1> QED
  BY <1>3 DEF T

-----------------------------------------------------------------------------
(* The records of a command.                                               *)

(* Equal views agree, and agreement is transitive.                         *)
LEMMA CoversIfEqual ==
  ASSUME NEW a \in DBType, NEW b \in DBType, NEW s \in StoreNames, NEW k \in Key, NEW pops,
         View(a, s, k) = View(b, s, k)
  PROVE  Covers(a, b, s, k, pops)
<1>1. CASE s = "list"
  <2>1. a.list[k] = b.list[k] /\ b.list[k] \in Seq(Value)
    BY <1>1, DBFields DEF View
  <2>2. \A v \in Value : Occurrences(b.list[k], v) \in Nat
    BY <2>1, OccurrencesAre
  <2>3. \A v \in Value : Occurrences(b.list[k], v) <= Occurrences(a.list[k], v)
    BY <2>1, <2>2
  <2> QED
    BY <2>3 DEF Covers
<1>2. CASE s # "list"
  BY <1>2 DEF Covers
<1> QED
  BY <1>1, <1>2

LEMMA CoversTransitive ==
  ASSUME NEW a \in DBType, NEW b \in DBType, NEW c \in DBType, NEW s \in StoreNames,
         NEW k \in Key, NEW pops, Covers(a, b, s, k, pops), Covers(b, c, s, k, pops)
  PROVE  Covers(a, c, s, k, pops)
<1>1. CASE s = "list" /\ pops
  <2>1. a.list[k] \in Seq(Value) /\ b.list[k] \in Seq(Value) /\ c.list[k] \in Seq(Value)
    BY DBFields
  <2>2. ASSUME NEW v \in Value PROVE Occurrences(c.list[k], v) <= Occurrences(a.list[k], v)
    <3>1. /\ Occurrences(a.list[k], v) \in Nat /\ Occurrences(b.list[k], v) \in Nat
          /\ Occurrences(c.list[k], v) \in Nat
      BY <2>1, OccurrencesAre
    <3>2. /\ Occurrences(b.list[k], v) <= Occurrences(a.list[k], v)
          /\ Occurrences(c.list[k], v) <= Occurrences(b.list[k], v)
      BY <1>1 DEF Covers
    <3> QED
      BY <3>1, <3>2
  <2> QED
    BY <1>1, <2>2 DEF Covers
<1>2. CASE ~(s = "list" /\ pops)
  BY <1>2 DEF Covers
<1> QED
  BY <1>1, <1>2

(* Logs of no, one and two records.                                        *)
LEMMA Short ==
  ASSUME NEW x, NEW y
  PROVE  /\ <<x>> \o <<y>> = <<x, y>> /\ <<x>> \o << >> = <<x>>
         /\ \A S : x \in S => <<x>> \in Seq(S)
         /\ \A S : x \in S /\ y \in S => <<x, y>> \in Seq(S)
         /\ \A S : << >> \in Seq(S)
         /\ DOMAIN <<x>> = {1} /\ DOMAIN <<x, y>> = {1, 2}
         /\ <<x>>[1] = x /\ <<x, y>>[1] = x /\ <<x, y>>[2] = y
<1>1. <<x>> \o <<y>> = <<x, y>>
  <2> DEFINE C == {x, y}
             one == <<x>>
             two == <<y>>
  <2>1. one \in Seq(C) /\ y \in C
    OBVIOUS
  <2>2. <<x, y>> = Append(one, y)
    OBVIOUS
  <2>3. Append(one, y) = one \o two
    <3> HIDE DEF C, one
    <3> QED
      BY <2>1
  <2> QED
    BY <2>2, <2>3, Zenon
<1>2. <<x>> \o << >> = <<x>>
  OBVIOUS
<1>3. ASSUME NEW S, x \in S PROVE <<x>> \in Seq(S)
  BY <1>3
<1>4. ASSUME NEW S, x \in S, y \in S PROVE <<x, y>> \in Seq(S)
  BY <1>4
<1>5. DOMAIN <<x>> = {1} /\ DOMAIN <<x, y>> = {1, 2}
  OBVIOUS
<1>6. <<x>>[1] = x /\ <<x, y>>[1] = x /\ <<x, y>>[2] = y
  OBVIOUS
<1>7. \A S : << >> \in Seq(S)
  OBVIOUS
<1> QED
  BY <1>1, <1>2, <1>3, <1>4, <1>5, <1>6, <1>7, Zenon

(* The records of a handler that ran at time n, for each command.          *)
LEMMA Recorded ==
  ASSUME NEW n \in Nat, NEW d \in DBType, NEW c \in Command
  PROVE  \/ Logged(d, c, n) = << >>
         \/ Logged(d, c, n) = <<c>> /\ c \in Loggable /\ c.op # "SET"
         \/ /\ c.op = "SET" /\ c.ttl = 0
            /\ Logged(d, c, n) = <<SET(c.key, c.val, 0)>>
         \/ /\ c.op = "SET" /\ c.ttl # 0
            /\ Logged(d, c, n) = <<SET(c.key, c.val, 0), PEXPIREAT(c.key, n + c.ttl)>>
         \/ /\ c.op \in {"EXPIRE", "SEXPIRE"}
            /\ Logged(d, c, n) = <<PEXPIREAT(c.key, n + c.ttl)>>
<1>1. CASE c.op = "SET"
  <2> DEFINE x == SET(c.key, c.val, 0)
             y == PEXPIREAT(c.key, n + c.ttl)
  <2>1. Logged(d, c, n) = <<x>> \o (IF c.ttl # 0 THEN <<y>> ELSE << >>)
    BY <1>1 DEF Logged, SetRecords
  <2> HIDE DEF x, y
  <2>2. /\ c.ttl # 0 => Logged(d, c, n) = <<x, y>>
        /\ c.ttl = 0 => Logged(d, c, n) = <<x>>
    <3>1. <<x>> \o <<y>> = <<x, y>> /\ <<x>> \o << >> = <<x>>
      BY Short
    <3>2. c.ttl # 0 => Logged(d, c, n) = <<x>> \o <<y>>
      BY <2>1
    <3>3. c.ttl = 0 => Logged(d, c, n) = <<x>> \o << >>
      BY <2>1
    <3> QED
      BY <3>1, <3>2, <3>3, Zenon
  <2>3. (c.ttl # 0 /\ Logged(d, c, n) = <<x, y>>) \/ (c.ttl = 0 /\ Logged(d, c, n) = <<x>>)
    BY <2>1, <2>2
  <2> QED
    BY <1>1, <2>3 DEF x, y
<1>2. CASE c.op \in {"DEL", "SORT"}
  BY <1>2 DEF Logged, Loggable
<1>3. CASE c.op \in {"LPUSH", "RPUSH"}
  BY <1>3 DEF Logged, PushRecords, Loggable
<1>4. CASE c.op \in {"EXPIRE", "SEXPIRE"}
  BY <1>4 DEF Logged, If
<1>5. CASE c.op \in {"SADD", "SREM", "HSET", "HDEL"}
  BY <1>5 DEF Logged, If, Loggable
<1>6. CASE c.op \in {"PEXPIREAT", "SEXPIREAT", "LPOP", "RPOP"}
  BY <1>6 DEF Logged
<1> QED
  BY <1>1, <1>2, <1>3, <1>4, <1>5, <1>6, CommandFields

(* What handlers append are records, and they name no item that the        *)
(* command does not.                                                       *)
LEMMA RecordsLoggable ==
  ASSUME NEW c \in Command
  PROVE  /\ c.op = "SET" => SET(c.key, c.val, 0) \in Loggable
         /\ c.op # "DEL" => \A at \in Nat \ {0} : PEXPIREAT(c.key, at) \in Loggable
<1>1. c.op = "SET" => SET(c.key, c.val, 0) \in Command
  BY CommandFields DEF SET, Command
<1>2. ASSUME NEW at \in Nat \ {0}, c.op # "DEL" PROVE PEXPIREAT(c.key, at) \in Command
  BY <1>2, CommandFields DEF PEXPIREAT, Command
<1> QED
  BY <1>1, <1>2, CommandFields DEF Loggable, SET, PEXPIREAT

LEMMA LoggedTyped ==
  ASSUME NEW n \in Nat \ {0}, NEW d \in DBType, NEW c \in Command
  PROVE  Logged(d, c, n) \in Seq(Loggable)
<1> DEFINE x == SET(c.key, c.val, 0)
           y == PEXPIREAT(c.key, n + c.ttl)
<1>1. /\ c.op = "SET" => x \in Loggable
      /\ c.op \in {"SET", "EXPIRE", "SEXPIRE"} => y \in Loggable
  <2>1. c.op \in {"SET", "EXPIRE", "SEXPIRE"} => n + c.ttl \in Nat \ {0}
    BY CommandFields
  <2> QED
    BY <2>1, RecordsLoggable
<1>2. \/ Logged(d, c, n) = << >>
      \/ Logged(d, c, n) = <<c>> /\ c \in Loggable
      \/ c.op = "SET" /\ Logged(d, c, n) = <<x>>
      \/ c.op = "SET" /\ Logged(d, c, n) = <<x, y>>
      \/ c.op \in {"EXPIRE", "SEXPIRE"} /\ Logged(d, c, n) = <<y>>
  BY Recorded
<1> HIDE DEF x, y
<1>3. /\ << >> \in Seq(Loggable)
      /\ c \in Loggable => <<c>> \in Seq(Loggable)
      /\ x \in Loggable => <<x>> \in Seq(Loggable)
      /\ y \in Loggable => <<y>> \in Seq(Loggable)
      /\ x \in Loggable /\ y \in Loggable => <<x, y>> \in Seq(Loggable)
  BY Short, Zenon
<1>4. /\ c.op = "SET" => c.op \in {"SET", "EXPIRE", "SEXPIRE"}
      /\ c.op \in {"EXPIRE", "SEXPIRE"} => c.op \in {"SET", "EXPIRE", "SEXPIRE"}
  OBVIOUS
<1> QED
  BY <1>1, <1>2, <1>3, <1>4, Zenon

LEMMA OpsAre ==
  ASSUME NEW s \in StoreNames
  PROVE  /\ "SET" \in OpsOn[s] <=> s = "dict"
         /\ "EXPIRE" \in OpsOn[s] <=> s = "dict"
         /\ "PEXPIREAT" \in OpsOn[s] <=> s = "dict"
  BY DEF StoreNames, OpsOn

LEMMA LoggedLeaves ==
  ASSUME NEW n \in Nat, NEW d \in DBType, NEW c \in Command, NEW s \in StoreNames, NEW k \in Key,
         ~Touches(c, s, k), s = "dict" => c.op # "SEXPIRE"
  PROVE  Leaves(Logged(d, c, n), s, k)
<1>1. CASE Logged(d, c, n) = << >>
  BY <1>1 DEF Leaves
<1>2. CASE Logged(d, c, n) = <<c>>
  BY <1>2 DEF Leaves
<1> DEFINE x == SET(c.key, c.val, 0)
           y == PEXPIREAT(c.key, n + c.ttl)
<1>3. /\ c.op = "SET" => ~Touches(x, s, k)
      /\ c.op \in {"SET", "EXPIRE", "SEXPIRE"} => ~Touches(y, s, k)
  BY OpsAre DEF Touches, KeysOf, SET, PEXPIREAT
<1>4. \/ Logged(d, c, n) = << >>
      \/ Logged(d, c, n) = <<c>>
      \/ c.op = "SET" /\ Logged(d, c, n) = <<x>>
      \/ c.op = "SET" /\ Logged(d, c, n) = <<x, y>>
      \/ c.op \in {"EXPIRE", "SEXPIRE"} /\ Logged(d, c, n) = <<y>>
  BY Recorded
<1> HIDE DEF x, y
<1>5. CASE c.op = "SET" /\ Logged(d, c, n) = <<x, y>>
  BY <1>3, <1>5, Short DEF Leaves
<1>6. CASE c.op = "SET" /\ Logged(d, c, n) = <<x>>
  BY <1>3, <1>6, Short DEF Leaves
<1>7. CASE c.op \in {"EXPIRE", "SEXPIRE"} /\ Logged(d, c, n) = <<y>>
  BY <1>3, <1>7, Short DEF Leaves
<1> QED
  BY <1>1, <1>2, <1>4, <1>5, <1>6, <1>7

(* Replay of the two records of a SET with a TTL.                          *)
LEMMA ReplayTwo ==
  ASSUME NEW t \in Nat, NEW d, NEW c, NEW e
  PROVE  Replayed(d, <<c, e>>, t) = Exec(Exec(d, c, t), e, t)
<1> DEFINE C == {c, e}
           one == <<c>>
<1>1. one \in Seq(C) /\ c \in C /\ e \in C /\ <<c, e>> = Append(one, e)
  OBVIOUS
<1>2. Replayed(d, one, t) = Exec(d, c, t)
  BY ReplayOne
<1> HIDE DEF one, C
<1>3. Replayed(d, Append(one, e), t) = Exec(Replayed(d, one, t), e, t)
  BY <1>1, ReplayAppend
<1>4. Replayed(d, <<c, e>>, t) = Replayed(d, Append(one, e), t)
  BY <1>1, Zenon
<1> QED
  BY <1>2, <1>3, <1>4, Zenon

(* The records of a command, replayed at any time, make of an item what    *)
(* the command made of it: for SEXPIRE, whose record is one for the dict,  *)
(* not of sets; for pops, that nothing is missing.                         *)
Faithful(c, s, pops) ==
  /\ c.op \in {"SEXPIRE", "SEXPIREAT"} => s \notin {"dict", "set"}
  /\ c.op \in {"LPOP", "RPOP"} => s # "list" \/ pops

LEMMA LoggedCovers ==
  ASSUME NEW n \in Nat \ {0}, NEW t \in Nat, NEW d \in DBType, NEW c \in Command,
         NEW s \in Others, NEW k \in Key, NEW pops, Faithful(c, s, pops)
  PROVE  Covers(Replayed(d, Logged(d, c, n), t), Exec(d, c, n), s, k, pops)
<1> DEFINE r == Replayed(d, Logged(d, c, n), t)
           e == Exec(d, c, n)
<1>1. r \in DBType /\ e \in DBType /\ s \in StoreNames /\ s # "dict" /\ n \in Nat
  BY LoggedTyped, LogTyped, ExecTyped DEF Others
<1>2. CASE ~Touches(c, s, k)
  <2>1. Leaves(Logged(d, c, n), s, k)
    BY <1>1, <1>2, LoggedLeaves
  <2>2. Logged(d, c, n) \in Seq(Command)
    BY LoggedTyped, LogsAreCommands
  <2>3. View(r, s, k) = View(d, s, k)
    BY <1>1, <2>1, <2>2, Untouched
  <2>4. View(e, s, k) = View(d, s, k)
    BY <1>1, <1>2, UntouchedByOne
  <2> HIDE DEF r, e
  <2>5. Covers(r, e, s, k, pops)
    BY <1>1, <2>3, <2>4, CoversIfEqual
  <2> QED
    BY <2>5 DEF r, e
<1>3. CASE Logged(d, c, n) = <<c>> /\ ~(Touches(c, s, k) /\ c.op \in {"SEXPIRE", "SEXPIREAT"})
  <2>1. r = Exec(d, c, t)
    BY <1>3, ReplayOne
  <2>2. CASE Touches(c, s, k)
    <3>1. View(r, s, k) = View(e, s, k)
      BY <1>1, <1>3, <2>1, <2>2, TimelessOne
    <3> HIDE DEF r, e
    <3>2. Covers(r, e, s, k, pops)
      BY <1>1, <3>1, CoversIfEqual
    <3> QED
      BY <3>2 DEF r, e
  <2> QED
    BY <1>2, <2>2
<1>4. CASE Touches(c, s, k) /\ c.op \in {"LPOP", "RPOP"}
  <2>1. s = "list" /\ k = c.key
    BY <1>4 DEF Touches, KeysOf, OpsOn, Others, StoreNames
  <2>2. pops /\ c.count \in Nat
    BY <1>4, <2>1, CommandFields DEF Faithful
  <2>3. r = d
    BY <1>4, ReplayEmpty DEF Logged
  <2> DEFINE l == d.list[k]
  <2>4. l \in Seq(Value) /\ Len(l) \in Nat
    BY DBFields
  <2>5. e.list[k] = IF c.op = "LPOP" THEN SubSeq(l, c.count + 1, Len(l))
                                     ELSE SubSeq(l, 1, Len(l) - c.count)
    <3>1. e.list[k] = ListAfter(d, c, k)
      BY ExecViews DEF View
    <3>2. c.op = "LPOP" => ListAfter(d, c, k) = SubSeq(l, c.count + 1, Len(l))
      BY <2>1 DEF ListAfter
    <3>3. c.op = "RPOP" => ListAfter(d, c, k) = SubSeq(l, 1, Len(l) - c.count)
      BY <2>1 DEF ListAfter
    <3> QED
      BY <1>4, <3>1, <3>2, <3>3
  <2> HIDE DEF l, r, e
  <2>6. ASSUME NEW v \in Value PROVE Occurrences(e.list[k], v) <= Occurrences(l, v)
    <3>1. CASE c.op = "LPOP"
      <4>1. c.count + 1 \in Nat /\ c.count + 1 >= 1 /\ Len(l) \in Int /\ Len(l) <= Len(l)
        BY <2>2, <2>4
      <4> QED
        BY <2>4, <2>5, <3>1, <4>1, OccurrencesOfPart
    <3>2. CASE c.op # "LPOP"
      <4>1. Len(l) - c.count \in Int /\ Len(l) - c.count <= Len(l) /\ 1 \in Nat /\ 1 >= 1
        BY <2>2, <2>4
      <4> QED
        BY <2>4, <2>5, <3>2, <4>1, OccurrencesOfPart
    <3> QED
      BY <3>1, <3>2
  <2>7. Covers(r, e, s, k, pops)
    BY <2>1, <2>2, <2>3, <2>6 DEF Covers, l
  <2> QED
    BY <2>7 DEF r, e
<1>5. CASE Touches(c, s, k) /\ c.op \in {"SET", "EXPIRE", "PEXPIREAT"}
  BY <1>5, OpsAre DEF Touches, Others
<1>6. CASE Touches(c, s, k) /\ c.op \in {"SEXPIRE", "SEXPIREAT"}
  <2>1. s \in {"list", "hash"}
    BY <1>6 DEF Faithful, Others, StoreNames
  <2> QED
    BY <1>6, <2>1 DEF Touches, OpsOn
<1>7. CASE Touches(c, s, k) /\ c.op \in {"SADD", "SREM", "HSET", "HDEL"} /\ Logged(d, c, n) = << >>
  <2>1. r = d
    BY <1>7, ReplayEmpty
  <2>2. k = c.key
    BY <1>7 DEF Touches, KeysOf
  <2>3. View(e, s, k) = View(d, s, k)
    <3>1. CASE c.op = "SADD"
      <4>1. s = "set" /\ c.members \in (SUBSET Value) \ {{}}
        BY <1>7, <3>1, CommandFields DEF Touches, OpsOn, Others, StoreNames
      <4>2. c.members \subseteq Members(d.set[k])
        <5>1. <<c>> # << >>
          OBVIOUS
        <5> QED
          BY <1>7, <2>2, <3>1, <5>1 DEF Logged, If, AddsMember
      <4>3. d.set[k] \in SetItem
        BY <4>1, <4>2, DBFields DEF Members
      <4>4. SetAfter(d, c, k, n) = [d.set[k] EXCEPT !.members = @ \cup c.members]
        BY <2>2, <3>1, <4>3, DatabaseAssumption DEF SetAfter, Sadd
      <4>5. SetAfter(d, c, k, n) = d.set[k]
        BY <4>2, <4>3, <4>4, DatabaseAssumption DEF SetItem, Members
      <4> QED
        BY <4>1, <4>5, ExecViews DEF View
    <3>2. CASE c.op = "SREM"
      <4>1. s = "set"
        BY <1>7, <3>2 DEF Touches, OpsOn, Others, StoreNames
      <4>2. c.members \cap Members(d.set[k]) = {}
        <5>1. <<c>> # << >>
          OBVIOUS
        <5> QED
          BY <1>7, <2>2, <3>2, <5>1 DEF Logged, If, RemovesMember
      <4>3. SetAfter(d, c, k, n) = Srem(d.set[k], c.members)
        BY <2>2, <3>2 DEF SetAfter
      <4>4. d.set[k] \in SetItem \cup {Absent}
        BY DBFields
      <4>5. Members(Srem(d.set[k], c.members)) = Members(d.set[k])
        <5>1. CASE d.set[k] = Absent
          BY <5>1 DEF Srem
        <5>2. CASE d.set[k] # Absent
          <6> DEFINE i == d.set[k]
                     ms == c.members
          <6>1. i \in SetItem /\ i.members # {} /\ i.members \cap ms = {}
            BY <4>2, <4>4, <5>2 DEF SetItem, Members
          <6> HIDE DEF i, ms
          <6>2. Srem(i, ms) = [i EXCEPT !.members = @ \ ms]
            BY <6>1, DatabaseAssumption DEF Srem
          <6>3. [i EXCEPT !.members = @ \ ms] = i
            BY <6>1 DEF SetItem
          <6> QED
            BY <6>2, <6>3 DEF i, ms
        <5> QED
          BY <5>1, <5>2
      <4> QED
        BY <4>1, <4>3, <4>5, ExecViews DEF View
    <3>3. CASE c.op = "HSET"
      <4>1. s = "hash"
        BY <1>7, <3>3 DEF Touches, OpsOn, Others, StoreNames
      <4>2. DOMAIN c.pairs \subseteq DOMAIN d.hash[k]
        <5>1. <<c>> # << >>
          OBVIOUS
        <5> QED
          BY <1>7, <2>2, <3>3, <5>1 DEF Logged, If, AddsField
      <4>3. HashAfter(d, c, k) = Overwrite(d.hash[k], c.pairs)
        BY <2>2, <3>3 DEF HashAfter
      <4>4. DOMAIN Overwrite(d.hash[k], c.pairs) = DOMAIN d.hash[k]
        BY <4>2 DEF Overwrite
      <4> QED
        BY <4>1, <4>3, <4>4, ExecViews DEF View
    <3>4. CASE c.op = "HDEL"
      <4>1. s = "hash"
        BY <1>7, <3>4 DEF Touches, OpsOn, Others, StoreNames
      <4>2. c.fields \cap DOMAIN d.hash[k] = {}
        <5>1. <<c>> # << >>
          OBVIOUS
        <5> QED
          BY <1>7, <2>2, <3>4, <5>1 DEF Logged, If, RemovesField
      <4>3. HashAfter(d, c, k) = [f \in DOMAIN d.hash[k] \ c.fields |-> d.hash[k][f]]
        BY <2>2, <3>4 DEF HashAfter
      <4>4. DOMAIN HashAfter(d, c, k) = DOMAIN d.hash[k]
        BY <4>2, <4>3
      <4> QED
        BY <4>1, <4>4, ExecViews DEF View
    <3> QED
      BY <1>7, <3>1, <3>2, <3>3, <3>4
  <2> HIDE DEF r, e
  <2>4. Covers(r, e, s, k, pops)
    BY <1>1, <2>1, <2>3, CoversIfEqual
  <2> QED
    BY <2>4 DEF r, e
<1>8. c.op \in {"DEL", "LPUSH", "RPUSH", "SORT"} => Logged(d, c, n) = <<c>>
  BY DEF Logged, PushRecords
<1>9. c.op \in {"SADD", "SREM", "HSET", "HDEL"} => Logged(d, c, n) \in {<< >>, <<c>>}
  BY DEF Logged, If
<1> QED
  BY <1>2, <1>3, <1>4, <1>5, <1>6, <1>7, <1>8, <1>9, CommandFields

-----------------------------------------------------------------------------
(* Commands for each key, in some order of the keys.                       *)

(* No set has a deadline.  No record of a handler gives one.               *)
SetsUndated(d) == \A k \in Key : d.set[k] # Absent => d.set[k].deadline = 0

LEMMA UndatedExec ==
  ASSUME NEW t \in Nat, NEW d \in DBType, SetsUndated(d), NEW c \in Command,
         c.op \notin {"SEXPIRE", "SEXPIREAT"}
  PROVE  SetsUndated(Exec(d, c, t))
<1> SUFFICES ASSUME NEW k \in Key, SetAfter(d, c, k, t) # Absent PROVE SetAfter(d, c, k, t).deadline = 0
  <2>1. Exec(d, c, t).set = [k \in Key |-> SetAfter(d, c, k, t)]
    BY ExecIs
  <2> QED
    BY <2>1 DEF SetsUndated
<1>1. d.set[k] \in SetItem \cup {Absent} /\ (d.set[k] # Absent => d.set[k].deadline = 0)
  BY DBFields DEF SetsUndated
<1>2. Sadd(d.set[k], c.members) # Absent => Sadd(d.set[k], c.members).deadline = 0
  BY <1>1 DEF Sadd, SetItem
<1>3. Srem(d.set[k], c.members) # Absent => Srem(d.set[k], c.members).deadline = 0
  BY <1>1 DEF Srem, SetItem
<1> QED
  BY <1>1, <1>2, <1>3 DEF SetAfter

LEMMA UndatedReplay ==
  ASSUME NEW t \in Nat, NEW d \in DBType, SetsUndated(d), NEW L \in Seq(Loggable)
  PROVE  SetsUndated(Replayed(d, L, t))
<1> DEFINE S == {x \in DBType : SetsUndated(x)}
<1>1. ASSUME NEW x \in S, NEW c \in Loggable PROVE Exec(x, c, t) \in S
  BY UndatedExec, ExecTyped DEF Loggable
<1>2. d \in S
  OBVIOUS
<1> HIDE DEF S
<1>3. Replayed(d, L, t) \in S
  BY <1>1, <1>2, ReplayKeeps
<1> QED
  BY <1>3 DEF S

-----------------------------------------------------------------------------
(* The commands of a rewrite and of an RDB load.                           *)
Flattens(f, seqs, n) == f = [i \in 1 .. n |-> IF i = 1 THEN seqs[i] ELSE f[i - 1] \o seqs[i]]

(* FlattenSeq is that function at its end, and it exists for any length.   *)
LEMMA FlattensAt ==
  ASSUME NEW f, NEW seqs, NEW n \in Nat, Flattens(f, seqs, n), NEW i \in 1 .. n
  PROVE  /\ i = 1 => f[i] = seqs[i]
         /\ i # 1 => f[i] = f[i - 1] \o seqs[i]
  BY DEF Flattens

LEMMA FlattenExists ==
  ASSUME NEW seqs, NEW N \in Nat
  PROVE  \E f : Flattens(f, seqs, N)
<1> DEFINE S == {n \in Nat : \E f : Flattens(f, seqs, n)}
<1>1. 0 \in S
  <2>1. Flattens([i \in 1 .. 0 |-> << >>], seqs, 0)
    BY DEF Flattens
  <2> QED
    BY <2>1
<1>2. ASSUME NEW n \in Nat, n \in S PROVE n + 1 \in S
  <2>1. PICK f : Flattens(f, seqs, n)
    BY <1>2
  <2> DEFINE up == [i \in 1 .. n + 1 |->
                      IF i = 1 THEN seqs[i] ELSE IF i = n + 1 THEN f[n] \o seqs[i] ELSE f[i]]
  <2>2. /\ up[1] = seqs[1]
        /\ \A i \in 1 .. n + 1 : i # 1 /\ i = n + 1 => up[i] = f[n] \o seqs[i]
        /\ \A i \in 1 .. n + 1 : i # 1 /\ i # n + 1 => up[i] = f[i]
        /\ up = [i \in 1 .. n + 1 |-> up[i]]
    <3>1. 1 \in 1 .. n + 1
      OBVIOUS
    <3>2. up[1] = seqs[1]
      BY <3>1
    <3>3. \A i \in 1 .. n + 1 : i # 1 /\ i = n + 1 => up[i] = f[n] \o seqs[i]
      OBVIOUS
    <3>4. \A i \in 1 .. n + 1 : i # 1 /\ i # n + 1 => up[i] = f[i]
      OBVIOUS
    <3>5. up = [i \in 1 .. n + 1 |-> up[i]]
      OBVIOUS
    <3> QED
      BY <3>2, <3>3, <3>4, <3>5
  <2> HIDE DEF up
  <2>3. ASSUME NEW i \in 1 .. n + 1, i # 1 PROVE up[i] = up[i - 1] \o seqs[i]
    <3>1. i - 1 \in 1 .. n /\ i - 1 # n + 1 /\ i - 1 \in 1 .. n + 1
      BY <2>3
    <3>2. up[i - 1] = f[i - 1]
      <4>1. CASE i - 1 = 1
        <5>1. 1 \in 1 .. n
          BY <3>1, <4>1
        <5>2. f[1] = seqs[1]
          BY <2>1, <5>1 DEF Flattens
        <5> QED
          BY <2>2, <4>1, <5>2
      <4>2. CASE i - 1 # 1
        BY <2>2, <3>1, <4>2
      <4> QED
        BY <4>1, <4>2
    <3>3. CASE i = n + 1
      <4>1. i - 1 = n
        BY <3>3
      <4> QED
        BY <2>2, <2>3, <3>2, <3>3, <4>1
    <3>4. CASE i # n + 1
      <4>1. i \in 1 .. n
        BY <3>4
      <4>2. f[i] = f[i - 1] \o seqs[i]
        BY <2>1, <2>3, <4>1, FlattensAt
      <4> QED
        BY <2>2, <2>3, <3>2, <3>4, <4>2
    <3> QED
      BY <3>3, <3>4
  <2>4. Flattens(up, seqs, n + 1)
    BY <2>2, <2>3 DEF Flattens
  <2> QED
    BY <2>4
<1> HIDE DEF S
<1>3. N \in S
  BY <1>1, <1>2, Induction
<1> QED
  BY <1>3 DEF S

(* Logs one after the other, g[i] the database after i of them.            *)
Stepwise(g, d, seqs, n, t) ==
  /\ g[0] = d
  /\ \A i \in 1 .. n : g[i] = Replayed(g[i - 1], seqs[i], t)
  /\ Replayed(d, FlattenSeq(seqs), t) = g[n]

(* A flattened sequence of logs replays like the logs one after the other. *)
LEMMA FlattenReplay ==
  ASSUME NEW t \in Nat, NEW C, NEW n \in Nat, NEW seqs \in [1 .. n -> Seq(C)], NEW d
  PROVE  /\ FlattenSeq(seqs) \in Seq(C)
         /\ \E g : Stepwise(g, d, seqs, n, t)
<1>1. Len(seqs) = n
  OBVIOUS
<1>2. CASE n = 0
  <2>1. FlattenSeq(seqs) = seqs /\ seqs = << >>
    BY <1>1, <1>2 DEF FlattenSeq
  <2>2. << >> \in Seq(C)
    OBVIOUS
  <2> DEFINE g == [i \in 0 .. 0 |-> d]
  <2>3. g[0] = d /\ (\A i \in 1 .. n : g[i] = Replayed(g[i - 1], seqs[i], t))
        /\ Replayed(d, << >>, t) = g[n]
    BY <1>2, ReplayEmpty
  <2> HIDE DEF g
  <2>4. Stepwise(g, d, seqs, n, t)
    BY <2>1, <2>3 DEF Stepwise
  <2> QED
    BY <2>1, <2>2, <2>4
<1>3. CASE n # 0
  <2> DEFINE fl == CHOOSE f : f = [i \in 1 .. Len(seqs) |-> IF i = 1 THEN seqs[i] ELSE f[i - 1] \o seqs[i]]
  <2>1. FlattenSeq(seqs) = fl[n]
    BY <1>1, <1>3 DEF FlattenSeq
  <2>2. Flattens(fl, seqs, n)
    <3>1. PICK f : Flattens(f, seqs, n)
      BY FlattenExists
    <3>2. \E h : h = [i \in 1 .. Len(seqs) |-> IF i = 1 THEN seqs[i] ELSE h[i - 1] \o seqs[i]]
      BY <1>1, <3>1 DEF Flattens
    <3>3. fl = [i \in 1 .. Len(seqs) |-> IF i = 1 THEN seqs[i] ELSE fl[i - 1] \o seqs[i]]
      BY <3>2
    <3> HIDE DEF fl
    <3> QED
      BY <1>1, <3>3 DEF Flattens
  <2> HIDE DEF fl
  <2> DEFINE g == [i \in 0 .. n |-> IF i = 0 THEN d ELSE Replayed(d, fl[i], t)]
             P(i) == fl[i] \in Seq(C) /\ g[i] = Replayed(g[i - 1], seqs[i], t)
             T == {i \in Nat : i \in 1 .. n => P(i)}
  <2>3. 0 \in T
    OBVIOUS
  <2>4. ASSUME NEW i \in 1 .. n, i # 1 => P(i - 1) PROVE P(i)
    <3>1. seqs[i] \in Seq(C) /\ g[i] = Replayed(d, fl[i], t)
          /\ g[i - 1] = IF i = 1 THEN d ELSE Replayed(d, fl[i - 1], t)
      OBVIOUS
    <3> HIDE DEF g
    <3>2. CASE i = 1
      <4>1. fl[i] = seqs[i]
        BY <2>2, <3>2, FlattensAt
      <4> QED
        BY <3>1, <3>2, <4>1
    <3>3. CASE i # 1
      <4>1. fl[i - 1] \in Seq(C)
        BY <2>4, <3>3
      <4>2. fl[i] = fl[i - 1] \o seqs[i]
        BY <2>2, <3>3, FlattensAt
      <4>3. Replayed(d, fl[i - 1] \o seqs[i], t) = Replayed(Replayed(d, fl[i - 1], t), seqs[i], t)
        BY <3>1, <4>1, ReplayConcat
      <4>4. fl[i - 1] \o seqs[i] \in Seq(C)
        BY <3>1, <4>1
      <4> QED
        BY <3>1, <3>3, <4>2, <4>3, <4>4
    <3> QED
      BY <3>2, <3>3
  <2>5. ASSUME NEW i \in Nat, i \in T PROVE i + 1 \in T
    <3> SUFFICES ASSUME i + 1 \in 1 .. n PROVE P(i + 1)
      OBVIOUS
    <3>1. (i + 1) - 1 = i /\ (i + 1 # 1 => i \in 1 .. n)
      OBVIOUS
    <3>2. ASSUME i + 1 # 1 PROVE P((i + 1) - 1)
      <4>1. i \in 1 .. n
        BY <3>1, <3>2
      <4> HIDE DEF P
      <4>2. P(i)
        BY <2>5, <4>1
      <4> QED
        BY <3>1, <4>2
    <3> HIDE DEF P
    <3> QED
      BY <2>4, <3>2
  <2> HIDE DEF T
  <2>6. Nat \subseteq T
    BY <2>3, <2>5, Induction
  <2>7. \A i \in 1 .. n : fl[i] \in Seq(C) /\ g[i] = Replayed(g[i - 1], seqs[i], t)
    <3>1. ASSUME NEW i \in 1 .. n PROVE P(i)
      <4>1. i \in T
        BY <2>6
      <4> HIDE DEF P
      <4> QED
        BY <4>1 DEF T
    <3> QED
      BY <3>1
  <2>8. g[0] = d /\ g[n] = Replayed(d, fl[n], t) /\ n \in 1 .. n
    BY <1>3
  <2> HIDE DEF g
  <2>9. Stepwise(g, d, seqs, n, t)
    BY <2>1, <2>7, <2>8 DEF Stepwise
  <2> QED
    BY <2>1, <2>7, <2>8, <2>9
<1> QED
  BY <1>2, <1>3

(* SetToSeq has each element of the set once.                              *)
LEMMA SetToSeqIs ==
  ASSUME NEW K, IsFiniteSet(K)
  PROVE  /\ Cardinality(K) \in Nat
         /\ SetToSeq(K) \in [1 .. Cardinality(K) -> K]
         /\ \A i, j \in 1 .. Cardinality(K) : SetToSeq(K)[i] = SetToSeq(K)[j] => i = j
         /\ \A k \in K : \E i \in 1 .. Cardinality(K) : SetToSeq(K)[i] = k
<1> DEFINE n == Cardinality(K)
           s == SetToSeq(K)
<1>1. n \in Nat /\ ExistsBijection(1 .. n, K)
  BY FS_CardinalityType
<1>2. PICK f : f \in Bijection(1 .. n, K)
  BY <1>1 DEF ExistsBijection
<1>3. f \in [1 .. n -> K] /\ IsInjective(f)
  BY <1>2 DEF Bijection, Injection
<1>4. s \in [1 .. n -> K] /\ IsInjective(s)
  BY <1>3 DEF SetToSeq
<1> HIDE DEF s
<1>5. s \in Injection(1 .. n, K)
  BY <1>4 DEF Injection
<1>6. Cardinality(1 .. n) = n
  <2>1. IF 1 > n THEN n = 0 ELSE n - 1 + 1 = n
    BY <1>1
  <2>2. Cardinality(1 .. n) = IF 1 > n THEN 0 ELSE n - 1 + 1
    BY <1>1, FS_Interval
  <2> QED
    BY <2>1, <2>2
<1>7. s \in Surjection(1 .. n, K)
  BY <1>5, <1>6, FS_Injection
<1> QED
  BY <1>1, <1>4, <1>7 DEF IsInjective, Surjection, s

(* The keys of K one after the other in the order s, and g[i] the          *)
(* database after the commands of i of them.                               *)
Walk(s, g, n, K, cmds, d, t) ==
  /\ s \in [1 .. n -> K]
  /\ \A i, j \in 1 .. n : s[i] = s[j] => i = j
  /\ \A k \in K : \E i \in 1 .. n : s[i] = k
  /\ g[0] = d
  /\ \A i \in 1 .. n : g[i] = Replayed(g[i - 1], cmds[s[i]], t)
  /\ Replayed(d, InSomeOrder(cmds), t) = g[n]

(* Commands for the keys in some order walk through the keys.              *)
LEMMA InSomeOrderReplay ==
  ASSUME NEW t \in Nat, NEW C, NEW K, IsFiniteSet(K), NEW cmds \in [K -> Seq(C)], NEW d
  PROVE  /\ InSomeOrder(cmds) \in Seq(C)
         /\ \E n \in Nat : \E s, g : Walk(s, g, n, K, cmds, d, t)
<1> DEFINE s == SetToSeq(K)
           n == Cardinality(K)
           seqs == [i \in DOMAIN s |-> cmds[s[i]]]
<1>1. /\ n \in Nat /\ s \in [1 .. n -> K]
      /\ \A i, j \in 1 .. n : s[i] = s[j] => i = j
      /\ \A k \in K : \E i \in 1 .. n : s[i] = k
  BY SetToSeqIs
<1>2. InSomeOrder(cmds) = FlattenSeq(seqs)
  BY DEF InSomeOrder
<1> HIDE DEF s, n
<1>3. seqs \in [1 .. n -> Seq(C)] /\ \A i \in 1 .. n : seqs[i] = cmds[s[i]]
  <2>1. DOMAIN s = 1 .. n /\ \A i \in 1 .. n : s[i] \in K
    BY <1>1
  <2>2. \A i \in 1 .. n : cmds[s[i]] \in Seq(C)
    BY <2>1
  <2> QED
    BY <2>1, <2>2
<1> HIDE DEF seqs
<1>4. n \in Nat /\ seqs \in [1 .. n -> Seq(C)]
  BY <1>1, <1>3
<1>5. FlattenSeq(seqs) \in Seq(C) /\ \E g : Stepwise(g, d, seqs, n, t)
  BY <1>4, FlattenReplay
<1>6. PICK g : Stepwise(g, d, seqs, n, t)
  BY <1>5
<1>7. /\ g[0] = d
      /\ \A i \in 1 .. n : g[i] = Replayed(g[i - 1], cmds[s[i]], t)
      /\ Replayed(d, InSomeOrder(cmds), t) = g[n]
  BY <1>2, <1>3, <1>6 DEF Stepwise
<1>8. Walk(s, g, n, K, cmds, d, t)
  BY <1>1, <1>7 DEF Walk
<1>9. InSomeOrder(cmds) \in Seq(C)
  BY <1>2, <1>5
<1> QED
  BY <1>4, <1>8, <1>9

-----------------------------------------------------------------------------
(* Filling in a store key by key.                                          *)

(* A store of a database by name; databases are the same if the stores     *)
(* are.                                                                    *)
Store(d, s) ==
  CASE s = "dict" -> d.dict
    [] s = "set"  -> d.set
    [] s = "list" -> d.list
    [] s = "hash" -> d.hash

LEMMA SameDatabase ==
  ASSUME NEW d \in DBType, NEW e \in DBType,
         \A s \in StoreNames : \A k \in Key : Store(d, s)[k] = Store(e, s)[k]
  PROVE  d = e
<1>1. /\ d = [dict |-> d.dict, set |-> d.set, list |-> d.list, hash |-> d.hash]
      /\ e = [dict |-> e.dict, set |-> e.set, list |-> e.list, hash |-> e.hash]
  BY DBFields, Zenon
<1>2. "dict" \in StoreNames /\ "set" \in StoreNames /\ "list" \in StoreNames /\ "hash" \in StoreNames
  BY DEF StoreNames
<1>3. d.dict = e.dict
  <2>1. \A k \in Key : d.dict[k] = e.dict[k]
    BY <1>2 DEF Store
  <2>2. d.dict \in [Key -> DictItem \cup {Absent}] /\ e.dict \in [Key -> DictItem \cup {Absent}]
    BY DBFields
  <2> QED
    BY <2>1, <2>2
<1>4. d.set = e.set
  <2>1. \A k \in Key : d.set[k] = e.set[k]
    BY <1>2 DEF Store
  <2>2. d.set \in [Key -> SetItem \cup {Absent}] /\ e.set \in [Key -> SetItem \cup {Absent}]
    BY DBFields
  <2> QED
    BY <2>1, <2>2
<1>5. d.list = e.list
  <2>1. \A k \in Key : d.list[k] = e.list[k]
    BY <1>2 DEF Store
  <2>2. d.list \in [Key -> Seq(Value)] /\ e.list \in [Key -> Seq(Value)]
    BY DBFields
  <2> QED
    BY <2>1, <2>2
<1>6. d.hash = e.hash
  <2>1. \A k \in Key : d.hash[k] = e.hash[k]
    BY <1>2 DEF Store
  <2>2. d.hash \in [Key -> HashItem] /\ e.hash \in [Key -> HashItem]
    BY DBFields
  <2> QED
    BY <2>1, <2>2
<1> QED
  BY <1>1, <1>3, <1>4, <1>5, <1>6, Zenon

(* e is d but for what F has for the keys K of store s.                    *)
Fills(d, e, s, K, F) ==
  /\ e \in DBType
  /\ \A u \in StoreNames : \A k \in Key :
       Store(e, u)[k] = IF u = s /\ k \in K THEN F[k] ELSE Store(d, u)[k]

(* The same for a single key.                                              *)
Puts(d, e, s, k, v) ==
  /\ e \in DBType
  /\ Store(e, s)[k] = v
  /\ \A u \in StoreNames : \A j \in Key : u # s \/ j # k => Store(e, u)[j] = Store(d, u)[j]

(* If the commands of each key put F there, whatever is in the rest of the *)
(* database, then all of them together, in any order, fill in F.           *)
LEMMA BuildUp ==
  ASSUME NEW t \in Nat, NEW C, NEW s \in StoreNames, NEW K \in SUBSET Key, NEW cmds \in [K -> Seq(C)],
         NEW F, NEW d \in DBType,
         \A e \in DBType : \A k \in K :
           Store(e, s)[k] = Store(d, s)[k] => Puts(e, Replayed(e, cmds[k], t), s, k, F[k])
  PROVE  /\ InSomeOrder(cmds) \in Seq(C)
         /\ Fills(d, Replayed(d, InSomeOrder(cmds), t), s, K, F)
<1>1. IsFiniteSet(K)
  BY DatabaseAssumption, FS_Subset
<1>2. InSomeOrder(cmds) \in Seq(C) /\ \E n \in Nat : \E q, g : Walk(q, g, n, K, cmds, d, t)
  BY <1>1, InSomeOrderReplay
<1>3. PICK n \in Nat : \E q, g : Walk(q, g, n, K, cmds, d, t)
  BY <1>2
<1>4. PICK q, g : Walk(q, g, n, K, cmds, d, t)
  BY <1>3
<1>5. /\ q \in [1 .. n -> K]
      /\ \A i, j \in 1 .. n : q[i] = q[j] => i = j
      /\ \A k \in K : \E i \in 1 .. n : q[i] = k
      /\ g[0] = d
      /\ \A i \in 1 .. n : g[i] = Replayed(g[i - 1], cmds[q[i]], t)
      /\ Replayed(d, InSomeOrder(cmds), t) = g[n]
  BY <1>4 DEF Walk
<1> DEFINE After(i) == {q[j] : j \in 1 .. i}
           S == {i \in Nat : i \in 0 .. n => Fills(d, g[i], s, After(i), F)}
<1>6. 0 \in S
  <2>1. After(0) = {}
    OBVIOUS
  <2> HIDE DEF After
  <2>2. Fills(d, g[0], s, After(0), F)
    BY <1>5, <2>1 DEF Fills
  <2> QED
    BY <2>2
<1>7. ASSUME NEW i \in Nat, i \in S, i + 1 \in 0 .. n PROVE Fills(d, g[i + 1], s, After(i + 1), F)
  <2> DEFINE k == q[i + 1]
             e == g[i]
  <2>1. i \in 0 .. n /\ i + 1 \in 1 .. n /\ (i + 1) - 1 = i
    BY <1>7
  <2>2. k \in K /\ k \in Key
    BY <1>5, <2>1
  <2>3. k \notin After(i)
    <3>1. ASSUME NEW j \in 1 .. i, q[j] = q[i + 1] PROVE FALSE
      <4>1. j \in 1 .. n
        BY <2>1
      <4>2. j = i + 1
        BY <1>5, <2>1, <3>1, <4>1
      <4> QED
        BY <4>2
    <3> QED
      BY <3>1
  <2>4. After(i + 1) = After(i) \cup {k}
    <3>1. 1 .. i + 1 = (1 .. i) \cup {i + 1}
      BY <2>1
    <3> QED
      BY <3>1
  <2>5. Fills(d, e, s, After(i), F)
    BY <1>7, <2>1
  <2>6. g[i + 1] = Replayed(e, cmds[k], t)
    BY <1>5, <2>1
  <2> HIDE DEF After, k, e
  <2>7. e \in DBType /\ Store(e, s)[k] = Store(d, s)[k]
    BY <2>2, <2>3, <2>5 DEF Fills
  <2>8. Puts(e, g[i + 1], s, k, F[k])
    BY <2>2, <2>6, <2>7
  <2>9. g[i + 1] \in DBType
    BY <2>8 DEF Puts
  <2>10. ASSUME NEW u \in StoreNames, NEW j \in Key
         PROVE  Store(g[i + 1], u)[j] = IF u = s /\ j \in After(i) \cup {k} THEN F[j] ELSE Store(d, u)[j]
    <3>1. Store(e, u)[j] = IF u = s /\ j \in After(i) THEN F[j] ELSE Store(d, u)[j]
      BY <2>5 DEF Fills
    <3>2. /\ Store(g[i + 1], s)[k] = F[k]
          /\ u # s \/ j # k => Store(g[i + 1], u)[j] = Store(e, u)[j]
      BY <2>8 DEF Puts
    <3> QED
      BY <3>1, <3>2
  <2> QED
    BY <2>4, <2>9, <2>10 DEF Fills
<1>8. \A i \in Nat : i \in S => i + 1 \in S
  <2> SUFFICES ASSUME NEW i \in Nat, i \in S PROVE i + 1 \in S
    OBVIOUS
  <2>1. i + 1 \in 0 .. n => Fills(d, g[i + 1], s, After(i + 1), F)
    BY <1>7
  <2> HIDE DEF After
  <2> QED
    BY <2>1
<1> HIDE DEF S
<1>9. n \in S
  BY <1>6, <1>8, Induction
<1>10. Fills(d, g[n], s, After(n), F)
  BY <1>9 DEF S
<1>11. After(n) = K
  <2>1. \A j \in 1 .. n : q[j] \in K
    BY <1>5
  <2>2. \A k \in K : \E i \in 1 .. n : q[i] = k
    BY <1>5
  <2> QED
    BY <2>1, <2>2
<1> QED
  BY <1>2, <1>5, <1>10, <1>11

-----------------------------------------------------------------------------
(* One command as a step of a build-up.                                    *)
LEMMA ExecPuts ==
  ASSUME NEW t \in Nat, NEW d \in DBType, NEW c \in Command, c.op # "DEL"
  PROVE  /\ c.op \in {"SET", "EXPIRE", "PEXPIREAT"} => Puts(d, Exec(d, c, t), "dict", c.key, DictAfter(d, c, c.key, t))
         /\ c.op \in {"SADD", "SREM", "SEXPIRE", "SEXPIREAT"} => Puts(d, Exec(d, c, t), "set", c.key, SetAfter(d, c, c.key, t))
         /\ c.op \in {"RPUSH", "LPUSH"} => Puts(d, Exec(d, c, t), "list", c.key, ListAfter(d, c, c.key))
         /\ c.op \in {"HSET", "HDEL"} => Puts(d, Exec(d, c, t), "hash", c.key, HashAfter(d, c, c.key))
<1> DEFINE e == Exec(d, c, t)
<1>1. e \in DBType
  BY ExecTyped
<1>2. /\ e.dict = [k \in Key |-> DictAfter(d, c, k, t)]
      /\ e.set = [k \in Key |-> SetAfter(d, c, k, t)]
      /\ e.list = [k \in Key |-> ListAfter(d, c, k)]
      /\ e.hash = [k \in Key |-> HashAfter(d, c, k)]
  BY ExecIs
<1>3. c.key \in Key
  BY CommandFields
<1>4. \A u \in StoreNames : u = "dict" \/ u = "set" \/ u = "list" \/ u = "hash"
  BY DEF StoreNames
<1> HIDE DEF e
<1>5. \A k \in Key :
        /\ Store(e, "dict")[k] = DictAfter(d, c, k, t)
        /\ Store(e, "set")[k] = SetAfter(d, c, k, t)
        /\ Store(e, "list")[k] = ListAfter(d, c, k)
        /\ Store(e, "hash")[k] = HashAfter(d, c, k)
        /\ Store(d, "dict")[k] = d.dict[k]
        /\ Store(d, "set")[k] = d.set[k]
        /\ Store(d, "list")[k] = d.list[k]
        /\ Store(d, "hash")[k] = d.hash[k]
  BY <1>2 DEF Store
<1>6. \A k \in Key :
        /\ k # c.key \/ c.op \notin {"SET", "EXPIRE", "PEXPIREAT"} => DictAfter(d, c, k, t) = d.dict[k]
        /\ k # c.key \/ c.op \notin {"SADD", "SREM", "SEXPIRE", "SEXPIREAT"} => SetAfter(d, c, k, t) = d.set[k]
        /\ k # c.key \/ c.op \notin {"LPUSH", "RPUSH", "LPOP", "RPOP", "SORT"} => ListAfter(d, c, k) = d.list[k]
        /\ k # c.key \/ c.op \notin {"HSET", "HDEL"} => HashAfter(d, c, k) = d.hash[k]
  BY DEF DictAfter, SetAfter, ListAfter, HashAfter
<1>7. CASE c.op \in {"SET", "EXPIRE", "PEXPIREAT"}
  <2>1. Puts(d, e, "dict", c.key, DictAfter(d, c, c.key, t))
    BY <1>1, <1>3, <1>4, <1>5, <1>6, <1>7 DEF Puts
  <2> QED
    BY <1>7, <2>1 DEF e
<1>8. CASE c.op \in {"SADD", "SREM", "SEXPIRE", "SEXPIREAT"}
  <2>1. Puts(d, e, "set", c.key, SetAfter(d, c, c.key, t))
    BY <1>1, <1>3, <1>4, <1>5, <1>6, <1>8 DEF Puts
  <2> QED
    BY <1>8, <2>1 DEF e
<1>9. CASE c.op \in {"LPUSH", "RPUSH"}
  <2>1. Puts(d, e, "list", c.key, ListAfter(d, c, c.key))
    BY <1>1, <1>3, <1>4, <1>5, <1>6, <1>9 DEF Puts
  <2> QED
    BY <1>9, <2>1 DEF e
<1>10. CASE c.op \in {"HSET", "HDEL"}
  <2>1. Puts(d, e, "hash", c.key, HashAfter(d, c, c.key))
    BY <1>1, <1>3, <1>4, <1>5, <1>6, <1>10 DEF Puts
  <2> QED
    BY <1>10, <2>1 DEF e
<1> QED
  BY <1>7, <1>8, <1>9, <1>10

(* Two commands for one key, the second on top of the first.               *)
LEMMA PutsTwice ==
  ASSUME NEW d, NEW e, NEW f, NEW s, NEW k, NEW v, NEW w, Puts(d, e, s, k, v), Puts(e, f, s, k, w)
  PROVE  Puts(d, f, s, k, w)
  BY DEF Puts

-----------------------------------------------------------------------------
(* The commands for each of the four stores.                               *)

(* The commands that bring deadlines of sets back: the rewrite writes one  *)
(* for the dict (aof.go:249), a load uses the store's own                  *)
(* (server.go:132-137).                                                    *)
Redates == {"PEXPIREAT", "SEXPIREAT"}

(* What a rebuild is made of.                                              *)
Builder(redate) == Loggable \cup {c \in Command : c.op = redate}

(* The four parts of Commands.                                             *)
DictCommands(d) ==
  InSomeOrder([k \in {j \in Key : d.dict[j] # Absent} |->
    <<SET(k, d.dict[k].value, 0)>>
      \o If(d.dict[k].deadline # 0, <<PEXPIREAT(k, d.dict[k].deadline)>>)])

SetCommands(d, redate) ==
  InSomeOrder([k \in {j \in Key : Members(d.set[j]) # {}} |->
    <<SADD(k, d.set[k].members)>>
      \o If(d.set[k].deadline # 0, <<[op |-> redate, key |-> k, at |-> d.set[k].deadline]>>)])

ListCommands(d) ==
  InSomeOrder([k \in {j \in Key : d.list[j] # << >>} |-> <<Refill(k, d.list[k])>>])

FieldCommands(k, h) == InSomeOrder([f \in DOMAIN h |-> <<HSET(k, [g \in {f} |-> h[f]])>>])

HashCommands(d) == InSomeOrder([k \in Key |-> FieldCommands(k, d.hash[k])])

(* Commands is the four parts one after the other.                         *)
LEMMA CommandsAre ==
  ASSUME NEW d, NEW redate
  PROVE  Commands(d, redate) =
           DictCommands(d) \o SetCommands(d, redate) \o ListCommands(d) \o HashCommands(d)
  BY DEF Commands, DictCommands, SetCommands, ListCommands, HashCommands, FieldCommands

(* What these are made of are commands.                                    *)
LEMMA RebuildRecords ==
  ASSUME NEW k \in Key
  PROVE  /\ \A v \in Value : SET(k, v, 0) \in Loggable
         /\ \A at \in Nat \ {0} : PEXPIREAT(k, at) \in Loggable
         /\ \A redate \in Redates : \A at \in Nat \ {0} :
              [op |-> redate, key |-> k, at |-> at] \in Builder(redate)
         /\ \A ms \in (SUBSET Value) \ {{}} : SADD(k, ms) \in Loggable
         /\ \A vs \in Seq(Value) : Refill(k, vs) \in Loggable
         /\ \A h \in HashItem : HSET(k, h) \in Loggable
<1>1. \A v \in Value : SET(k, v, 0) \in Loggable
  BY DEF SET, Loggable, Command
<1>2. \A at \in Nat \ {0} : PEXPIREAT(k, at) \in Loggable
  BY DEF PEXPIREAT, Loggable, Command
<1>3. ASSUME NEW redate \in Redates, NEW at \in Nat \ {0}
      PROVE  [op |-> redate, key |-> k, at |-> at] \in Builder(redate)
  <2>1. [op |-> redate, key |-> k, at |-> at] \in Command
    BY DEF Command, Redates
  <2>2. [op |-> redate, key |-> k, at |-> at].op = redate
    OBVIOUS
  <2> QED
    BY <2>1, <2>2, Zenon DEF Builder
<1>4. \A ms \in (SUBSET Value) \ {{}} : SADD(k, ms) \in Loggable
  BY DEF SADD, Loggable, Command
<1>5. \A vs \in Seq(Value) : Refill(k, vs) \in Loggable
  BY DEF Refill, RPUSH, Loggable, Command
<1>6. \A h \in HashItem : HSET(k, h) \in Loggable
  BY DEF HSET, Loggable, Command
<1> QED
  BY <1>1, <1>2, <1>3, <1>4, <1>5, <1>6

(* What a dump or a reader takes of an item.                               *)
Living(item, t) == IF Live(item, t) THEN item ELSE Absent

LEMMA LivingIs ==
  ASSUME NEW t \in Nat
  PROVE  /\ Living(Absent, t) = Absent
         /\ \A i \in DictItem \cup SetItem :
              Living(i, t) = IF i.deadline # 0 /\ Past(i.deadline, t) THEN Absent ELSE i
<1>1. Absent \notin DictItem \cup SetItem
  BY DatabaseAssumption
<1> QED
  BY <1>1, Zenon DEF Living, Live

LEMMA VisibleIs ==
  ASSUME NEW t \in Nat, NEW d \in DBType
  PROVE  /\ Visible(d, t) \in DBType
         /\ \A k \in Key : /\ Visible(d, t).dict[k] = Living(d.dict[k], t)
                            /\ Visible(d, t).set[k] = Living(d.set[k], t)
                            /\ Visible(d, t).list[k] = d.list[k]
                            /\ Visible(d, t).hash[k] = d.hash[k]
         /\ Visible(d, t).list = d.list /\ Visible(d, t).hash = d.hash
         /\ Visible(d, t).dict = Alive(d.dict, t) /\ Visible(d, t).set = Alive(d.set, t)
<1> DEFINE v == Visible(d, t)
<1>1. /\ v.dict = Alive(d.dict, t) /\ v.set = Alive(d.set, t)
      /\ v.list = d.list /\ v.hash = d.hash
      /\ v = [dict |-> Alive(d.dict, t), set |-> Alive(d.set, t), list |-> d.list, hash |-> d.hash]
  <2>1. d = [dict |-> d.dict, set |-> d.set, list |-> d.list, hash |-> d.hash]
    BY DBFields
  <2>2. v = [d EXCEPT !.dict = Alive(d.dict, t), !.set = Alive(d.set, t)]
    BY DEF Visible
  <2> DEFINE D == Alive(d.dict, t)
             S == Alive(d.set, t)
  <2> HIDE DEF D, S, v
  <2>3. v = [dict |-> D, set |-> S, list |-> d.list, hash |-> d.hash]
    BY <2>1, <2>2 DEF D, S
  <2> QED
    BY <2>3 DEF D, S
<1>2. /\ Alive(d.dict, t) = [k \in Key |-> Living(d.dict[k], t)]
      /\ Alive(d.set, t) = [k \in Key |-> Living(d.set[k], t)]
  BY DEF Alive, Living
<1>3. /\ \A i \in DictItem \cup {Absent} : Living(i, t) \in DictItem \cup {Absent}
      /\ \A i \in SetItem \cup {Absent} : Living(i, t) \in SetItem \cup {Absent}
  BY DEF Living
<1>4. /\ d.dict \in [Key -> DictItem \cup {Absent}] /\ d.set \in [Key -> SetItem \cup {Absent}]
      /\ d.list \in [Key -> Seq(Value)] /\ d.hash \in [Key -> HashItem]
  BY DBFields
<1>5. /\ Alive(d.dict, t) \in [Key -> DictItem \cup {Absent}]
      /\ Alive(d.set, t) \in [Key -> SetItem \cup {Absent}]
  BY <1>2, <1>3, <1>4
<1> HIDE DEF v
<1>6. v \in DBType
  BY <1>1, <1>4, <1>5 DEF DBType
<1> QED
  BY <1>1, <1>2, <1>6 DEF v

(* What PEXPIREAT or its like makes of an item without a deadline.         *)
LEMMA RedatedValue ==
  ASSUME NEW t \in Nat, NEW at \in Nat \ {0}
  PROVE  /\ \A v \in Value : Redated([value |-> v, deadline |-> 0], at, t)
                               = IF Past(at, t) THEN Absent ELSE [value |-> v, deadline |-> at]
         /\ \A ms \in (SUBSET Value) \ {{}} :
              Redated([members |-> ms, deadline |-> 0], at, t)
                = IF Past(at, t) THEN Absent ELSE [members |-> ms, deadline |-> at]
<1>1. ASSUME NEW v \in Value
      PROVE  Redated([value |-> v, deadline |-> 0], at, t)
               = IF Past(at, t) THEN Absent ELSE [value |-> v, deadline |-> at]
  <2>1. [value |-> v, deadline |-> 0] \in DictItem
    BY DEF DictItem
  <2>2. [value |-> v, deadline |-> 0] # Absent
    BY <2>1, DatabaseAssumption
  <2>3. [[value |-> v, deadline |-> 0] EXCEPT !.deadline = at] = [value |-> v, deadline |-> at]
    OBVIOUS
  <2> QED
    BY <2>2, <2>3, Zenon DEF Redated
<1>2. ASSUME NEW ms \in (SUBSET Value) \ {{}}
      PROVE  Redated([members |-> ms, deadline |-> 0], at, t)
               = IF Past(at, t) THEN Absent ELSE [members |-> ms, deadline |-> at]
  <2>1. [members |-> ms, deadline |-> 0] \in SetItem
    BY DEF SetItem
  <2>2. [members |-> ms, deadline |-> 0] # Absent
    BY <2>1, DatabaseAssumption
  <2>3. [[members |-> ms, deadline |-> 0] EXCEPT !.deadline = at] = [members |-> ms, deadline |-> at]
    OBVIOUS
  <2> QED
    BY <2>2, <2>3, Zenon DEF Redated
<1> QED
  BY <1>1, <1>2

(* The commands for a dict fill in what has not expired of it, whatever    *)
(* was there before.                                                       *)
LEMMA RebuildDict ==
  ASSUME NEW t \in Nat, NEW d \in DBType, NEW x \in DBType, NEW C, Loggable \subseteq C
  PROVE  /\ DictCommands(d) \in Seq(C)
         /\ Fills(x, Replayed(x, DictCommands(d), t), "dict", {j \in Key : d.dict[j] # Absent}, Visible(d, t).dict)
<1> DEFINE K == {j \in Key : d.dict[j] # Absent}
           L(k) == <<SET(k, d.dict[k].value, 0)>> \o If(d.dict[k].deadline # 0, <<PEXPIREAT(k, d.dict[k].deadline)>>)
           cmds == [k \in K |-> L(k)]
<1>1. ASSUME NEW k \in K, NEW y \in DBType
      PROVE  L(k) \in Seq(C) /\ Puts(y, Replayed(y, L(k), t), "dict", k, Visible(d, t).dict[k])
  <2> DEFINE v == d.dict[k].value
             at == d.dict[k].deadline
             a == SET(k, v, 0)
             b == PEXPIREAT(k, at)
             z == Exec(y, a, t)
  <2>1. k \in Key /\ d.dict[k] \in DictItem
    BY DBFields
  <2>2. /\ d.dict[k] = [value |-> v, deadline |-> at] /\ v \in Value /\ at \in Nat
        /\ Visible(d, t).dict[k] = IF at # 0 /\ Past(at, t) THEN Absent ELSE d.dict[k]
    BY <2>1, VisibleIs, LivingIs DEF DictItem
  <2>3. /\ a \in Loggable /\ a \in C /\ a \in Command
        /\ at # 0 => b \in Loggable /\ b \in C /\ b \in Command
    BY <2>1, <2>2, RebuildRecords DEF Loggable
  <2>4. /\ a.op = "SET" /\ a.key = k /\ a.val = v /\ a.ttl = 0
        /\ b.op = "PEXPIREAT" /\ b.key = k /\ b.at = at
    BY DEF SET, PEXPIREAT
  <2> HIDE DEF a, b, v, at
  <2>5. Puts(y, z, "dict", k, [value |-> v, deadline |-> 0])
    <3>1. Puts(y, z, "dict", k, DictAfter(y, a, k, t))
      BY <2>3, <2>4, ExecPuts
    <3>2. DictAfter(y, a, k, t) = [value |-> v, deadline |-> 0]
      BY <2>4 DEF DictAfter, Due
    <3> QED
      BY <3>1, <3>2
  <2> HIDE DEF z
  <2>6. z \in DBType /\ z.dict[k] = [value |-> v, deadline |-> 0]
    BY <2>5 DEF Puts, Store
  <2>7. CASE at = 0
    <3>1. L(k) = <<a>>
      BY <2>7, Short DEF If, a, b, v, at
    <3>2. <<a>> \in Seq(C) /\ Replayed(y, <<a>>, t) = z
      BY <2>3, Short, ReplayOne DEF z
    <3> HIDE DEF L
    <3> QED
      BY <2>2, <2>5, <2>7, <3>1, <3>2
  <2>8. CASE at # 0
    <3>1. L(k) = <<a, b>>
      <4>1. L(k) = <<a>> \o If(at # 0, <<b>>)
        BY DEF a, b, v, at
      <4>2. If(at # 0, <<b>>) = <<b>>
        BY <2>8 DEF If
      <4>3. <<a>> \o <<b>> = <<a, b>>
        BY Short
      <4> HIDE DEF L
      <4> QED
        BY <4>1, <4>2, <4>3, Zenon
    <3>2. <<a, b>> \in Seq(C) /\ Replayed(y, <<a, b>>, t) = Exec(z, b, t)
      BY <2>3, <2>8, Short, ReplayTwo DEF z
    <3>3. Puts(z, Exec(z, b, t), "dict", k, DictAfter(z, b, k, t))
      BY <2>3, <2>4, <2>6, <2>8, ExecPuts
    <3>4. DictAfter(z, b, k, t) = Redated([value |-> v, deadline |-> 0], at, t)
      BY <2>4, <2>6 DEF DictAfter
    <3>5. DictAfter(z, b, k, t) = Visible(d, t).dict[k]
      BY <2>2, <2>8, <3>4, RedatedValue
    <3>6. Puts(y, Exec(z, b, t), "dict", k, Visible(d, t).dict[k])
      BY <2>5, <3>3, <3>5, PutsTwice
    <3> HIDE DEF L
    <3> QED
      BY <3>1, <3>2, <3>6
  <2> HIDE DEF L
  <2> QED
    BY <2>2, <2>7, <2>8
<1> HIDE DEF L
<1>2. cmds \in [K -> Seq(C)] /\ \A k \in K : cmds[k] = L(k)
  BY <1>1
<1>3. DictCommands(d) = InSomeOrder(cmds)
  BY DEF DictCommands, L
<1> HIDE DEF cmds
<1>4. \A y \in DBType : \A k \in K : Puts(y, Replayed(y, cmds[k], t), "dict", k, Visible(d, t).dict[k])
  BY <1>1, <1>2
<1>5. "dict" \in StoreNames /\ K \in SUBSET Key
  BY DEF StoreNames
<1> HIDE DEF K
<1>6. InSomeOrder(cmds) \in Seq(C) /\ Fills(x, Replayed(x, InSomeOrder(cmds), t), "dict", K, Visible(d, t).dict)
  BY <1>2, <1>4, <1>5, BuildUp
<1> QED
  BY <1>3, <1>6 DEF K

(* Those for a set fill in that set, if nothing was there before.          *)
LEMMA RebuildSet ==
  ASSUME NEW t \in Nat, NEW d \in DBType, NEW x \in DBType, \A k \in Key : x.set[k] = Absent,
         NEW redate \in Redates, redate = "PEXPIREAT" => SetsUndated(d)
  PROVE  Fills(x, Replayed(x, SetCommands(d, redate), t), "set",
               {j \in Key : Members(d.set[j]) # {}}, Visible(d, t).set)
<1> DEFINE K == {j \in Key : Members(d.set[j]) # {}}
           L(k) == <<SADD(k, d.set[k].members)>>
                     \o If(d.set[k].deadline # 0, <<[op |-> redate, key |-> k, at |-> d.set[k].deadline]>>)
           cmds == [k \in K |-> L(k)]
<1>1. ASSUME NEW k \in K, NEW y \in DBType, y.set[k] = Absent
      PROVE  L(k) \in Seq(Command) /\ Puts(y, Replayed(y, L(k), t), "set", k, Visible(d, t).set[k])
  <2> DEFINE ms == d.set[k].members
             a == SADD(k, ms)
             at == d.set[k].deadline
             b == [op |-> redate, key |-> k, at |-> at]
             z == Exec(y, a, t)
  <2>1. k \in Key /\ d.set[k] # Absent /\ d.set[k] \in SetItem
    BY DBFields DEF Members
  <2>2. /\ d.set[k] = [members |-> ms, deadline |-> at] /\ ms \in (SUBSET Value) \ {{}} /\ at \in Nat
        /\ Visible(d, t).set[k] = IF at # 0 /\ Past(at, t) THEN Absent ELSE d.set[k]
    BY <2>1, VisibleIs, LivingIs DEF SetItem
  <2>3. a \in Command /\ (at # 0 => b \in Command)
    BY <2>1, <2>2, RebuildRecords DEF Loggable, Builder
  <2>4. /\ a.op = "SADD" /\ a.key = k /\ a.members = ms
        /\ b.op = redate /\ b.key = k /\ b.at = at
    BY DEF SADD
  <2> HIDE DEF a, b, ms, at
  <2>5. Puts(y, z, "set", k, [members |-> ms, deadline |-> 0])
    <3>1. Puts(y, z, "set", k, SetAfter(y, a, k, t))
      BY <2>3, <2>4, ExecPuts
    <3>2. SetAfter(y, a, k, t) = [members |-> ms, deadline |-> 0]
      BY <1>1, <2>4 DEF SetAfter, Sadd
    <3> QED
      BY <3>1, <3>2
  <2> HIDE DEF z
  <2>6. z \in DBType /\ z.set[k] = [members |-> ms, deadline |-> 0]
    BY <2>5 DEF Puts, Store
  <2>7. CASE at = 0
    <3>1. L(k) = <<a>>
      BY <2>7, Short DEF If, a, b, ms, at
    <3>2. <<a>> \in Seq(Command) /\ Replayed(y, <<a>>, t) = z
      BY <2>3, Short, ReplayOne DEF z
    <3> HIDE DEF L
    <3> QED
      BY <2>2, <2>5, <2>7, <3>1, <3>2
  <2>8. CASE at # 0
    <3>1. redate = "SEXPIREAT"
      BY <2>1, <2>8 DEF SetsUndated, Redates, at
    <3>2. L(k) = <<a, b>>
      <4>1. L(k) = <<a>> \o If(at # 0, <<b>>)
        BY DEF a, b, ms, at
      <4>2. If(at # 0, <<b>>) = <<b>>
        BY <2>8 DEF If
      <4>3. <<a>> \o <<b>> = <<a, b>>
        BY Short
      <4> HIDE DEF L
      <4> QED
        BY <4>1, <4>2, <4>3, Zenon
    <3>3. <<a, b>> \in Seq(Command) /\ Replayed(y, <<a, b>>, t) = Exec(z, b, t)
      BY <2>3, <2>8, Short, ReplayTwo DEF z
    <3>4. Puts(z, Exec(z, b, t), "set", k, SetAfter(z, b, k, t))
      BY <2>3, <2>4, <2>6, <2>8, <3>1, ExecPuts
    <3>5. SetAfter(z, b, k, t) = Redated([members |-> ms, deadline |-> 0], at, t)
      BY <2>4, <2>6, <3>1 DEF SetAfter
    <3>6. SetAfter(z, b, k, t) = Visible(d, t).set[k]
      BY <2>2, <2>8, <3>5, RedatedValue
    <3>7. Puts(y, Exec(z, b, t), "set", k, Visible(d, t).set[k])
      BY <2>5, <3>4, <3>6, PutsTwice
    <3> HIDE DEF L
    <3> QED
      BY <3>2, <3>3, <3>7
  <2> HIDE DEF L
  <2> QED
    BY <2>2, <2>7, <2>8
<1> HIDE DEF L
<1>2. \A k \in K : k \in Key
  OBVIOUS
<1>3. cmds \in [K -> Seq(Command)] /\ \A k \in K : cmds[k] = L(k)
  BY <1>2, <1>1
<1>4. SetCommands(d, redate) = InSomeOrder(cmds)
  BY DEF SetCommands, L
<1> HIDE DEF cmds
<1>5. ASSUME NEW y \in DBType, NEW k \in K, Store(y, "set")[k] = Store(x, "set")[k]
      PROVE  Puts(y, Replayed(y, cmds[k], t), "set", k, Visible(d, t).set[k])
  <2>1. y.set[k] = Absent
    BY <1>2, <1>5 DEF Store
  <2> QED
    BY <1>1, <1>3, <2>1
<1>6. "set" \in StoreNames /\ K \in SUBSET Key
  BY DEF StoreNames
<1> HIDE DEF K
<1>7. Fills(x, Replayed(x, InSomeOrder(cmds), t), "set", K, Visible(d, t).set)
  BY <1>3, <1>5, <1>6, BuildUp
<1> QED
  BY <1>4, <1>7 DEF K

(* Nothing in front of a list.                                             *)
LEMMA EmptyConcat ==
  ASSUME NEW C, NEW l \in Seq(C)
  PROVE  << >> \o l = l
<1>1. << >> \o l = [i \in 1 .. Len(l) |-> l[i]] /\ l = [i \in 1 .. Len(l) |-> l[i]]
  OBVIOUS
<1> QED
  BY <1>1

(* One RPUSH for each list.                                                *)
LEMMA RebuildList ==
  ASSUME NEW t \in Nat, NEW d \in DBType, NEW x \in DBType, \A k \in Key : x.list[k] = << >>, NEW C, Loggable \subseteq C
  PROVE  /\ ListCommands(d) \in Seq(C)
         /\ Fills(x, Replayed(x, ListCommands(d), t), "list", {j \in Key : d.list[j] # << >>}, d.list)
<1> DEFINE K == {j \in Key : d.list[j] # << >>}
           L(k) == <<Refill(k, d.list[k])>>
           cmds == [k \in K |-> L(k)]
<1>1. ASSUME NEW k \in K, NEW y \in DBType, y.list[k] = << >>
      PROVE  L(k) \in Seq(C) /\ Puts(y, Replayed(y, L(k), t), "list", k, d.list[k])
  <2> DEFINE vs == d.list[k]
             a == Refill(k, vs)
  <2>1. k \in Key /\ vs \in Seq(Value)
    BY DBFields
  <2>2. a \in Loggable /\ a \in C /\ a \in Command
    BY <2>1, RebuildRecords DEF Loggable
  <2>3. a.op = "RPUSH" /\ a.key = k /\ a.vals = vs
    BY DEF Refill, RPUSH
  <2>4. L(k) = <<a>>
    OBVIOUS
  <2> HIDE DEF a, L, vs
  <2>5. Replayed(y, <<a>>, t) = Exec(y, a, t) /\ <<a>> \in Seq(C)
    BY <2>2, Short, ReplayOne
  <2>6. Puts(y, Exec(y, a, t), "list", k, ListAfter(y, a, k))
    BY <2>2, <2>3, ExecPuts
  <2>7. ListAfter(y, a, k) = << >> \o vs
    BY <1>1, <2>3 DEF ListAfter
  <2>8. << >> \o vs = vs
    BY <2>1, EmptyConcat
  <2>9. vs = d.list[k]
    BY DEF vs
  <2> QED
    BY <2>4, <2>5, <2>6, <2>7, <2>8, <2>9
<1> HIDE DEF L
<1>2. \A k \in K : k \in Key
  OBVIOUS
<1>3. cmds \in [K -> Seq(C)] /\ \A k \in K : cmds[k] = L(k)
  BY <1>2, <1>1
<1>4. ListCommands(d) = InSomeOrder(cmds)
  BY DEF ListCommands, L
<1> HIDE DEF cmds
<1>5. ASSUME NEW y \in DBType, NEW k \in K, Store(y, "list")[k] = Store(x, "list")[k]
      PROVE  Puts(y, Replayed(y, cmds[k], t), "list", k, d.list[k])
  <2>1. y.list[k] = << >>
    BY <1>2, <1>5 DEF Store
  <2> QED
    BY <1>1, <1>3, <2>1
<1>6. "list" \in StoreNames /\ K \in SUBSET Key
  BY DEF StoreNames
<1> HIDE DEF K
<1>7. InSomeOrder(cmds) \in Seq(C) /\ Fills(x, Replayed(x, InSomeOrder(cmds), t), "list", K, d.list)
  BY <1>3, <1>5, <1>6, BuildUp
<1> QED
  BY <1>4, <1>7 DEF K

-----------------------------------------------------------------------------
(* A hash with one field, and one with a field more.                       *)
Only(f, v) == [g \in {f} |-> v]
Plus(m, f, v) == [g \in {f} \cup DOMAIN m |-> IF g = f THEN v ELSE m[g]]

(* HSET of one field at a time.                                            *)
LEMMA OneField ==
  ASSUME NEW h \in HashItem, NEW f \in DOMAIN h
  PROVE  /\ Only(f, h[f]) \in HashItem
         /\ \A m : Overwrite(m, Only(f, h[f])) = Plus(m, f, h[f])
<1> DEFINE p == Only(f, h[f])
<1>1. DOMAIN p = {f} /\ p[f] = h[f] /\ p = [g \in DOMAIN p |-> p[g]]
  BY DEF Only
<1>2. DOMAIN h \subseteq Field /\ h[f] \in Value
  BY HashItems
<1> HIDE DEF p
<1>3. p \in HashItem
  BY <1>1, <1>2, HashItems
<1>4. ASSUME NEW m PROVE Overwrite(m, p) = Plus(m, f, h[f])
  <2>1. \A g : g \in DOMAIN p <=> g = f
    BY <1>1
  <2>2. Overwrite(m, p) = [g \in {f} \cup DOMAIN m |-> IF g \in DOMAIN p THEN p[g] ELSE m[g]]
    BY <1>1 DEF Overwrite
  <2> QED
    BY <1>1, <2>1, <2>2 DEF Plus
<1> QED
  BY <1>3, <1>4 DEF p

(* Field by field a hash is filled in, whatever the order.                 *)
LEMMA RebuildFields ==
  ASSUME NEW t \in Nat, NEW d \in DBType, NEW h \in HashItem, NEW k \in Key, d.hash[k] = << >>, NEW C, Loggable \subseteq C
  PROVE  /\ FieldCommands(k, h) \in Seq(C)
         /\ Puts(d, Replayed(d, FieldCommands(k, h), t), "hash", k, h)
<1> DEFINE K == DOMAIN h
           H(f) == HSET(k, Only(f, h[f]))
           cmds == [f \in K |-> <<H(f)>>]
<1>1. K \subseteq Field /\ IsFiniteSet(K) /\ h = [f \in K |-> h[f]]
  <2>1. K \subseteq Field /\ h = [f \in K |-> h[f]]
    BY HashItems
  <2> QED
    BY <2>1, DatabaseAssumption, FS_Subset
<1>2. ASSUME NEW f \in K, NEW y \in DBType
      PROVE  /\ <<H(f)>> \in Seq(C)
             /\ Puts(y, Replayed(y, <<H(f)>>, t), "hash", k, Plus(y.hash[k], f, h[f]))
  <2> DEFINE p == Only(f, h[f])
             a == HSET(k, p)
  <2>1. f \in DOMAIN h
    BY <1>2
  <2>2. p \in HashItem /\ Overwrite(y.hash[k], p) = Plus(y.hash[k], f, h[f])
    BY <2>1, OneField
  <2>3. H(f) = a
    OBVIOUS
  <2> HIDE DEF p, H
  <2>4. a.op = "HSET" /\ a.key = k /\ a.pairs = p
    BY DEF HSET
  <2>5. a \in Loggable /\ a \in Command /\ a \in C
    BY <2>2, RebuildRecords DEF Loggable
  <2> HIDE DEF a
  <2>6. Puts(y, Exec(y, a, t), "hash", k, HashAfter(y, a, k))
    BY <2>4, <2>5, ExecPuts
  <2>7. HashAfter(y, a, k) = Overwrite(y.hash[k], p)
    BY <2>4 DEF HashAfter
  <2>8. Replayed(y, <<a>>, t) = Exec(y, a, t) /\ <<a>> \in Seq(C)
    BY <2>5, Short, ReplayOne
  <2> QED
    <3>1. <<H(f)>> \in Seq(C) /\ Replayed(y, <<H(f)>>, t) = Exec(y, a, t)
      BY <2>3, <2>8
    <3>2. Puts(y, Exec(y, a, t), "hash", k, Plus(y.hash[k], f, h[f]))
      BY <2>2, <2>6, <2>7, Zenon
    <3> QED
      BY <3>1, <3>2, Zenon
<1> HIDE DEF H
<1>3. cmds \in [K -> Seq(C)] /\ \A f \in K : cmds[f] = <<H(f)>>
  <2>1. \A f \in K : <<H(f)>> \in Seq(C)
    BY <1>2
  <2> QED
    BY <2>1
<1>4. FieldCommands(k, h) = InSomeOrder(cmds)
  BY DEF FieldCommands, H, Only
<1> HIDE DEF cmds, K
<1>5. InSomeOrder(cmds) \in Seq(C) /\ \E n \in Nat : \E q, g : Walk(q, g, n, K, cmds, d, t)
  BY <1>1, <1>3, InSomeOrderReplay
<1>6. PICK n \in Nat : \E q, g : Walk(q, g, n, K, cmds, d, t)
  BY <1>5
<1>7. PICK q, g : Walk(q, g, n, K, cmds, d, t)
  BY <1>6
<1>8. /\ q \in [1 .. n -> K]
      /\ \A i, j \in 1 .. n : q[i] = q[j] => i = j
      /\ \A f \in K : \E i \in 1 .. n : q[i] = f
      /\ g[0] = d
      /\ \A i \in 1 .. n : g[i] = Replayed(g[i - 1], cmds[q[i]], t)
      /\ Replayed(d, InSomeOrder(cmds), t) = g[n]
  BY <1>7 DEF Walk
<1>9. "hash" \in StoreNames /\ \A y \in DBType : Store(y, "hash") = y.hash
  BY DEF StoreNames, Store
<1> DEFINE After(i) == {q[j] : j \in 1 .. i}
           Part(F) == [f \in F |-> h[f]]
           S == {i \in Nat : i \in 0 .. n => Puts(d, g[i], "hash", k, Part(After(i)))}
<1>10. 0 \in S
  <2>1. After(0) = {}
    OBVIOUS
  <2>2. Part({}) = << >>
    <3>1. DOMAIN << >> = {} /\ << >> = [i \in DOMAIN << >> |-> << >>[i]]
      OBVIOUS
    <3> QED
      BY <3>1
  <2> HIDE DEF After, Part
  <2>3. Puts(d, g[0], "hash", k, Part(After(0)))
    BY <1>8, <1>9, <2>1, <2>2 DEF Puts
  <2> QED
    BY <2>3
<1>11. ASSUME NEW i \in Nat, i \in S, i + 1 \in 0 .. n
       PROVE  Puts(d, g[i + 1], "hash", k, Part(After(i + 1)))
  <2> DEFINE f == q[i + 1]
             e == g[i]
  <2>1. i \in 0 .. n /\ i + 1 \in 1 .. n /\ (i + 1) - 1 = i
    BY <1>11
  <2>2. f \in K
    BY <1>8, <2>1
  <2>3. After(i + 1) = After(i) \cup {f}
    <3>1. 1 .. i + 1 = (1 .. i) \cup {i + 1}
      BY <2>1
    <3> QED
      BY <3>1
  <2>4. Puts(d, e, "hash", k, Part(After(i)))
    BY <1>11, <2>1
  <2>5. g[i + 1] = Replayed(e, <<H(f)>>, t)
    BY <1>3, <1>8, <2>1, <2>2
  <2> HIDE DEF After, f, e
  <2>6. e \in DBType /\ e.hash[k] = Part(After(i))
    BY <1>9, <2>4 DEF Puts
  <2>7. Puts(e, g[i + 1], "hash", k, Plus(e.hash[k], f, h[f]))
    BY <1>2, <2>2, <2>5, <2>6
  <2>8. Plus(e.hash[k], f, h[f]) = Part(After(i) \cup {f})
    BY <2>6 DEF Plus
  <2> HIDE DEF Part
  <2>9. Puts(e, g[i + 1], "hash", k, Part(After(i) \cup {f}))
    BY <2>7, <2>8
  <2>10. Puts(d, g[i + 1], "hash", k, Part(After(i) \cup {f}))
    BY <2>4, <2>9 DEF Puts
  <2> QED
    BY <2>3, <2>10
<1>12. \A i \in Nat : i \in S => i + 1 \in S
  <2> SUFFICES ASSUME NEW i \in Nat, i \in S PROVE i + 1 \in S
    OBVIOUS
  <2>1. i + 1 \in 0 .. n => Puts(d, g[i + 1], "hash", k, Part(After(i + 1)))
    BY <1>11
  <2> HIDE DEF After, Part
  <2> QED
    BY <2>1
<1> HIDE DEF S
<1>13. n \in S
  BY <1>10, <1>12, Induction
<1>14. Puts(d, g[n], "hash", k, Part(After(n)))
  BY <1>13 DEF S
<1>15. After(n) = K
  <2>1. \A j \in 1 .. n : q[j] \in K
    BY <1>8
  <2>2. \A f \in K : \E i \in 1 .. n : q[i] = f
    BY <1>8
  <2> QED
    BY <2>1, <2>2
<1>16. Part(K) = h
  BY <1>1
<1> HIDE DEF Part, After
<1> QED
  BY <1>4, <1>5, <1>8, <1>14, <1>15, <1>16

(* And so is the store of hashes.                                          *)
LEMMA RebuildHash ==
  ASSUME NEW t \in Nat, NEW d \in DBType, NEW x \in DBType, \A k \in Key : x.hash[k] = << >>, NEW C, Loggable \subseteq C
  PROVE  /\ HashCommands(d) \in Seq(C)
         /\ Fills(x, Replayed(x, HashCommands(d), t), "hash", Key, d.hash)
<1> DEFINE L(k) == FieldCommands(k, d.hash[k])
           cmds == [k \in Key |-> L(k)]
<1>1. ASSUME NEW k \in Key, NEW y \in DBType, y.hash[k] = << >>
      PROVE  L(k) \in Seq(C) /\ Puts(y, Replayed(y, L(k), t), "hash", k, d.hash[k])
  <2>1. d.hash[k] \in HashItem
    BY DBFields
  <2> QED
    BY <1>1, <2>1, RebuildFields
<1> HIDE DEF L
<1>2. cmds \in [Key -> Seq(C)] /\ \A k \in Key : cmds[k] = L(k)
  BY <1>1
<1>3. HashCommands(d) = InSomeOrder(cmds)
  BY DEF HashCommands, L
<1> HIDE DEF cmds
<1>4. ASSUME NEW y \in DBType, NEW k \in Key, Store(y, "hash")[k] = Store(x, "hash")[k]
      PROVE  Puts(y, Replayed(y, cmds[k], t), "hash", k, d.hash[k])
  <2>1. y.hash[k] = << >>
    BY <1>4 DEF Store
  <2> QED
    BY <1>1, <1>2, <2>1
<1>5. "hash" \in StoreNames /\ Key \in SUBSET Key
  BY DEF StoreNames
<1>6. InSomeOrder(cmds) \in Seq(C) /\ Fills(x, Replayed(x, InSomeOrder(cmds), t), "hash", Key, d.hash)
  BY <1>2, <1>4, <1>5, BuildUp
<1> QED
  BY <1>3, <1>6

(* The commands of a rebuild are records, the redate of a set aside.       *)
LEMMA SetCommandsTyped ==
  ASSUME NEW d \in DBType, NEW redate \in Redates
  PROVE  SetCommands(d, redate) \in Seq(Builder(redate))
<1> DEFINE K == {j \in Key : Members(d.set[j]) # {}}
           L(k) == <<SADD(k, d.set[k].members)>>
                     \o If(d.set[k].deadline # 0, <<[op |-> redate, key |-> k, at |-> d.set[k].deadline]>>)
           cmds == [k \in K |-> L(k)]
           C == Builder(redate)
<1>1. ASSUME NEW k \in K PROVE L(k) \in Seq(C)
  <2> DEFINE ms == d.set[k].members
             a == SADD(k, ms)
             at == d.set[k].deadline
             b == [op |-> redate, key |-> k, at |-> at]
             i == If(at # 0, <<b>>)
  <2>1. k \in Key /\ ms \in (SUBSET Value) \ {{}} /\ at \in Nat
    BY DBFields DEF Members, SetItem
  <2>2. a \in C /\ (at # 0 => b \in C)
    BY <2>1, RebuildRecords DEF Builder
  <2>3. L(k) = <<a>> \o i
    OBVIOUS
  <2> HIDE DEF a, b, at, L, C
  <2>4. <<a>> \in Seq(C) /\ i \in Seq(C)
    BY <2>2, Short DEF If
  <2> HIDE DEF i
  <2> QED
    BY <2>3, <2>4
<1> HIDE DEF L, C
<1>2. cmds \in [K -> Seq(C)]
  BY <1>1
<1>3. SetCommands(d, redate) = InSomeOrder(cmds)
  BY DEF SetCommands, L
<1>4. IsFiniteSet(K)
  BY DatabaseAssumption, FS_Subset
<1> HIDE DEF cmds, K
<1> QED
  BY <1>2, <1>3, <1>4, InSomeOrderReplay DEF C

LEMMA CommandsTyped ==
  ASSUME NEW d \in DBType, NEW redate \in Redates
  PROVE  /\ DictCommands(d) \in Seq(Builder(redate))
         /\ SetCommands(d, redate) \in Seq(Builder(redate))
         /\ ListCommands(d) \in Seq(Builder(redate))
         /\ HashCommands(d) \in Seq(Builder(redate))
         /\ Commands(d, redate) \in Seq(Builder(redate))
         /\ Builder("PEXPIREAT") = Loggable
         /\ Builder(redate) \subseteq Command
<1> DEFINE C == Builder(redate)
<1>1. Loggable \subseteq C
  BY DEF Builder
<1>2. EmptyDB \in DBType /\ \A k \in Key : EmptyDB.list[k] = << >> /\ EmptyDB.hash[k] = << >>
  BY EmptyTyped DEF EmptyDB
<1> HIDE DEF C
<1>3. /\ DictCommands(d) \in Seq(C) /\ ListCommands(d) \in Seq(C) /\ HashCommands(d) \in Seq(C)
  BY <1>1, <1>2, RebuildDict, RebuildList, RebuildHash
<1>4. SetCommands(d, redate) \in Seq(C)
  BY SetCommandsTyped DEF C
<1>5. Commands(d, redate) \in Seq(C)
  <2>1. /\ DictCommands(d) \o SetCommands(d, redate) \in Seq(C)
        /\ (DictCommands(d) \o SetCommands(d, redate)) \o ListCommands(d) \in Seq(C)
    BY <1>3, <1>4
  <2>2. ((DictCommands(d) \o SetCommands(d, redate)) \o ListCommands(d)) \o HashCommands(d) \in Seq(C)
    BY <1>3, <2>1
  <2> QED
    BY <2>2, CommandsAre
<1>6. Builder("PEXPIREAT") = Loggable
  BY DEF Builder, Loggable
<1>7. Builder(redate) \subseteq Command
  BY DEF Builder, Loggable
<1> QED
  BY <1>3, <1>4, <1>5, <1>6, <1>7 DEF C

(* A rebuild starts from nothing.                                          *)
LEMMA StoresOfEmpty ==
  \A k \in Key : /\ Store(EmptyDB, "dict")[k] = Absent
                 /\ Store(EmptyDB, "set")[k] = Absent
                 /\ Store(EmptyDB, "list")[k] = << >>
                 /\ Store(EmptyDB, "hash")[k] = << >>
  BY DEF Store, EmptyDB

(* What a rewrite or an RDB load makes of a dump, from nothing, is the     *)
(* dump but for what has expired of it.                                    *)
THEOREM Rebuilt ==
  ASSUME NEW t \in Nat, NEW d \in DBType, NEW redate \in Redates, redate = "PEXPIREAT" => SetsUndated(d)
  PROVE  Replayed(EmptyDB, Commands(d, redate), t) = Visible(d, t)
<1> DEFINE C == Builder(redate)
           D == DictCommands(d)
           S == SetCommands(d, redate)
           L == ListCommands(d)
           H == HashCommands(d)
           x1 == Replayed(EmptyDB, D, t)
           x2 == Replayed(x1, S, t)
           x3 == Replayed(x2, L, t)
           x4 == Replayed(x3, H, t)
           KD == {j \in Key : d.dict[j] # Absent}
           KS == {j \in Key : Members(d.set[j]) # {}}
           KL == {j \in Key : d.list[j] # << >>}
<1>1. /\ Loggable \subseteq C
      /\ D \in Seq(C) /\ S \in Seq(C) /\ L \in Seq(C) /\ H \in Seq(C)
      /\ Commands(d, redate) = D \o S \o L \o H
  BY CommandsTyped, CommandsAre DEF Builder
<1>2. Fills(EmptyDB, x1, "dict", KD, Visible(d, t).dict)
  BY <1>1, EmptyTyped, RebuildDict
<1>3. \A s \in StoreNames : s = "dict" \/ s = "set" \/ s = "list" \/ s = "hash"
  BY DEF StoreNames
<1>4. "dict" \in StoreNames /\ "set" \in StoreNames /\ "list" \in StoreNames /\ "hash" \in StoreNames
  BY DEF StoreNames
<1> HIDE DEF C, D, S, L, H, x1, x2, x3, x4, KD, KS, KL
<1>5. Fills(x1, x2, "set", KS, Visible(d, t).set)
  <2>1. x1 \in DBType
    BY <1>2 DEF Fills
  <2>2. ASSUME NEW k \in Key PROVE x1.set[k] = Absent
    <3>1. Store(x1, "set")[k] = Store(EmptyDB, "set")[k]
      BY <1>2, <1>4 DEF Fills
    <3> QED
      BY <3>1, StoresOfEmpty DEF Store
  <2> QED
    BY <2>1, <2>2, RebuildSet DEF x2, S, KS
<1>6. Fills(x2, x3, "list", KL, d.list)
  <2>1. x2 \in DBType
    BY <1>5 DEF Fills
  <2>2. ASSUME NEW k \in Key PROVE x2.list[k] = << >>
    <3>1. Store(x1, "list")[k] = Store(EmptyDB, "list")[k]
      BY <1>2, <1>4 DEF Fills
    <3>2. Store(x2, "list")[k] = Store(x1, "list")[k]
      BY <1>5, <1>4 DEF Fills
    <3> QED
      BY <3>1, <3>2, StoresOfEmpty DEF Store
  <2> QED
    BY <2>1, <2>2, RebuildList DEF x3, L, KL
<1>7. Fills(x3, x4, "hash", Key, d.hash)
  <2>1. x3 \in DBType
    BY <1>6 DEF Fills
  <2>2. ASSUME NEW k \in Key PROVE x3.hash[k] = << >>
    <3>1. Store(x1, "hash")[k] = Store(EmptyDB, "hash")[k]
      BY <1>2, <1>4 DEF Fills
    <3>2. Store(x2, "hash")[k] = Store(x1, "hash")[k]
      BY <1>5, <1>4 DEF Fills
    <3>3. Store(x3, "hash")[k] = Store(x2, "hash")[k]
      BY <1>6, <1>4 DEF Fills
    <3> QED
      BY <3>1, <3>2, <3>3, StoresOfEmpty DEF Store
  <2> QED
    BY <2>1, <2>2, RebuildHash DEF x4, H
<1>8. x4 \in DBType
  BY <1>7 DEF Fills
<1>9. ASSUME NEW s \in StoreNames, NEW k \in Key PROVE Store(x4, s)[k] = Store(Visible(d, t), s)[k]
  <2>1. /\ Store(x1, s)[k] = IF s = "dict" /\ k \in KD THEN Visible(d, t).dict[k] ELSE Store(EmptyDB, s)[k]
        /\ Store(x2, s)[k] = IF s = "set" /\ k \in KS THEN Visible(d, t).set[k] ELSE Store(x1, s)[k]
        /\ Store(x3, s)[k] = IF s = "list" /\ k \in KL THEN d.list[k] ELSE Store(x2, s)[k]
        /\ Store(x4, s)[k] = IF s = "hash" /\ k \in Key THEN d.hash[k] ELSE Store(x3, s)[k]
    BY <1>2, <1>5, <1>6, <1>7 DEF Fills
  <2>2. /\ Store(EmptyDB, "dict")[k] = Absent
        /\ Store(EmptyDB, "set")[k] = Absent
        /\ Store(EmptyDB, "list")[k] = << >>
    BY StoresOfEmpty
  <2>3. CASE s = "dict"
    <3>1. k \notin KD => Visible(d, t).dict[k] = Absent
      BY VisibleIs, LivingIs DEF KD
    <3> QED
      BY <2>1, <2>2, <2>3, <3>1 DEF Store
  <2>4. CASE s = "set"
    <3>1. k \notin KS => d.set[k] = Absent
      BY DBFields DEF KS, Members, SetItem
    <3>2. k \notin KS => Visible(d, t).set[k] = Absent
      BY <3>1, VisibleIs, LivingIs
    <3> QED
      BY <2>1, <2>2, <2>4, <3>2 DEF Store
  <2>5. CASE s = "list"
    <3>1. k \notin KL => d.list[k] = << >>
      BY DEF KL
    <3> QED
      BY <2>1, <2>2, <2>5, <3>1, VisibleIs DEF Store
  <2>6. CASE s = "hash"
    BY <2>1, <2>6, VisibleIs DEF Store
  <2> QED
    BY <1>3, <2>3, <2>4, <2>5, <2>6
<1>10. x4 = Visible(d, t)
  BY <1>8, <1>9, VisibleIs, SameDatabase
<1>11. Replayed(EmptyDB, Commands(d, redate), t) = x4
  <2>1. D \o S \in Seq(C) /\ (D \o S) \o L \in Seq(C)
    BY <1>1
  <2>2. Replayed(EmptyDB, D \o S, t) = x2
    BY <1>1, ReplayConcat DEF x2, x1
  <2> DEFINE DS == D \o S
             DSL == DS \o L
  <2> HIDE DEF DS
  <2>3. DS \in Seq(C) /\ Replayed(EmptyDB, DS, t) = x2
    BY <2>1, <2>2 DEF DS
  <2>4. Replayed(EmptyDB, DS \o L, t) = x3
    BY <1>1, <2>3, ReplayConcat DEF x3
  <2>5. DSL \in Seq(C)
    BY <1>1, <2>3
  <2> HIDE DEF DSL
  <2>6. Replayed(EmptyDB, DSL, t) = x3
    BY <2>4 DEF DSL
  <2>7. Replayed(EmptyDB, DSL \o H, t) = x4
    BY <1>1, <2>5, <2>6, ReplayConcat DEF x4
  <2>8. Commands(d, redate) = DSL \o H
    BY <1>1 DEF DSL, DS
  <2> QED
    BY <2>7, <2>8
<1> QED
  BY <1>10, <1>11

(* What a start makes of an RDB file is what was saved there, without what *)
(* has expired since.                                                      *)
THEOREM LoadRestores ==
  ASSUME NEW t \in Nat, NEW d \in DBType
  PROVE  LoadedRDB(d, t) = IF d = Absent THEN EmptyDB ELSE Visible(d, t)
  BY Rebuilt DEF LoadedRDB, Redates

-----------------------------------------------------------------------------
(* What a log replayed at time t makes of the item of the dict under k,    *)
(* one of the effects above.                                               *)
Makes(f, L, k, t) ==
  f \in DictEffects /\ \A d \in DBType : Replayed(d, L, t).dict[k] = f[d.dict[k]]

After(L, k, t) == CHOOSE f : Makes(f, L, k, t)

LEMMA AfterIs ==
  ASSUME NEW t \in Nat, NEW L \in Seq(Loggable), NEW k \in Key
  PROVE  Makes(After(L, k, t), L, k, t)
<1>1. PICK f \in DictEffects : \A d \in DBType : View(Replayed(d, L, t), "dict", k) = f[View(d, "dict", k)]
  BY DictEffect
<1>2. Makes(f, L, k, t)
  BY <1>1 DEF Makes, View
<1> QED
  BY <1>2 DEF After

(* Every item is that of some database.                                    *)
LEMMA ItemOfSome ==
  ASSUME NEW k \in Key, NEW z \in DictItems
  PROVE  \E d \in DBType : d.dict[k] = z
<1> DEFINE e == EmptyDB
           D == [j \in Key |-> z]
           d == [dict |-> D, set |-> e.set, list |-> e.list, hash |-> e.hash]
<1>1. e \in DBType
  BY EmptyTyped
<1> HIDE DEF e
<1>2. D \in [Key -> DictItem \cup {Absent}] /\ D[k] = z
  BY DEF DictItems
<1> HIDE DEF D
<1>3. d \in DBType /\ d.dict[k] = z
  BY <1>1, <1>2 DEF DBType
<1> QED
  BY <1>3

LEMMA AfterItem ==
  ASSUME NEW t \in Nat, NEW L \in Seq(Loggable), NEW k \in Key, NEW z \in DictItems
  PROVE  /\ After(L, k, t) \in DictEffects /\ After(L, k, t)[z] \in DictItems
         /\ \A d \in DBType : Replayed(d, L, t).dict[k] = After(L, k, t)[d.dict[k]]
<1> DEFINE f == After(L, k, t)
<1>1. Makes(f, L, k, t)
  BY AfterIs
<1> HIDE DEF f
<1>2. f \in DictEffects /\ \A d \in DBType : Replayed(d, L, t).dict[k] = f[d.dict[k]]
  BY <1>1 DEF Makes
<1>3. f \in [DictItems -> DictItems]
  BY <1>2 DEF DictEffects
<1> QED
  BY <1>2, <1>3 DEF f

(* The item after no record, after one log and then another, and after one *)
(* record.                                                                 *)
Made(c, k, t, z) ==
  CASE c.op = "SET" /\ k = c.key -> [value |-> c.val, deadline |-> 0]
    [] c.op = "DEL" /\ k \in c.keys -> Absent
    [] c.op = "PEXPIREAT" /\ k = c.key -> Redated(z, c.at, t)
    [] OTHER -> z

LEMMA AfterNothing ==
  ASSUME NEW t \in Nat, NEW k \in Key, NEW z \in DictItems
  PROVE  After(<< >>, k, t)[z] = z
<1>1. PICK d \in DBType : d.dict[k] = z
  BY ItemOfSome
<1>2. \A L : L = << >> => L \in Seq(Loggable) /\ Replayed(d, L, t) = d
  BY ReplayEmpty
<1>3. \A L : L = << >> => After(L, k, t)[z] = z
  BY <1>1, <1>2, AfterItem
<1> QED
  BY <1>3

LEMMA AfterBoth ==
  ASSUME NEW t \in Nat, NEW L \in Seq(Loggable), NEW M \in Seq(Loggable), NEW k \in Key, NEW z \in DictItems
  PROVE  After(L \o M, k, t)[z] = After(M, k, t)[After(L, k, t)[z]]
<1>1. PICK d \in DBType : d.dict[k] = z
  BY ItemOfSome
<1>2. Replayed(d, L, t) \in DBType /\ Replayed(d, L \o M, t) = Replayed(Replayed(d, L, t), M, t)
  BY LogTyped, ReplayConcat
<1>3. L \o M \in Seq(Loggable)
  OBVIOUS
<1>4. Replayed(d, L \o M, t).dict[k] = After(L \o M, k, t)[z]
  BY <1>1, <1>3, AfterItem
<1>5. Replayed(d, L, t).dict[k] = After(L, k, t)[z]
  BY <1>1, AfterItem
<1>6. Replayed(Replayed(d, L, t), M, t).dict[k] = After(M, k, t)[Replayed(d, L, t).dict[k]]
  BY <1>2, AfterItem
<1> QED
  BY <1>2, <1>4, <1>5, <1>6

LEMMA AfterOne ==
  ASSUME NEW t \in Nat, NEW c \in Loggable, NEW k \in Key, NEW z \in DictItems
  PROVE  After(<<c>>, k, t)[z] = Made(c, k, t, z)
<1>1. PICK d \in DBType : d.dict[k] = z
  BY ItemOfSome
<1> DEFINE one == <<c>>
<1>2. one \in Seq(Loggable) /\ Replayed(d, one, t) = Exec(d, c, t)
  BY ReplayOne, Short
<1> HIDE DEF one
<1>3. c \in Command /\ c.op # "EXPIRE" /\ (c.op = "SET" => c.ttl = 0)
  BY DEF Loggable
<1>4. Exec(d, c, t).dict[k] = DictAfter(d, c, k, t)
  BY <1>3, ExecViews DEF View
<1>5. DictAfter(d, c, k, t) = Made(c, k, t, z)
  BY <1>1, <1>3 DEF DictAfter, Made, Due
<1>6. After(one, k, t)[z] = Made(c, k, t, z)
  BY <1>1, <1>2, <1>4, <1>5, AfterItem
<1> QED
  BY <1>6 DEF one

LEMMA AfterMore ==
  ASSUME NEW t \in Nat, NEW L \in Seq(Loggable), NEW c \in Loggable, NEW k \in Key, NEW z \in DictItems
  PROVE  After(Append(L, c), k, t)[z] = Made(c, k, t, After(L, k, t)[z])
<1> DEFINE one == <<c>>
<1>1. Append(L, c) = L \o one /\ one \in Seq(Loggable)
  OBVIOUS
<1>2. After(L, k, t)[z] \in DictItems
  BY AfterItem
<1>3. \A y \in DictItems : After(one, k, t)[y] = Made(c, k, t, y)
  BY AfterOne
<1> HIDE DEF one
<1>4. After(L \o one, k, t)[z] = After(one, k, t)[After(L, k, t)[z]]
  BY <1>1, AfterBoth
<1> QED
  BY <1>1, <1>2, <1>3, <1>4

LEMMA AfterLeaves ==
  ASSUME NEW t \in Nat, NEW L \in Seq(Loggable), NEW k \in Key, NEW z \in DictItems, Leaves(L, "dict", k)
  PROVE  After(L, k, t)[z] = z
<1>1. PICK d \in DBType : d.dict[k] = z
  BY ItemOfSome
<1>2. L \in Seq(Command) /\ "dict" \in StoreNames
  BY LogsAreCommands DEF StoreNames
<1>3. Replayed(d, L, t).dict[k] = z
  BY <1>1, <1>2, Untouched DEF View
<1> QED
  BY <1>1, <1>3, AfterItem

(* A later replay makes the same of every item, or deletes them all.       *)
LEMMA AfterLater ==
  ASSUME NEW t \in Nat, NEW u \in Nat, t <= u, NEW L \in Seq(Loggable), NEW k \in Key
  PROVE  \/ \A z \in DictItems : After(L, k, u)[z] = After(L, k, t)[z]
         \/ \A z \in DictItems : After(L, k, u)[z] = Absent
<1> DEFINE Later(M) == \/ \A z \in DictItems : After(M, k, u)[z] = After(M, k, t)[z]
                       \/ \A z \in DictItems : After(M, k, u)[z] = Absent
           T == {M \in Seq(Loggable) : Later(M)}
<1>1. << >> \in T
  BY AfterNothing
<1>2. ASSUME NEW M \in Seq(Loggable), NEW c \in Loggable, M \in T PROVE Append(M, c) \in T
  <2>1. /\ \A z \in DictItems : After(Append(M, c), k, t)[z] = Made(c, k, t, After(M, k, t)[z])
        /\ \A z \in DictItems : After(Append(M, c), k, u)[z] = Made(c, k, u, After(M, k, u)[z])
    BY AfterMore
  <2>2. Append(M, c) \in Seq(Loggable) /\ Later(M)
    BY <1>2
  <2>3. CASE c.op = "PEXPIREAT" /\ k = c.key
    <3>1. \A w : Made(c, k, t, w) = Redated(w, c.at, t) /\ Made(c, k, u, w) = Redated(w, c.at, u)
      BY <2>3 DEF Made
    <3>2. CASE Past(c.at, u)
      <4>1. \A z \in DictItems : After(Append(M, c), k, u)[z] = Absent
        BY <2>1, <3>1, <3>2 DEF Redated
      <4> QED
        BY <2>2, <4>1
    <3>3. CASE ~Past(c.at, u)
      <4>1. ~Past(c.at, t)
        <5>1. c.at \in Nat
          BY <2>3, CommandFields DEF Loggable
        <5> QED
          BY <3>3, <5>1 DEF Past
      <4>2. \A w : Redated(w, c.at, t) = Redated(w, c.at, u)
        BY <3>3, <4>1 DEF Redated
      <4>3. Redated(Absent, c.at, u) = Absent
        BY DEF Redated
      <4>4. CASE \A z \in DictItems : After(M, k, u)[z] = After(M, k, t)[z]
        BY <2>1, <2>2, <3>1, <4>2, <4>4
      <4>5. CASE \A z \in DictItems : After(M, k, u)[z] = Absent
        BY <2>1, <2>2, <3>1, <4>3, <4>5
      <4> QED
        BY <2>2, <4>4, <4>5
    <3> QED
      BY <3>2, <3>3
  <2>4. CASE ~(c.op = "PEXPIREAT" /\ k = c.key)
    <3>1. \A w : Made(c, k, t, w) = Made(c, k, u, w)
      BY <2>4 DEF Made
    <3>2. CASE \A z \in DictItems : After(M, k, u)[z] = After(M, k, t)[z]
      BY <2>1, <2>2, <3>1, <3>2
    <3>3. CASE (\A z \in DictItems : After(M, k, u)[z] = Absent) /\ c.op = "SET" /\ k = c.key
      <4>1. \A w : Made(c, k, t, w) = [value |-> c.val, deadline |-> 0]
        BY <3>3 DEF Made
      <4> QED
        BY <2>1, <2>2, <3>1, <4>1
    <3>4. CASE (\A z \in DictItems : After(M, k, u)[z] = Absent) /\ ~(c.op = "SET" /\ k = c.key)
      <4>1. Made(c, k, u, Absent) = Absent
        BY <2>4, <3>4 DEF Made
      <4> QED
        BY <2>1, <2>2, <3>4, <4>1
    <3> QED
      BY <2>2, <3>2, <3>3, <3>4
  <2> QED
    BY <2>3, <2>4
<1> HIDE DEF T
<1>3. L \in T
  BY <1>1, <1>2, LogInduction
<1> QED
  BY <1>3 DEF T

(* What replay makes of an item not past its deadline is not past its      *)
(* deadline.                                                               *)
Fresh(z, t) == z = Absent \/ Live(z, t)

LEMMA AfterFresh ==
  ASSUME NEW t \in Nat, NEW L \in Seq(Loggable), NEW k \in Key, NEW z \in DictItems, Fresh(z, t)
  PROVE  Fresh(After(L, k, t)[z], t)
<1> DEFINE T == {M \in Seq(Loggable) : Fresh(After(M, k, t)[z], t)}
<1>1. << >> \in T
  BY AfterNothing
<1>2. ASSUME NEW M \in Seq(Loggable), NEW c \in Loggable, M \in T PROVE Append(M, c) \in T
  <2> DEFINE w == After(M, k, t)[z]
  <2>1. After(Append(M, c), k, t)[z] = Made(c, k, t, w) /\ Append(M, c) \in Seq(Loggable)
    BY AfterMore
  <2>2. w \in DictItems /\ Fresh(w, t)
    BY <1>2, AfterItem
  <2> HIDE DEF w
  <2>3. CASE c.op = "SET" /\ k = c.key
    <3> DEFINE i == [value |-> c.val, deadline |-> 0]
    <3>1. i \in DictItem /\ i.deadline = 0
      BY <2>3, CommandFields DEF Loggable, DictItem
    <3>2. i # Absent /\ Made(c, k, t, w) = i
      BY <2>3, <3>1, DatabaseAssumption DEF Made
    <3> HIDE DEF i
    <3> QED
      BY <2>1, <3>1, <3>2 DEF Fresh, Live
  <2>4. CASE c.op = "PEXPIREAT" /\ k = c.key
    <3>1. Made(c, k, t, w) = Redated(w, c.at, t)
      BY <2>4 DEF Made
    <3>2. CASE w = Absent \/ Past(c.at, t)
      BY <2>1, <3>1, <3>2 DEF Redated, Fresh
    <3>3. CASE w # Absent /\ ~Past(c.at, t)
      <4>1. Redated(w, c.at, t) = [w EXCEPT !.deadline = c.at] /\ w \in DictItem
        BY <2>2, <3>3 DEF Redated, DictItems
      <4>2. c.at \in Nat
        BY <2>4, CommandFields DEF Loggable
      <4>3. Redated(w, c.at, t).deadline = c.at /\ Redated(w, c.at, t) \in DictItem
        BY <4>1, <4>2 DEF DictItem
      <4>4. Live(Redated(w, c.at, t), t)
        BY <3>3, <4>3, DatabaseAssumption DEF Live
      <4> QED
        BY <2>1, <3>1, <4>4 DEF Fresh
    <3> QED
      BY <3>2, <3>3
  <2>5. CASE ~(c.op \in {"SET", "PEXPIREAT"} /\ k = c.key)
    <3>1. Made(c, k, t, w) \in {w, Absent}
      BY <2>5 DEF Made
    <3> QED
      BY <2>1, <2>2, <3>1 DEF Fresh
  <2> QED
    BY <2>3, <2>4, <2>5
<1> HIDE DEF T
<1>3. L \in T
  BY <1>1, <1>2, LogInduction
<1> QED
  BY <1>3 DEF T

(* Where an effect comes to rest, and what it makes of nothing.            *)
LEMMA EffectRules ==
  ASSUME NEW f \in DictEffects, NEW z \in DictItems
  PROVE  /\ f[z] \in DictItems /\ f[f[z]] = f[z]
         /\ f[Absent] # Absent => f[Absent] = f[z]
         /\ f[z] = z /\ z # Absent => \A at \in Nat : Dated(f[Dated(z, at)], at) = Dated(z, at)
<1>1. f \in [DictItems -> DictItems] /\ Absent \in DictItems
  BY DEF DictEffects, DictItems
<1>2. \A at \in Nat : Dated(z, at) \in DictItems /\ Dated(Absent, at) = Absent
  BY DatedTwice DEF Dated
<1>3. CASE \A x \in DictItems : f[x] = x
  BY <1>1, <1>2, <1>3, DatedTwice
<1>4. CASE \E at \in Nat : \A x \in DictItems : f[x] = Dated(x, at)
  BY <1>1, <1>2, <1>4, DatedTwice
<1>5. CASE \E y \in DictItems : \A x \in DictItems : f[x] = y
  BY <1>1, <1>2, <1>5
<1> QED
  BY <1>3, <1>4, <1>5 DEF DictEffects
=============================================================================

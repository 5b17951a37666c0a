------------------------- MODULE PersistenceProofs --------------------------
(***************************************************************************)
(* Theorems about Persistence, for any clients, keys, values, workloads    *)
(* and configurations: types, what a snapshot consists of, what a rewrite  *)
(* writes, and that a crash loses nothing of the four stores that was      *)
(* answered, as far as it is logged and the clock of the replay lets it.   *)
(***************************************************************************)
EXTENDS Persistence, ReplayProofs

-----------------------------------------------------------------------------
(* A log with the records that are still to come.                          *)

(* A name for no client, and the records a client has still to append.     *)
Nobody == CHOOSE c : c \notin Client

LEMMA NobodyIsNone == Nobody \notin Client
<1>1. \E c : c \notin Client
  BY NoSetContainsEverything
<1> QED
  BY <1>1 DEF Nobody

Rest(U, c) == IF c \in Client THEN U[c] ELSE << >>

(* No client but c has records for k still to come.                        *)
Alone(U, c, s, k) == \A e \in Client \ {c} : Leaves(U[e], s, k)

(* A time before every deadline, at which replay forgets nothing, and the  *)
(* stores for which the time of a replay makes no difference.              *)
Dawn == 0

LEMMA DawnIs == Dawn \in Nat
  BY DEF Dawn

LEMMA OthersAre ==
  ASSUME NEW s \in Others
  PROVE  s \in StoreNames /\ s # "dict" /\ (s = "set" \/ s = "list" \/ s = "hash")
  BY DEF Others, StoreNames

(* From x the log L, with the records of c still to come, makes what d has *)
(* in store s under k; c any client such that no other one has a record    *)
(* for that key to come, or nobody.                                        *)
Restores(x, L, U, d, s, k, pops) ==
  \A c \in Client \cup {Nobody} :
    Alone(U, c, s, k) => Covers(Replayed(x, L \o Rest(U, c), Dawn), d, s, k, pops)

(* Records to come for a key are from a client that may name the key.      *)
Owned(U, W, s) ==
  \A c \in Client, k \in Key : Leaves(U[c], s, k) \/ \E m \in W[c] : Touches(m, s, k)

(* No two clients send commands for the same key of store s.               *)
Exclusive(W, s) ==
  \A c, e \in Client : c # e =>
    \A m \in W[c], n \in W[e], k \in Key : ~(Touches(m, s, k) /\ Touches(n, s, k))

(* Every command of the workload has records that make what it made.       *)
Suits(W, s, pops) ==
  \A c \in Client : \A m \in W[c] : Faithful(m, s, pops)

(* Contents of the AOF, and the rules for them that the proofs use.        *)
Logs == Seq(Loggable)

LEMMA LogRules ==
  /\ << >> \in Logs
  /\ \A L, M \in Logs : L \o M \in Logs
  /\ \A L \in Logs : L \o << >> = L
  /\ \A L \in Logs : L # << >> => /\ Head(L) \in Loggable /\ Tail(L) \in Logs
                                  /\ Append(<< >>, Head(L)) \in Logs
  /\ \A L \in Logs, c \in Loggable : Append(L, c) \in Logs
<1>1. << >> \in Logs /\ \A L, M \in Logs : L \o M \in Logs
  BY DEF Logs
<1>2. ASSUME NEW L \in Logs PROVE L \o << >> = L
  BY DEF Logs
<1>3. ASSUME NEW L \in Logs, L # << >> PROVE /\ Head(L) \in Loggable /\ Tail(L) \in Logs
                                  /\ Append(<< >>, Head(L)) \in Logs
  BY <1>3 DEF Logs
<1>4. ASSUME NEW L \in Logs, NEW c \in Loggable PROVE Append(L, c) \in Logs
  BY DEF Logs
<1> QED
  BY <1>1, <1>2, <1>3, <1>4

(* What is still to come is a log, and replay keeps a database one.        *)
LEMMA RestTyped ==
  ASSUME NEW U \in [Client -> Logs], NEW c
  PROVE  Rest(U, c) \in Logs
  BY LogRules DEF Rest

LEMMA ReplayLogs ==
  ASSUME NEW t \in Nat, NEW x \in DBType, NEW L \in Logs, NEW M \in Logs
  PROVE  /\ Replayed(x, L, t) \in DBType
         /\ Replayed(x, L \o M, t) = Replayed(Replayed(x, L, t), M, t)
         /\ Replayed(x, L \o M, t) \in DBType
<1>1. L \in Seq(Loggable) /\ M \in Seq(Loggable) /\ L \o M \in Seq(Loggable)
  BY DEF Logs
<1> QED
  BY <1>1, LogTyped, ReplayConcat

(* Records that leave a key alone make no difference to it.                *)
LEMMA LeavesCovers ==
  ASSUME NEW x \in DBType, NEW L \in Logs, NEW M \in Logs, NEW s \in StoreNames, NEW k \in Key,
         Leaves(M, s, k)
  PROVE  View(Replayed(x, L \o M, Dawn), s, k) = View(Replayed(x, L, Dawn), s, k)
<1>1. M \in Seq(Command) /\ Replayed(x, L, Dawn) \in DBType
  BY DawnIs, ReplayLogs, LogsAreCommands DEF Logs
<1> QED
  BY DawnIs, <1>1, Untouched, ReplayLogs

(* Agreement is about views only.                                          *)
LEMMA CoversSame ==
  ASSUME NEW a \in DBType, NEW b \in DBType, NEW c \in DBType, NEW e \in DBType,
         NEW s \in StoreNames, NEW k \in Key, NEW pops,
         Covers(a, b, s, k, pops), View(c, s, k) = View(a, s, k), View(e, s, k) = View(b, s, k)
  PROVE  Covers(c, e, s, k, pops)
<1>1. Covers(c, a, s, k, pops) /\ Covers(b, e, s, k, pops)
  BY CoversIfEqual
<1>2. Covers(c, b, s, k, pops)
  BY <1>1, CoversTransitive
<1> QED
  BY <1>1, <1>2, CoversTransitive

(* A handler changes memory, and its records to come make up for it:       *)
(* another client's cannot be about the same key.                          *)
LEMMA RestoresExecute ==
  ASSUME NEW x \in DBType, NEW d \in DBType, NEW L \in Logs, NEW U \in [Client -> Logs],
         NEW W \in [Client -> SUBSET Command], NEW s \in Others, NEW k \in Key, NEW pops,
         Exclusive(W, s), Suits(W, s, pops), Owned(U, W, s), NEW n \in Nat \ {0},
         NEW c \in Client, NEW m \in W[c], U[c] = << >>, Restores(x, L, U, d, s, k, pops)
  PROVE  Restores(x, L, [U EXCEPT ![c] = Logged(d, m, n)], Exec(d, m, n), s, k, pops)
<1> DEFINE R == Logged(d, m, n)
           V == [U EXCEPT ![c] = R]
           d1 == Exec(d, m, n)
<1>1. m \in Command /\ Faithful(m, s, pops) /\ s \in StoreNames /\ n \in Nat
  BY OthersAre DEF Suits
<1>2. R \in Logs /\ d1 \in DBType
  BY DawnIs, <1>1, LoggedTyped, ExecTyped DEF Logs
<1>3. V \in [Client -> Logs] /\ V[c] = R /\ \A e \in Client \ {c} : V[e] = U[e]
  BY <1>2
<1> HIDE DEF R, V, d1
<1>4. ASSUME Alone(V, c, s, k) PROVE Covers(Replayed(x, L \o R, Dawn), d1, s, k, pops)
  <2>1. Alone(U, c, s, k)
    BY <1>3, <1>4 DEF Alone
  <2>2. Covers(Replayed(x, L \o << >>, Dawn), d, s, k, pops)
    BY <2>1 DEF Restores, Rest
  <2>3. Replayed(x, L, Dawn) \in DBType /\ Replayed(x, L \o R, Dawn) = Replayed(Replayed(x, L, Dawn), R, Dawn)
        /\ Replayed(x, L \o R, Dawn) \in DBType
    BY DawnIs, <1>2, ReplayLogs
  <2>4. Covers(Replayed(x, L, Dawn), d, s, k, pops)
    BY <2>2, LogRules
  <2>5. Covers(Replayed(Replayed(x, L, Dawn), R, Dawn), Replayed(d, R, Dawn), s, k, pops)
    BY DawnIs, <1>1, <1>2, <2>3, <2>4, CoversReplay DEF Logs
  <2>6. Covers(Replayed(d, R, Dawn), d1, s, k, pops)
    BY DawnIs, <1>1, LoggedCovers DEF R, d1
  <2>7. Replayed(d, R, Dawn) \in DBType
    BY DawnIs, <1>2, LogTyped DEF Logs
  <2> QED
    BY <1>1, <1>2, <2>3, <2>5, <2>6, <2>7, CoversTransitive
<1>5. ASSUME NEW e \in Client \cup {Nobody}, e # c, Alone(V, e, s, k)
      PROVE  Covers(Replayed(x, L \o Rest(V, e), Dawn), d1, s, k, pops)
  <2>1. Leaves(R, s, k) /\ Rest(V, e) = Rest(U, e) /\ Rest(U, e) \in Logs
    <3>1. Leaves(R, s, k)
      BY <1>3, <1>5 DEF Alone
    <3>2. Rest(V, e) = Rest(U, e)
      BY <1>3, <1>5 DEF Rest
    <3> QED
      BY <3>1, <3>2, RestTyped
  <2>2. Replayed(x, L \o Rest(U, e), Dawn) \in DBType /\ Replayed(x, L \o R, Dawn) \in DBType
    BY DawnIs, <1>2, <2>1, ReplayLogs
  <2>3. CASE Leaves(Rest(U, e), s, k)
    <3>1. ASSUME NEW f \in Client \ {c} PROVE Leaves(V[f], s, k)
      <4>1. CASE f = e
        BY <1>3, <2>3, <4>1 DEF Rest
      <4>2. CASE f # e
        BY <1>5, <4>2 DEF Alone
      <4> QED
        BY <4>1, <4>2
    <3>2. Covers(Replayed(x, L \o R, Dawn), d1, s, k, pops)
      BY <1>4, <3>1 DEF Alone
    <3>3. View(Replayed(x, L \o Rest(U, e), Dawn), s, k) = View(Replayed(x, L \o R, Dawn), s, k)
      BY <1>1, <1>2, <2>1, <2>3, LeavesCovers
    <3> QED
      BY <1>1, <1>2, <2>1, <2>2, <3>2, <3>3, CoversSame
  <2>4. CASE ~Leaves(Rest(U, e), s, k)
    <3>1. e \in Client /\ Rest(U, e) = U[e]
      BY <2>4 DEF Rest, Leaves
    <3>2. PICK o \in W[e] : Touches(o, s, k)
      BY <2>4, <3>1 DEF Owned
    <3>3. ~Touches(m, s, k)
      BY <1>5, <3>1, <3>2 DEF Exclusive
    <3>4. View(d1, s, k) = View(d, s, k)
      BY <1>1, <3>3, UntouchedByOne DEF d1
    <3>5. Leaves(U[c], s, k)
      BY DEF Leaves
    <3>6. ASSUME NEW f \in Client \ {e} PROVE Leaves(U[f], s, k)
      BY <1>3, <1>5, <3>5 DEF Alone
    <3>7. Covers(Replayed(x, L \o Rest(U, e), Dawn), d, s, k, pops)
      BY <3>1, <3>6 DEF Alone, Restores
    <3> QED
      BY <1>1, <1>2, <2>1, <2>2, <3>4, <3>7, CoversSame
  <2> QED
    BY <2>3, <2>4
<1>6. Rest(V, c) = R
  BY <1>3 DEF Rest
<1>7. Restores(x, L, V, d1, s, k, pops)
  BY <1>4, <1>5, <1>6 DEF Restores
<1> QED
  BY <1>7 DEF V, d1, R

(* A record that moves from those to come to the end of the log.           *)
LEMMA HeadAndTail ==
  ASSUME NEW L \in Logs, NEW M \in Logs, M # << >>
  PROVE  /\ Append(L, Head(M)) \in Logs /\ Tail(M) \in Logs
         /\ Append(L, Head(M)) \o Tail(M) = L \o M
         /\ Append(L, Head(M)) = L \o <<Head(M)>> /\ <<Head(M)>> \in Logs
<1>1. L \in Seq(Loggable) /\ M \in Seq(Loggable)
  BY DEF Logs
<1>2. Append(L, Head(M)) \o Tail(M) = L \o M
  BY <1>1
<1>3. Append(L, Head(M)) = L \o <<Head(M)>> /\ <<Head(M)>> \in Seq(Loggable)
  BY <1>1
<1> QED
  BY <1>2, <1>3, LogRules DEF Logs

LEMMA LeavesTail ==
  ASSUME NEW M \in Logs, M # << >>, NEW s, NEW k
  PROVE  /\ Leaves(M, s, k) <=> ~Touches(Head(M), s, k) /\ Leaves(Tail(M), s, k)
         /\ Leaves(<<Head(M)>>, s, k) <=> ~Touches(Head(M), s, k)
<1> DEFINE n == Len(M)
           T == Tail(M)
<1>1. n \in Nat /\ n > 0 /\ DOMAIN M = 1 .. n /\ Head(M) = M[1] /\ DOMAIN T = 1 .. n - 1
      /\ \A i \in 1 .. n - 1 : T[i] = M[i + 1]
  BY DEF Logs
<1> HIDE DEF n, T
<1>2. ASSUME ~Touches(M[1], s, k), Leaves(T, s, k), NEW i \in 1 .. n PROVE ~Touches(M[i], s, k)
  <2>1. CASE i = 1
    BY <1>2, <2>1
  <2>2. CASE i # 1
    <3>1. i - 1 \in 1 .. n - 1 /\ (i - 1) + 1 = i
      BY <1>1, <2>2
    <3>2. ~Touches(T[i - 1], s, k) /\ T[i - 1] = M[i]
      BY <1>1, <1>2, <3>1 DEF Leaves
    <3> QED
      BY <3>2
  <2> QED
    BY <2>1, <2>2
<1>3. ASSUME Leaves(M, s, k) PROVE ~Touches(M[1], s, k) /\ Leaves(T, s, k)
  <2>1. \A i \in 1 .. n : ~Touches(M[i], s, k)
    BY <1>1, <1>3 DEF Leaves
  <2>2. 1 \in 1 .. n /\ \A i \in 1 .. n - 1 : i + 1 \in 1 .. n
    BY <1>1
  <2> QED
    BY <1>1, <2>1, <2>2 DEF Leaves
<1>4. Leaves(M, s, k) <=> ~Touches(Head(M), s, k) /\ Leaves(T, s, k)
  BY <1>1, <1>2, <1>3 DEF Leaves
<1>5. Leaves(<<Head(M)>>, s, k) <=> ~Touches(Head(M), s, k)
  BY Short DEF Leaves
<1> QED
  BY <1>4, <1>5 DEF T

(* An append changes neither the log with all that c has to come, nor, for *)
(* another client's key, what is restored.                                 *)
LEMMA RestoresAppend ==
  ASSUME NEW x \in DBType, NEW d \in DBType, NEW L \in Logs, NEW U \in [Client -> Logs],
         NEW W \in [Client -> SUBSET Command], NEW s \in StoreNames, NEW k \in Key, NEW pops,
         Exclusive(W, s), Owned(U, W, s),
         NEW c \in Client, U[c] # << >>, Restores(x, L, U, d, s, k, pops)
  PROVE  Restores(x, Append(L, Head(U[c])), [U EXCEPT ![c] = Tail(@)], d, s, k, pops)
<1> DEFINE h == Head(U[c])
           T == Tail(U[c])
           V == [U EXCEPT ![c] = Tail(@)]
           N == Append(L, h)
<1>1. /\ U[c] \in Logs /\ N \in Logs /\ T \in Logs /\ N \o T = L \o U[c]
      /\ N = L \o <<h>> /\ <<h>> \in Logs
  BY HeadAndTail
<1>2. /\ Leaves(U[c], s, k) <=> ~Touches(h, s, k) /\ Leaves(T, s, k)
      /\ Leaves(<<h>>, s, k) <=> ~Touches(h, s, k)
  BY <1>1, LeavesTail
<1>3. V \in [Client -> Logs] /\ V[c] = T /\ \A e \in Client \ {c} : V[e] = U[e]
  BY <1>1
<1> HIDE DEF h, T, V, N
<1>4. ASSUME Alone(V, c, s, k) PROVE Covers(Replayed(x, N \o T, Dawn), d, s, k, pops)
  <2>1. Alone(U, c, s, k)
    BY <1>3, <1>4 DEF Alone
  <2> QED
    BY <1>1, <2>1 DEF Restores, Rest
<1>5. ASSUME NEW e \in Client \cup {Nobody}, e # c, Alone(V, e, s, k)
      PROVE  Covers(Replayed(x, N \o Rest(V, e), Dawn), d, s, k, pops)
  <2>1. Leaves(T, s, k) /\ Rest(V, e) = Rest(U, e) /\ Rest(U, e) \in Logs
    <3>1. Leaves(T, s, k)
      BY <1>3, <1>5 DEF Alone
    <3>2. Rest(V, e) = Rest(U, e)
      BY <1>3, <1>5 DEF Rest
    <3> QED
      BY <3>1, <3>2, RestTyped
  <2>2. Replayed(x, N \o Rest(U, e), Dawn) \in DBType /\ Replayed(x, N \o T, Dawn) \in DBType
        /\ Replayed(x, L \o Rest(U, e), Dawn) \in DBType
    BY DawnIs, <1>1, <2>1, ReplayLogs
  <2>3. CASE Leaves(Rest(U, e), s, k)
    <3>1. ASSUME NEW f \in Client \ {c} PROVE Leaves(V[f], s, k)
      <4>1. CASE f = e
        BY <1>3, <2>3, <4>1 DEF Rest
      <4>2. CASE f # e
        BY <1>5, <4>2 DEF Alone
      <4> QED
        BY <4>1, <4>2
    <3>2. Covers(Replayed(x, N \o T, Dawn), d, s, k, pops)
      BY <1>4, <3>1 DEF Alone
    <3>3. View(Replayed(x, N \o Rest(U, e), Dawn), s, k) = View(Replayed(x, N, Dawn), s, k)
      BY <1>1, <2>1, <2>3, LeavesCovers
    <3>4. View(Replayed(x, N \o T, Dawn), s, k) = View(Replayed(x, N, Dawn), s, k)
      <4>1. N \in Logs /\ T \in Logs /\ Leaves(T, s, k)
        BY <1>1, <2>1
      <4> QED
        BY <4>1, LeavesCovers
    <3>5. View(Replayed(x, N \o Rest(U, e), Dawn), s, k) = View(Replayed(x, N \o T, Dawn), s, k)
      BY <3>3, <3>4, Zenon
    <3> QED
      BY <2>1, <2>2, <3>2, <3>5, CoversSame
  <2>4. CASE ~Leaves(Rest(U, e), s, k)
    <3>1. e \in Client /\ Rest(U, e) = U[e]
      BY <2>4 DEF Rest, Leaves
    <3>2. PICK n \in W[e] : Touches(n, s, k)
      BY <2>4, <3>1 DEF Owned
    <3>3. Leaves(U[c], s, k)
      <4> SUFFICES ASSUME ~Leaves(U[c], s, k) PROVE FALSE
        OBVIOUS
      <4>1. PICK m \in W[c] : Touches(m, s, k)
        BY DEF Owned
      <4> QED
        BY <1>5, <3>1, <3>2, <4>1 DEF Exclusive
    <3>4. Leaves(<<h>>, s, k)
      BY <1>2, <3>3
    <3>5. ASSUME NEW f \in Client \ {e} PROVE Leaves(U[f], s, k)
      BY <1>3, <1>5, <3>3 DEF Alone
    <3>6. Covers(Replayed(x, L \o Rest(U, e), Dawn), d, s, k, pops)
      BY <3>1, <3>5 DEF Alone, Restores
    <3> DEFINE a == Replayed(x, L, Dawn)
               b == Replayed(x, N, Dawn)
               M == Rest(U, e)
    <3>7. a \in DBType /\ b \in DBType /\ View(b, s, k) = View(a, s, k)
      BY DawnIs, <1>1, <3>4, LeavesCovers, ReplayLogs
    <3>8. Replayed(x, L \o M, Dawn) = Replayed(a, M, Dawn) /\ Replayed(x, N \o M, Dawn) = Replayed(b, M, Dawn)
      BY DawnIs, <1>1, <2>1, ReplayLogs
    <3> HIDE DEF a, b, M
    <3>9. M \in Seq(Loggable) /\ Covers(b, a, s, k, pops)
      BY <2>1, <3>7, CoversIfEqual DEF Logs, M
    <3>10. Covers(Replayed(b, M, Dawn), Replayed(a, M, Dawn), s, k, pops)
      BY DawnIs, <3>7, <3>9, CoversReplay
    <3>11. Covers(Replayed(x, N \o M, Dawn), d, s, k, pops)
      BY <2>2, <3>6, <3>8, <3>10, CoversTransitive DEF M
    <3> QED
      BY <2>1, <3>11 DEF M
  <2> QED
    BY <2>3, <2>4
<1>6. Rest(V, c) = T
  BY <1>3 DEF Rest
<1>7. Restores(x, N, V, d, s, k, pops)
  BY <1>4, <1>5, <1>6 DEF Restores
<1> QED
  BY <1>7 DEF V, N, h

(* What is restored from somewhere is also restored from itself.           *)
LEMMA RestoresItself ==
  ASSUME NEW x \in DBType, NEW d \in DBType, NEW L \in Logs, NEW U \in [Client -> Logs],
         NEW s \in {"dict", "set", "hash"}, NEW k \in Key, NEW pops, Restores(x, L, U, d, s, k, pops)
  PROVE  Restores(d, L, U, d, s, k, pops)
<1> SUFFICES ASSUME NEW c \in Client \cup {Nobody}, Alone(U, c, s, k)
             PROVE  Covers(Replayed(d, L \o Rest(U, c), Dawn), d, s, k, pops)
  BY DEF Restores
<1> DEFINE M == L \o Rest(U, c)
<1>1. M \in Logs
  BY RestTyped, LogRules
<1>2. Covers(Replayed(x, M, Dawn), d, s, k, pops)
  BY DEF Restores
<1> HIDE DEF M
<1>3. s \in StoreNames /\ s # "list"
  BY DEF StoreNames
<1> DEFINE r == Replayed(x, M, Dawn)
<1>4. r \in DBType /\ Replayed(r, M, Dawn) \in DBType /\ Replayed(d, M, Dawn) \in DBType /\ M \in Seq(Loggable)
  BY DawnIs, <1>1, LogTyped DEF Logs
<1>5. View(Replayed(r, M, Dawn), s, k) = View(r, s, k)
  BY DawnIs, <1>4, TwiceIsOnce
<1> HIDE DEF r
<1>6. View(r, s, k) = View(d, s, k)
  BY <1>2, <1>3 DEF Covers, r
<1>7. Covers(r, d, s, k, TRUE)
  BY <1>3, <1>6 DEF Covers
<1>8. Covers(Replayed(r, M, Dawn), Replayed(d, M, Dawn), s, k, TRUE)
  BY DawnIs, <1>3, <1>4, <1>7, CoversReplay
<1>9. View(Replayed(d, M, Dawn), s, k) = View(d, s, k)
  BY <1>3, <1>5, <1>6, <1>8 DEF Covers
<1> QED
  BY <1>3, <1>9 DEF Covers, M

(* What is restored depends on the views of the start and of memory only.  *)
LEMMA RestoresAlike ==
  ASSUME NEW x \in DBType, NEW y \in DBType, NEW d \in DBType, NEW e \in DBType, NEW L \in Logs,
         NEW U \in [Client -> Logs], NEW s \in StoreNames, NEW k \in Key, NEW pops,
         Restores(x, L, U, d, s, k, pops), View(y, s, k) = View(x, s, k), View(e, s, k) = View(d, s, k)
  PROVE  Restores(y, L, U, e, s, k, pops)
<1> SUFFICES ASSUME NEW c \in Client \cup {Nobody}, Alone(U, c, s, k)
             PROVE  Covers(Replayed(y, L \o Rest(U, c), Dawn), e, s, k, pops)
  BY DEF Restores
<1> DEFINE M == L \o Rest(U, c)
<1>1. M \in Logs
  BY RestTyped, LogRules
<1>2. Covers(Replayed(x, M, Dawn), d, s, k, pops)
  BY DEF Restores
<1> HIDE DEF M
<1>3. /\ M \in Seq(Loggable) /\ Replayed(x, M, Dawn) \in DBType /\ Replayed(y, M, Dawn) \in DBType
      /\ Covers(y, x, s, k, pops) /\ Covers(d, e, s, k, pops)
  BY DawnIs, <1>1, LogTyped, CoversIfEqual DEF Logs
<1>4. Covers(Replayed(y, M, Dawn), Replayed(x, M, Dawn), s, k, pops)
  BY DawnIs, <1>3, CoversReplay
<1>5. Covers(Replayed(y, M, Dawn), d, s, k, pops)
  BY <1>2, <1>3, <1>4, CoversTransitive
<1>6. Covers(Replayed(y, M, Dawn), e, s, k, pops)
  BY <1>3, <1>5, CoversTransitive
<1> QED
  BY <1>6 DEF M

(* With no records to come it is the log alone.                            *)
LEMMA RestoresBegin ==
  ASSUME NEW x \in DBType, NEW L \in Logs, NEW U, \A c \in Client : U[c] = << >>,
         NEW s \in StoreNames, NEW k \in Key, NEW pops
  PROVE  Restores(x, L, U, Replayed(x, L, Dawn), s, k, pops)
<1>1. \A c : Rest(U, c) = << >>
  BY DEF Rest
<1>2. Replayed(x, L, Dawn) \in DBType /\ L \o << >> = L
  BY DawnIs, LogTyped, LogRules DEF Logs
<1>3. Covers(Replayed(x, L, Dawn), Replayed(x, L, Dawn), s, k, pops)
  BY <1>2, CoversIfEqual
<1> QED
  BY <1>1, <1>2, <1>3 DEF Restores

(* And when nobody has a record for the key to come, the log alone         *)
(* restores it.                                                            *)
LEMMA RestoresEnd ==
  ASSUME NEW x, NEW d, NEW L \in Logs, NEW U, NEW s, NEW k, NEW pops,
         \A c \in Client : Leaves(U[c], s, k), Restores(x, L, U, d, s, k, pops)
  PROVE  Covers(Replayed(x, L, Dawn), d, s, k, pops)
<1>1. Alone(U, Nobody, s, k) /\ Rest(U, Nobody) = << >>
  BY NobodyIsNone DEF Alone, Rest
<1>2. Covers(Replayed(x, L \o << >>, Dawn), d, s, k, pops)
  BY <1>1 DEF Restores
<1> QED
  BY <1>2, LogRules

-----------------------------------------------------------------------------
(* Types of the variables.                                                 *)

(* One store of a database replaced by another.                            *)
Replaced(x, s, v) == [x EXCEPT ![s] = v]

LEMMA Replacing ==
  ASSUME NEW A, NEW B, NEW C, NEW E, NEW x \in [dict : A, set : B, list : C, hash : E], NEW v
  PROVE  /\ Replaced(x, "dict", v) = [dict |-> v, set |-> x.set, list |-> x.list, hash |-> x.hash]
         /\ Replaced(x, "set", v) = [dict |-> x.dict, set |-> v, list |-> x.list, hash |-> x.hash]
         /\ Replaced(x, "list", v) = [dict |-> x.dict, set |-> x.set, list |-> v, hash |-> x.hash]
         /\ Replaced(x, "hash", v) = [dict |-> x.dict, set |-> x.set, list |-> x.list, hash |-> v]
<1>1. [x EXCEPT !.dict = v] = [dict |-> v, set |-> x.set, list |-> x.list, hash |-> x.hash]
  OBVIOUS
<1>2. [x EXCEPT !.set = v] = [dict |-> x.dict, set |-> v, list |-> x.list, hash |-> x.hash]
  OBVIOUS
<1>3. [x EXCEPT !.list = v] = [dict |-> x.dict, set |-> x.set, list |-> v, hash |-> x.hash]
  OBVIOUS
<1>4. [x EXCEPT !.hash = v] = [dict |-> x.dict, set |-> x.set, list |-> x.list, hash |-> v]
  OBVIOUS
<1> QED
  BY <1>1, <1>2, <1>3, <1>4, Zenon DEF Replaced

(* A dump x, with store n of memory d in it.                               *)
WithStore(x, d, n) == [x EXCEPT ![Stores[n]] = d[Stores[n]]]

(* A dump has store n of memory and the rest of what it was.               *)
LEMMA Dumped ==
  ASSUME NEW x \in DBType, NEW d \in DBType, NEW n \in 1 .. 4
  PROVE  /\ WithStore(x, d, n) \in DBType
         /\ WithStore(x, d, n).dict = (IF n = 1 THEN d.dict ELSE x.dict)
         /\ WithStore(x, d, n).set = (IF n = 2 THEN d.set ELSE x.set)
         /\ WithStore(x, d, n).list = (IF n = 3 THEN d.list ELSE x.list)
         /\ WithStore(x, d, n).hash = (IF n = 4 THEN d.hash ELSE x.hash)
<1> DEFINE y == WithStore(x, d, n)
<1>1. Stores[1] = "dict" /\ Stores[2] = "set" /\ Stores[3] = "list" /\ Stores[4] = "hash"
  BY DEF Stores
<1>2. n = 1 \/ n = 2 \/ n = 3 \/ n = 4
  OBVIOUS
<1>3. \A v : /\ Replaced(x, "dict", v) = [dict |-> v, set |-> x.set, list |-> x.list, hash |-> x.hash]
             /\ Replaced(x, "set", v) = [dict |-> x.dict, set |-> v, list |-> x.list, hash |-> x.hash]
             /\ Replaced(x, "list", v) = [dict |-> x.dict, set |-> x.set, list |-> v, hash |-> x.hash]
             /\ Replaced(x, "hash", v) = [dict |-> x.dict, set |-> x.set, list |-> x.list, hash |-> v]
  <2> SUFFICES ASSUME NEW v
               PROVE  /\ Replaced(x, "dict", v) = [dict |-> v, set |-> x.set, list |-> x.list, hash |-> x.hash]
                      /\ Replaced(x, "set", v) = [dict |-> x.dict, set |-> v, list |-> x.list, hash |-> x.hash]
                      /\ Replaced(x, "list", v) = [dict |-> x.dict, set |-> x.set, list |-> v, hash |-> x.hash]
                      /\ Replaced(x, "hash", v) = [dict |-> x.dict, set |-> x.set, list |-> x.list, hash |-> v]
    OBVIOUS
  <2> DEFINE A == [Key -> DictItem \cup {Absent}]
             B == [Key -> SetItem \cup {Absent}]
             C == [Key -> Seq(Value)]
             E == [Key -> HashItem]
  <2>1. x \in [dict : A, set : B, list : C, hash : E]
    BY DEF DBType
  <2> HIDE DEF A, B, C, E
  <2> QED
    BY <2>1, Replacing
<1>4. ASSUME n = 1 PROVE y = [dict |-> y.dict, set |-> y.set, list |-> y.list, hash |-> y.hash]
            /\ y.dict = d.dict /\ y.set = x.set /\ y.list = x.list /\ y.hash = x.hash
  <2>1. y = Replaced(x, "dict", d.dict)
    BY <1>1, <1>4, Zenon DEF Replaced, WithStore
  <2>2. y = [dict |-> d.dict, set |-> x.set, list |-> x.list, hash |-> x.hash]
    BY <1>3, <2>1, Zenon
  <2> HIDE DEF y
  <2> QED
    BY <2>2
<1>5. ASSUME n = 2 PROVE y = [dict |-> y.dict, set |-> y.set, list |-> y.list, hash |-> y.hash]
            /\ y.dict = x.dict /\ y.set = d.set /\ y.list = x.list /\ y.hash = x.hash
  <2>1. y = Replaced(x, "set", d.set)
    BY <1>1, <1>5, Zenon DEF Replaced, WithStore
  <2>2. y = [dict |-> x.dict, set |-> d.set, list |-> x.list, hash |-> x.hash]
    BY <1>3, <2>1, Zenon
  <2> HIDE DEF y
  <2> QED
    BY <2>2
<1>6. ASSUME n = 3 PROVE y = [dict |-> y.dict, set |-> y.set, list |-> y.list, hash |-> y.hash]
            /\ y.dict = x.dict /\ y.set = x.set /\ y.list = d.list /\ y.hash = x.hash
  <2>1. y = Replaced(x, "list", d.list)
    BY <1>1, <1>6, Zenon DEF Replaced, WithStore
  <2>2. y = [dict |-> x.dict, set |-> x.set, list |-> d.list, hash |-> x.hash]
    BY <1>3, <2>1, Zenon
  <2> HIDE DEF y
  <2> QED
    BY <2>2
<1>7. ASSUME n = 4 PROVE y = [dict |-> y.dict, set |-> y.set, list |-> y.list, hash |-> y.hash]
            /\ y.dict = x.dict /\ y.set = x.set /\ y.list = x.list /\ y.hash = d.hash
  <2>1. y = Replaced(x, "hash", d.hash)
    BY <1>1, <1>7, Zenon DEF Replaced, WithStore
  <2>2. y = [dict |-> x.dict, set |-> x.set, list |-> x.list, hash |-> d.hash]
    BY <1>3, <2>1, Zenon
  <2> HIDE DEF y
  <2> QED
    BY <2>2
<1> HIDE DEF y
<1>8. /\ y = [dict |-> y.dict, set |-> y.set, list |-> y.list, hash |-> y.hash]
      /\ y.dict = (IF n = 1 THEN d.dict ELSE x.dict)
      /\ y.set = (IF n = 2 THEN d.set ELSE x.set)
      /\ y.list = (IF n = 3 THEN d.list ELSE x.list)
      /\ y.hash = (IF n = 4 THEN d.hash ELSE x.hash)
  BY <1>2, <1>4, <1>5, <1>6, <1>7
<1>9. y \in DBType
  <2>1. /\ y.dict \in [Key -> DictItem \cup {Absent}] /\ y.set \in [Key -> SetItem \cup {Absent}]
        /\ y.list \in [Key -> Seq(Value)] /\ y.hash \in [Key -> HashItem]
    BY <1>8, DBFields
  <2> QED
    BY <1>8, <2>1 DEF DBType
<1> QED
  BY <1>8, <1>9 DEF y

(* The types of all variables, the strengthening of TypeOK that its proof  *)
(* needs: what clients have to append is a log, jobs that are not          *)
(* configured stay idle, and without persistence.rdb there is no snapshot. *)
JobType == [at : 1 .. 6, dump : DBType]

TypeInv ==
  /\ setup \in Setups
  /\ now \in Nat \ {0} /\ revived \subseteq Key
  /\ db \in DBType
  /\ unlogged \in [Client -> Logs]
  /\ aof \in Logs
  /\ attached \in BOOLEAN /\ saving \in BOOLEAN
  /\ rdb \in DBType \cup {Absent} /\ (~setup.rdb => rdb = Absent)
  /\ job \in [Jobs -> JobType]
  /\ \A j \in Jobs : job[j] # Idle => j \in setup.jobs
  /\ seen \in [Saves -> SUBSET DBType]
  /\ \A j \in Saves : (seen[j] = {}) <=> ~Began(j)

(* The workload of the configuration.                                      *)
W == Workload[setup.workload]

(* The first state has these types and every step keeps them.              *)
LEMMA WorkloadTyped ==
  ASSUME setup \in Setups
  PROVE  /\ W \in [Client -> SUBSET Command]
         /\ \A c \in Client : \A m \in W[c] : m \in Command /\ m.op # "SEXPIREAT"
         /\ setup.aof \in BOOLEAN /\ setup.rdb \in BOOLEAN /\ setup.jobs \subseteq Jobs
<1>1. W \in [Client -> SUBSET Sendable]
  BY PersistenceAssumption DEF W, Setup
<1>2. \A c \in Client : \A m \in W[c] : m \in Command /\ m.op # "SEXPIREAT"
  BY <1>1 DEF Sendable
<1>3. W \in [Client -> SUBSET Command]
  BY <1>1, <1>2
<1>4. setup.aof \in BOOLEAN /\ setup.rdb \in BOOLEAN /\ setup.jobs \subseteq Jobs
  BY PersistenceAssumption DEF Setup
<1> QED
  BY <1>2, <1>3, <1>4

(* What the clients see is a database, and so is what a start loads.       *)
LEMMA SeenTyped ==
  ASSUME TypeInv
  PROVE  /\ now \in Nat /\ now + 1 \in Nat \ {0}
         /\ Visible(db, now) \in DBType /\ Visible(db, now + 1) \in DBType
         /\ LoadedRDB(rdb, now) \in DBType
<1>1. now \in Nat /\ now + 1 \in Nat \ {0} /\ db \in DBType
  BY DEF TypeInv
<1>2. rdb # Absent => rdb \in DBType
  BY DEF TypeInv
<1>3. LoadedRDB(rdb, now) \in DBType
  <2>1. CASE rdb = Absent
    BY <2>1, EmptyTyped DEF LoadedRDB
  <2>2. CASE rdb # Absent
    BY <1>1, <1>2, <2>2, LoadRestores, VisibleIs
  <2> QED
    BY <2>1, <2>2
<1> QED
  BY <1>1, <1>3, VisibleIs

LEMMA IdleTyped == Idle \in JobType /\ Idle.at = 1 /\ Idle.dump = EmptyDB
<1> DEFINE e == EmptyDB
<1>1. e \in DBType
  BY EmptyTyped
<1>2. Idle = [at |-> 1, dump |-> e]
  BY DEF Idle
<1> HIDE DEF e
<1>3. Idle \in JobType /\ Idle.at = 1 /\ Idle.dump = e
  BY <1>1, <1>2 DEF JobType
<1> QED
  BY <1>3 DEF e

LEMMA TypeInit == Init => TypeInv
<1> SUFFICES ASSUME Init PROVE TypeInv
  OBVIOUS
<1>1. /\ setup \in Setups /\ db \in DBType /\ attached \in BOOLEAN /\ saving \in BOOLEAN
      /\ now = 1 /\ revived = {}
  BY EmptyTyped DEF Init
<1>5. now \in Nat \ {0} /\ revived \subseteq Key
  BY <1>1
<1>2. unlogged \in [Client -> Logs] /\ aof \in Logs /\ rdb = Absent
  BY LogRules DEF Init
<1>3. job \in [Jobs -> JobType] /\ (\A j \in Jobs : job[j] = Idle) /\ seen = [j \in Saves |-> {}]
  BY IdleTyped DEF Init
<1>4. \A j \in Saves : (seen[j] = {}) <=> ~Began(j)
  BY <1>3, IdleTyped DEF Began, Saves
<1> QED
  BY <1>1, <1>2, <1>3, <1>4, <1>5 DEF TypeInv

(* A job is a step and a dump.                                             *)
LEMMA JobTypes ==
  ASSUME NEW j \in JobType
  PROVE  j.at \in 1 .. 6 /\ j.dump \in DBType /\ j = [at |-> j.at, dump |-> j.dump]
  BY DEF JobType

(* What the saves may see stays a set of databases, empty as before.       *)
LEMMA SeenWithTyped ==
  ASSUME TypeInv, NEW d \in DBType
  PROVE  /\ SeenWith(d) \in [Saves -> SUBSET DBType]
         /\ \A j \in Saves : /\ (SeenWith(d)[j] = {}) <=> (seen[j] = {})
                             /\ seen[j] \subseteq SeenWith(d)[j]
                             /\ seen[j] # {} => d \in SeenWith(d)[j]
  BY DEF SeenWith, TypeInv

LEMMA TypeExecute ==
  ASSUME TypeInv, NEW c \in Client, NEW m \in W[c], Execute(c, m)
  PROVE  TypeInv'
<1>1. m \in Command /\ now \in Nat
  BY WorkloadTyped DEF TypeInv
<1>2. db' \in DBType
  BY <1>1, ExecTyped DEF Execute, TypeInv
<1>3. unlogged' \in [Client -> Logs]
  <2>1. Logged(db, m, now) \in Logs /\ << >> \in Logs
    BY <1>1, LoggedTyped, LogRules DEF TypeInv, Logs
  <2> QED
    BY <2>1 DEF Execute, TypeInv
<1>4. seen' \in [Saves -> SUBSET DBType] /\ \A j \in Saves : (seen'[j] = {}) <=> (seen[j] = {})
  <2>1. Visible(db', now) \in DBType /\ seen' = SeenWith(Visible(db', now))
    BY <1>1, <1>2, VisibleIs DEF Execute
  <2> QED
    BY <2>1, SeenWithTyped
<1>5. UNCHANGED <<setup, now, aof, attached, rdb, job, saving>>
  BY DEF Execute
<1>6. revived' \subseteq Key
  <2>1. m.op = "EXPIRE" => m.key \in Key
    BY <1>1, CommandFields
  <2> QED
    BY <2>1 DEF Execute, RevivedBy, TypeInv
<1> QED
  BY <1>2, <1>3, <1>4, <1>5, <1>6 DEF TypeInv, Began

LEMMA TypeTick ==
  ASSUME TypeInv, Tick
  PROVE  TypeInv'
<1>1. /\ UNCHANGED <<setup, db, unlogged, aof, attached, rdb, job, saving, revived>>
      /\ now' = now + 1 /\ seen' = SeenWith(Visible(db, now + 1))
  BY DEF Tick
<1>2. /\ now' \in Nat \ {0} /\ seen' \in [Saves -> SUBSET DBType]
      /\ \A j \in Saves : (seen'[j] = {}) <=> (seen[j] = {})
  BY <1>1, SeenTyped, SeenWithTyped
<1> QED
  BY <1>1, <1>2 DEF TypeInv, Began

LEMMA TypeEvict ==
  ASSUME TypeInv, NEW s \in {"dict", "set"}, NEW k \in Key, Evict(s, k)
  PROVE  /\ TypeInv'
         /\ db[s][k] # Absent /\ ~Live(db[s][k], now)
         /\ \A j \in Key : /\ db'.dict[j] = (IF s = "dict" /\ j = k THEN Absent ELSE db.dict[j])
                           /\ db'.set[j] = (IF s = "set" /\ j = k THEN Absent ELSE db.set[j])
                           /\ db'.list[j] = db.list[j] /\ db'.hash[j] = db.hash[j]
         /\ \A j \in Key : /\ Living(db'.dict[j], now) = Living(db.dict[j], now)
                           /\ Living(db'.set[j], now) = Living(db.set[j], now)
<1>1. /\ db[s][k] # Absent /\ ~Live(db[s][k], now)
      /\ db' = [db EXCEPT ![s][k] = Absent]
      /\ UNCHANGED <<setup, now, unlogged, aof, attached, rdb, job, saving, seen, revived>>
  BY DEF Evict
<1>2. /\ db = [dict |-> db.dict, set |-> db.set, list |-> db.list, hash |-> db.hash]
      /\ db.dict \in [Key -> DictItem \cup {Absent}] /\ db.set \in [Key -> SetItem \cup {Absent}]
      /\ db.list \in [Key -> Seq(Value)] /\ db.hash \in [Key -> HashItem]
  BY DBFields DEF TypeInv
<1> DEFINE D == [db.dict EXCEPT ![k] = Absent]
           S == [db.set EXCEPT ![k] = Absent]
<1>3. s = "dict" => db' = [dict |-> D, set |-> db.set, list |-> db.list, hash |-> db.hash]
  BY <1>1, <1>2
<1>4. s = "set" => db' = [dict |-> db.dict, set |-> S, list |-> db.list, hash |-> db.hash]
  BY <1>1, <1>2
<1>5. D \in [Key -> DictItem \cup {Absent}] /\ S \in [Key -> SetItem \cup {Absent}]
  BY <1>2
<1>6. /\ \A j \in Key : D[j] = IF j = k THEN Absent ELSE db.dict[j]
      /\ \A j \in Key : S[j] = IF j = k THEN Absent ELSE db.set[j]
  BY <1>2
<1> HIDE DEF D, S
<1>7. db' \in DBType
  BY <1>2, <1>3, <1>4, <1>5 DEF DBType
<1>8. \A j \in Key : /\ db'.dict[j] = (IF s = "dict" /\ j = k THEN Absent ELSE db.dict[j])
                     /\ db'.set[j] = (IF s = "set" /\ j = k THEN Absent ELSE db.set[j])
                     /\ db'.list[j] = db.list[j] /\ db'.hash[j] = db.hash[j]
  BY <1>3, <1>4, <1>6
<1>9. (s = "dict" => ~Live(db.dict[k], now)) /\ (s = "set" => ~Live(db.set[k], now))
  BY <1>1
<1>10. \A j \in Key : /\ Living(db'.dict[j], now) = Living(db.dict[j], now)
                      /\ Living(db'.set[j], now) = Living(db.set[j], now)
  BY <1>8, <1>9 DEF Living, Live
<1> QED
  BY <1>1, <1>7, <1>8, <1>10 DEF TypeInv, Began

LEMMA TypeAppend ==
  ASSUME TypeInv, NEW c \in Client, AppendRecord(c)
  PROVE  TypeInv'
<1>1. unlogged[c] \in Logs /\ unlogged[c] # << >> /\ aof \in Logs
  BY DEF TypeInv, AppendRecord
<1>2. Append(aof, Head(unlogged[c])) \in Logs /\ Tail(unlogged[c]) \in Logs
  BY <1>1, HeadAndTail
<1>3. aof' \in Logs /\ unlogged' \in [Client -> Logs]
  BY <1>1, <1>2 DEF TypeInv, AppendRecord
<1>4. UNCHANGED <<setup, now, db, attached, rdb, job, saving, seen, revived>>
  BY DEF AppendRecord
<1> QED
  BY <1>3, <1>4 DEF TypeInv, Began

LEMMA TypeDump ==
  ASSUME TypeInv, NEW j \in Jobs, Dump(j)
  PROVE  /\ TypeInv'
         /\ job[j].at \in 1 .. 4 /\ job'[j].at = job[j].at + 1
         /\ job'[j].dump = WithStore(job[j].dump, Visible(db, now), job[j].at)
         /\ \A i \in Jobs \ {j} : job'[i] = job[i]
         /\ UNCHANGED <<setup, now, db, unlogged, aof, attached, rdb, revived>>
<1> DEFINE n == job[j].at
           x == job[j].dump
           y == WithStore(x, Visible(db, now), n)
<1>1. job[j] \in JobType /\ j \in setup.jobs /\ n <= 4 /\ Begins(j)
  BY DEF TypeInv, Dump
<1>2. n \in 1 .. 4 /\ x \in DBType
  BY <1>1, JobTypes
<1>3. job' = [job EXCEPT ![j] = [at |-> n + 1, dump |-> y]]
  BY DEF Dump, WithStore
<1>4. y \in DBType
  BY <1>2, SeenTyped, Dumped
<1>5. UNCHANGED <<setup, now, db, unlogged, aof, attached, rdb, revived>>
  BY DEF Dump
<1> HIDE DEF y, n, x
<1>6. [at |-> n + 1, dump |-> y] \in JobType
  BY <1>2, <1>4 DEF JobType
<1>7. /\ job' \in [Jobs -> JobType] /\ job'[j] = [at |-> n + 1, dump |-> y]
      /\ \A i \in Jobs \ {j} : job'[i] = job[i]
  BY <1>3, <1>6 DEF TypeInv
<1>8. job'[j].at = n + 1 /\ job'[j].dump = y
  BY <1>7
<1>9. \A i \in Jobs : job'[i] # Idle => i \in setup.jobs
  BY <1>1, <1>7 DEF TypeInv
<1>10. seen' \in [Saves -> SUBSET DBType] /\ saving' \in BOOLEAN
  <2>1. {Visible(db, now)} \in SUBSET DBType
    BY SeenTyped
  <2> QED
    BY <1>1, <2>1 DEF TypeInv, Begins
<1>11. \A i \in Saves : (seen'[i] = {}) <=> ~(job'[i].at # 1)
  <2> SUFFICES ASSUME NEW i \in Saves PROVE (seen'[i] = {}) <=> job'[i].at = 1
    OBVIOUS
  <2>1. i \in Jobs
    BY DEF Saves
  <2>2. CASE i # j
    <3>1. seen'[i] = seen[i] /\ job'[i] = job[i]
      BY <1>1, <1>7, <2>1, <2>2 DEF Begins, TypeInv
    <3> QED
      BY <3>1 DEF TypeInv, Began
  <2>3. CASE i = j
    <3>1. job'[i].at # 1
      BY <1>2, <1>8, <2>3
    <3>2. seen'[i] # {}
      BY <1>1, <2>3 DEF Begins, TypeInv, Began
    <3> QED
      BY <3>1, <3>2
  <2> QED
    BY <2>2, <2>3
<1>12. TypeInv'
  BY <1>5, <1>7, <1>9, <1>10, <1>11 DEF TypeInv, Began
<1> QED
  BY <1>2, <1>5, <1>7, <1>8, <1>12 DEF n, x, y

LEMMA TypeRewrite ==
  ASSUME TypeInv, Rewrite
  PROVE  /\ TypeInv'
         /\ \A i \in Saves : job'[i] = job[i]
<1>1. /\ job["rewrite"] \in JobType /\ job["rewrite"].dump \in DBType
      /\ "rewrite" \in Jobs /\ "rewrite" \notin Saves /\ Saves \subseteq Jobs
  BY JobTypes DEF TypeInv, Jobs, Saves
<1>2. Rewritten(job["rewrite"].dump) \in Logs
  BY <1>1, CommandsTyped DEF Rewritten, Logs, Redates
<1>3. aof' \in Logs /\ attached' \in BOOLEAN /\ UNCHANGED <<setup, now, db, unlogged, rdb, saving, seen, revived>>
  BY <1>2 DEF Rewrite, TypeInv
<1>4. job' = [job EXCEPT !["rewrite"] = Idle]
  BY DEF Rewrite
<1>5. /\ job' \in [Jobs -> JobType] /\ job'["rewrite"] = Idle
      /\ \A i \in Jobs \ {"rewrite"} : job'[i] = job[i]
  BY <1>1, <1>4, IdleTyped DEF TypeInv
<1>6. \A i \in Saves : job'[i] = job[i]
  BY <1>1, <1>5
<1>7. \A i \in Jobs : job'[i] # Idle => i \in setup.jobs
  BY <1>5 DEF TypeInv
<1>8. \A i \in Saves : (seen[i] = {}) <=> ~(job'[i].at # 1)
  BY <1>6 DEF TypeInv, Began
<1>9. TypeInv'
  BY <1>3, <1>5, <1>7, <1>8 DEF TypeInv, Began
<1> QED
  BY <1>6, <1>9

LEMMA TypeTruncate ==
  ASSUME TypeInv, NEW j \in Saves, Truncate(j)
  PROVE  /\ TypeInv'
         /\ job[j].at = 5 /\ job'[j].at = 6 /\ job'[j].dump = job[j].dump
         /\ \A i \in Jobs \ {j} : job'[i] = job[i]
         /\ rdb' = (IF setup.rdb THEN Absent ELSE rdb)
         /\ UNCHANGED <<setup, now, db, unlogged, aof, attached, revived>>
<1> DEFINE x == job[j].dump
<1>1. j \in Jobs /\ job[j] \in JobType /\ x \in DBType /\ job[j].at = 5
  BY JobTypes DEF TypeInv, Truncate, Saves
<1>2. job' = [job EXCEPT ![j] = [at |-> 6, dump |-> x]]
  BY DEF Truncate
<1>3. /\ rdb' = (IF setup.rdb THEN Absent ELSE rdb)
      /\ UNCHANGED <<setup, now, db, unlogged, aof, attached, saving, seen, revived>>
  BY DEF Truncate
<1> HIDE DEF x
<1>4. [at |-> 6, dump |-> x] \in JobType
  BY <1>1 DEF JobType
<1>5. /\ job' \in [Jobs -> JobType] /\ job'[j] = [at |-> 6, dump |-> x]
      /\ \A i \in Jobs \ {j} : job'[i] = job[i]
  BY <1>1, <1>2, <1>4 DEF TypeInv
<1>6. job'[j].at = 6 /\ job'[j].dump = x
  BY <1>5
<1>7. job[j] # Idle /\ \A i \in Jobs : job'[i] # Idle => i \in setup.jobs
  BY <1>1, <1>5, IdleTyped DEF TypeInv
<1>8. \A i \in Saves : (seen[i] = {}) <=> ~(job'[i].at # 1)
  BY <1>1, <1>5, <1>6 DEF TypeInv, Began, Saves
<1>9. TypeInv'
  BY <1>3, <1>5, <1>7, <1>8 DEF TypeInv, Began
<1> QED
  BY <1>1, <1>3, <1>5, <1>6, <1>9 DEF x

LEMMA TypeEncode ==
  ASSUME TypeInv, NEW j \in Saves, Encode(j)
  PROVE  /\ TypeInv'
         /\ job[j].at = 6 /\ job'[j] = Idle
         /\ \A i \in Jobs \ {j} : job'[i] = job[i]
         /\ rdb' = (IF setup.rdb THEN job[j].dump ELSE rdb)
         /\ UNCHANGED <<setup, now, db, unlogged, aof, attached, revived>>
<1>1. j \in Jobs /\ job[j] \in JobType /\ job[j].dump \in DBType /\ job[j].at = 6
  BY JobTypes DEF TypeInv, Encode, Saves
<1>2. /\ rdb' = (IF setup.rdb THEN job[j].dump ELSE rdb) /\ saving' = FALSE
      /\ UNCHANGED <<setup, now, db, unlogged, aof, attached, revived>>
      /\ job' = [job EXCEPT ![j] = Idle] /\ seen' = [seen EXCEPT ![j] = {}]
  BY DEF Encode
<1>3. rdb' \in DBType \cup {Absent} /\ (~setup.rdb => rdb' = Absent)
  BY <1>1, <1>2 DEF TypeInv
<1>4. job' \in [Jobs -> JobType] /\ job'[j] = Idle /\ \A i \in Jobs \ {j} : job'[i] = job[i]
  BY <1>1, <1>2, IdleTyped DEF TypeInv
<1>5. \A i \in Jobs : job'[i] # Idle => i \in setup.jobs
  BY <1>4 DEF TypeInv
<1>6. /\ seen' \in [Saves -> SUBSET DBType] /\ seen'[j] = {} /\ \A i \in Saves \ {j} : seen'[i] = seen[i]
  BY <1>2 DEF TypeInv
<1>7. \A i \in Saves : (seen'[i] = {}) <=> ~(job'[i].at # 1)
  BY <1>4, <1>6, IdleTyped DEF TypeInv, Began, Saves
<1>8. TypeInv'
  BY <1>2, <1>3, <1>4, <1>5, <1>6, <1>7 DEF TypeInv, Began
<1> QED
  BY <1>1, <1>2, <1>4, <1>8

LEMMA TypeRestart ==
  ASSUME TypeInv, Restart
  PROVE  TypeInv'
<1>1. LoadedRDB(rdb, now) \in DBType /\ now \in Nat
  BY SeenTyped
<1>2. db' \in DBType
  BY <1>1, LogTyped DEF Restart, Recovered, TypeInv, Logs
<1>3. unlogged' \in [Client -> Logs] /\ attached' = TRUE /\ saving' = FALSE
  BY LogRules DEF Restart
<1>4. job' = [j \in Jobs |-> Idle] /\ seen' = [j \in Saves |-> {}] /\ UNCHANGED <<setup, now, aof, rdb>> /\ revived' = {}
  BY DEF Restart
<1>5. job' \in [Jobs -> JobType] /\ (\A j \in Jobs : job'[j] = Idle) /\ seen' \in [Saves -> SUBSET DBType]
      /\ \A j \in Saves : seen'[j] = {}
  BY <1>4, IdleTyped
<1>6. \A j \in Saves : (seen'[j] = {}) <=> ~(job'[j].at # 1)
  BY <1>5, IdleTyped DEF Saves
<1> QED
  BY <1>2, <1>3, <1>4, <1>5, <1>6 DEF TypeInv, Began

LEMMA TypeNext ==
  ASSUME TypeInv, [Next]_vars
  PROVE  TypeInv'
<1>1. CASE \E c \in Client : \E m \in Workload[setup.workload][c] : Execute(c, m)
  BY <1>1, TypeExecute DEF W
<1>2. CASE \E c \in Client : AppendRecord(c)
  BY <1>2, TypeAppend
<1>3. CASE \E j \in Jobs : Dump(j)
  BY <1>3, TypeDump
<1>4. CASE Rewrite
  BY <1>4, TypeRewrite
<1>5. CASE \E j \in Saves : Truncate(j) \/ Encode(j)
  BY <1>5, TypeTruncate, TypeEncode
<1>6. CASE Restart
  BY <1>6, TypeRestart
<1>7. CASE UNCHANGED vars
  BY <1>7 DEF vars, TypeInv, Began
<1>8. CASE Tick
  BY <1>8, TypeTick
<1>9. CASE \E s \in {"dict", "set"}, k \in Key : Evict(s, k)
  BY <1>9, TypeEvict
<1> QED
  BY <1>1, <1>2, <1>3, <1>4, <1>5, <1>6, <1>7, <1>8, <1>9 DEF Next

(* The types hold in every state.                                          *)
LEMMA TypesAlways == Spec => []TypeInv
  BY TypeInit, TypeNext, PTL DEF Spec

(* Type correctness: whatever clients send, whichever dumps, rewrites and  *)
(* saves overlap and wherever the process ends, the stores, the files and  *)
(* the jobs have their shapes; a snapshot read back at a start is a        *)
(* database (aof.go, rdb.go, server.go:86-190).                            *)
THEOREM TypeCorrect == Spec => []TypeOK
<1>1. TypeInv => TypeOK
  BY JobTypes DEF TypeInv, TypeOK
<1> QED
  BY <1>1, TypesAlways, PTL

(* A start without an AOF restores the snapshot and nothing else, but for  *)
(* what has expired since.                                                 *)
THEOREM SnapshotsRestored == Spec => []SnapshotRestored
<1>1. ASSUME TypeInv PROVE SnapshotRestored
  <2> SUFFICES ASSUME rdb # Absent PROVE LoadedRDB(rdb, now) = Visible(rdb, now)
    BY DEF SnapshotRestored
  <2>1. rdb \in DBType /\ now \in Nat
    BY <1>1, SeenTyped DEF TypeInv
  <2> QED
    BY <2>1, LoadRestores
<1> QED
  BY <1>1, TypesAlways, PTL

-----------------------------------------------------------------------------
(* What clients send, and deadlines of sets.                               *)

(* The assumptions on who sends what, where there is an AOF.  Clients that *)
(* share a key can have their records in the other order than their        *)
(* commands, see the configuration order.                                  *)
OwnKeys(s) == \A t \in Setups : t.aof => Exclusive(Workload[t.workload], s)

(* No client sends one of these commands.                                  *)
NoneSends(ops) ==
  \A t \in Setups : t.aof => \A c \in Client : \A m \in Workload[t.workload][c] : m.op \notin ops

(* The commands on a set whose records do not make what the command made.  *)
Unrestored(s) == IF s = "set" THEN {"SEXPIRE"} ELSE {}

Restorable(s) == OwnKeys(s) /\ NoneSends(Unrestored(s))

(* Under these assumptions every command suits.                            *)
LEMMA WorkloadSuits ==
  ASSUME NEW s \in Others, Restorable(s), TypeInv, setup.aof
  PROVE  Exclusive(W, s) /\ Suits(W, s, Pops) /\ W \in [Client -> SUBSET Command]
<1>1. Exclusive(W, s) /\ W \in [Client -> SUBSET Command]
  BY WorkloadTyped DEF Restorable, OwnKeys, TypeInv, W
<1>2. ASSUME NEW c \in Client, NEW m \in W[c] PROVE Faithful(m, s, Pops)
  <2>1. m.op \notin Unrestored(s) /\ m.op # "SEXPIREAT"
    BY WorkloadTyped DEF Restorable, NoneSends, TypeInv, W
  <2>2. m.op \in {"LPOP", "RPOP"} => Pops
    BY DEF Pops, W
  <2>3. s \in {"set", "list", "hash"}
    BY OthersAre
  <2> QED
    BY <2>1, <2>2, <2>3 DEF Unrestored, Faithful
<1> QED
  BY <1>1, <1>2 DEF Suits

(* What an RDB load is made from, whatever has expired of it.              *)
Raw == IF rdb = Absent THEN EmptyDB ELSE rdb

LEMMA LoadsRaw ==
  ASSUME TypeInv
  PROVE  /\ Raw \in DBType /\ LoadedRDB(rdb, now) \in DBType
         /\ \A k \in Key : /\ LoadedRDB(rdb, now).dict[k] = Living(Raw.dict[k], now)
                            /\ LoadedRDB(rdb, now).set[k] = Living(Raw.set[k], now)
                            /\ LoadedRDB(rdb, now).list[k] = Raw.list[k]
                            /\ LoadedRDB(rdb, now).hash[k] = Raw.hash[k]
<1>1. LoadedRDB(rdb, now) \in DBType /\ now \in Nat
  BY SeenTyped
<1>2. CASE rdb = Absent
  <2>1. LoadedRDB(rdb, now) = EmptyDB /\ Raw = EmptyDB
    BY <1>2 DEF LoadedRDB, Raw
  <2>2. \A k \in Key : EmptyDB.dict[k] = Absent /\ EmptyDB.set[k] = Absent
    BY DEF EmptyDB
  <2> QED
    BY <1>1, <2>1, <2>2, EmptyTyped, LivingIs
<1>3. CASE rdb # Absent
  <2>1. rdb \in DBType /\ Raw = rdb
    BY <1>3 DEF TypeInv, Raw
  <2>2. LoadedRDB(rdb, now) = Visible(rdb, now)
    BY <1>1, <1>3, <2>1, LoadRestores
  <2> QED
    BY <1>1, <2>1, <2>2, VisibleIs
<1> QED
  BY <1>2, <1>3

(* Without SEXPIRE no set has a deadline, nowhere.                         *)
UndatedInv ==
  setup.aof =>
    /\ SetsUndated(db)
    /\ rdb # Absent => SetsUndated(rdb)
    /\ \A j \in Jobs : SetsUndated(job[j].dump)

(* It holds at first and every step keeps it.                              *)
LEMMA EmptyUndated == SetsUndated(EmptyDB)
  BY DEF SetsUndated, EmptyDB

LEMMA UndatedInit == Init => UndatedInv
  BY EmptyUndated, IdleTyped DEF Init, UndatedInv

LEMMA UndatedNext ==
  ASSUME NoneSends({"SEXPIRE"}), TypeInv, UndatedInv, [Next]_vars
  PROVE  UndatedInv'
<1>1. SUFFICES ASSUME setup'.aof
               PROVE  /\ SetsUndated(db')
                      /\ rdb' # Absent => SetsUndated(rdb')
                      /\ \A j \in Jobs : SetsUndated(job'[j].dump)
  BY DEF UndatedInv
<1>2. setup' = setup
  BY DEF Next, Execute, AppendRecord, Tick, Evict, Dump, Rewrite, Truncate, Encode, Restart, vars
<1>3. /\ SetsUndated(db) /\ (rdb # Absent => SetsUndated(rdb))
      /\ \A j \in Jobs : SetsUndated(job[j].dump)
  BY <1>1, <1>2 DEF UndatedInv
<1>4. CASE \E c \in Client : \E m \in Workload[setup.workload][c] : Execute(c, m)
  <2>1. PICK c \in Client : \E m \in Workload[setup.workload][c] : Execute(c, m)
    BY <1>4
  <2>2. PICK m \in Workload[setup.workload][c] : Execute(c, m)
    BY <2>1
  <2>3. m \in Command /\ m.op \notin {"SEXPIRE", "SEXPIREAT"} /\ db \in DBType /\ now \in Nat
    BY <1>1, <1>2, WorkloadTyped DEF NoneSends, TypeInv, W
  <2>4. db' = Exec(db, m, now) /\ UNCHANGED <<rdb, job>>
    BY <2>2 DEF Execute
  <2> QED
    BY <1>3, <2>3, <2>4, UndatedExec
<1>5. CASE \E c \in Client : AppendRecord(c)
  BY <1>5, <1>3 DEF AppendRecord
<1>6. CASE \E j \in Jobs : Dump(j)
  <2>1. PICK j \in Jobs : Dump(j)
    BY <1>6
  <2>2. /\ job[j].at \in 1 .. 4 /\ job'[j].dump = WithStore(job[j].dump, Visible(db, now), job[j].at)
        /\ \A i \in Jobs \ {j} : job'[i] = job[i]
        /\ UNCHANGED <<db, rdb>>
    BY <2>1, TypeDump
  <2>3. job[j].dump \in DBType /\ Visible(db, now) \in DBType
    BY JobTypes, SeenTyped DEF TypeInv
  <2>4. SetsUndated(Visible(db, now))
    BY <1>3, SeenTyped, VisibleIs DEF SetsUndated, Living, TypeInv
  <2>5. SetsUndated(job'[j].dump)
    BY <1>3, <2>2, <2>3, <2>4, Dumped DEF SetsUndated
  <2> QED
    BY <1>3, <2>2, <2>5
<1>7. CASE Rewrite
  <2>1. /\ UNCHANGED <<db, rdb>> /\ job \in [Jobs -> JobType]
        /\ job' = [job EXCEPT !["rewrite"] = Idle]
    BY <1>7 DEF Rewrite, TypeInv
  <2>2. \A j \in Jobs : job'[j] = job[j] \/ job'[j] = Idle
    BY <2>1
  <2> QED
    BY <1>3, <2>1, <2>2, IdleTyped, EmptyUndated
<1>8. CASE \E j \in Saves : Truncate(j)
  <2>1. PICK j \in Saves : Truncate(j)
    BY <1>8
  <2> QED
    BY <1>3, <2>1, TypeTruncate DEF Saves
<1>9. CASE \E j \in Saves : Encode(j)
  <2>1. PICK j \in Saves : Encode(j)
    BY <1>9
  <2> QED
    BY <1>3, <2>1, TypeEncode, IdleTyped, EmptyUndated DEF Saves
<1>10. CASE Restart
  <2> DEFINE x == LoadedRDB(rdb, now)
  <2>1. x \in DBType /\ SetsUndated(x) /\ now \in Nat
    <3>1. SetsUndated(Raw)
      BY <1>3, EmptyUndated DEF Raw
    <3>2. \A k \in Key : x.set[k] # Absent => x.set[k] = Raw.set[k]
      BY LoadsRaw DEF Living
    <3>3. SetsUndated(x)
      BY <3>1, <3>2 DEF SetsUndated
    <3> QED
      BY <3>3, SeenTyped
  <2>2. db' = Replayed(x, aof, now) /\ rdb' = rdb /\ job' = [j \in Jobs |-> Idle]
    BY <1>10 DEF Restart, Recovered
  <2>3. aof \in Seq(Loggable)
    BY DEF TypeInv, Logs
  <2> HIDE DEF x
  <2> QED
    BY <1>3, <2>1, <2>2, <2>3, UndatedReplay, IdleTyped, EmptyUndated
<1>11. CASE UNCHANGED vars
  BY <1>11, <1>3 DEF vars
<1>12. CASE Tick
  BY <1>12, <1>3 DEF Tick
<1>13. CASE \E s \in {"dict", "set"}, k \in Key : Evict(s, k)
  <2>1. PICK s \in {"dict", "set"}, k \in Key : Evict(s, k)
    BY <1>13
  <2>2. \A j \in Key : db'.set[j] # Absent => db'.set[j] = db.set[j]
    BY <2>1, TypeEvict
  <2>3. UNCHANGED <<rdb, job>>
    BY <2>1 DEF Evict
  <2>4. SetsUndated(db')
    BY <1>3, <2>2 DEF SetsUndated
  <2> QED
    BY <1>3, <2>3, <2>4
<1> QED
  BY <1>4, <1>5, <1>6, <1>7, <1>8, <1>9, <1>10, <1>11, <1>12, <1>13 DEF Next

(* With no deadlines nothing of a set expires, and of lists and hashes     *)
(* nothing ever does.                                                      *)
LEMMA VisibleView ==
  ASSUME NEW s \in Others, NEW d \in DBType, s = "set" => SetsUndated(d), NEW t \in Nat, NEW k \in Key
  PROVE  View(Visible(d, t), s, k) = View(d, s, k)
<1>1. CASE s = "set"
  <2>1. Visible(d, t).set[k] = Living(d.set[k], t) /\ d.set[k] \in SetItem \cup {Absent}
    BY VisibleIs, DBFields
  <2>2. Living(d.set[k], t) = d.set[k]
    BY <1>1, <2>1 DEF SetsUndated, Living, Live
  <2> QED
    BY <1>1, <2>1, <2>2 DEF View
<1>2. CASE s # "set"
  BY <1>2, OthersAre, VisibleIs DEF View
<1> QED
  BY <1>1, <1>2

LEMMA LoadedView ==
  ASSUME NEW s \in Others, TypeInv, setup.aof, s = "set" => UndatedInv, NEW k \in Key
  PROVE  View(LoadedRDB(rdb, now), s, k) = View(Raw, s, k)
<1>1. CASE s = "set"
  <2>1. LoadedRDB(rdb, now).set[k] = Living(Raw.set[k], now)
    BY LoadsRaw
  <2>2. SetsUndated(Raw)
    BY <1>1, EmptyUndated DEF UndatedInv, Raw
  <2>3. Living(Raw.set[k], now) = Raw.set[k]
    BY <2>2 DEF SetsUndated, Living, Live
  <2> QED
    BY <1>1, <2>1, <2>3 DEF View
<1>2. CASE s # "set"
  BY <1>2, OthersAre, LoadsRaw DEF View
<1> QED
  BY <1>1, <1>2

-----------------------------------------------------------------------------
(* Durability of sets, lists and hashes.                                   *)

(* When the dump of each store is taken, and the states of the disk.       *)
Place == [dict |-> 1, set |-> 2, list |-> 3, hash |-> 4]

Truncated == setup.rdb /\ \E j \in Saves : job[j].at = 6

Dumps(s) == {job[j].dump : j \in {i \in Saves : Place[s] < job[i].at}}

Sources(s) ==
  IF s = "list" THEN IF setup.rdb THEN {} ELSE {EmptyDB}
  ELSE {db} \cup (IF Truncated THEN {} ELSE {Raw}) \cup Dumps(s)

(* The invariant behind durability.  While the server's handle is the AOF, *)
(* the log with the records still to come restores each key of store s as  *)
(* memory has it: from the snapshot on disk, from every store that a       *)
(* running save has dumped, and from memory itself.  The last is why it    *)
(* survives a save: the log on top of a later snapshot does no harm.  For  *)
(* lists it is from nothing only, as RPUSH twice is not RPUSH once.        *)
RestoreInv(s) ==
  setup.aof /\ attached =>
    /\ Owned(unlogged, W, s)
    /\ \A x \in Sources(s), k \in Key : Restores(x, aof, unlogged, db, s, k, Pops)

(* What a start may have is a database; the first state restores nothing   *)
(* from nothing.                                                           *)
LEMMA SourcesTyped ==
  ASSUME NEW s \in Others, TypeInv
  PROVE  Sources(s) \subseteq DBType
<1>1. Raw \in DBType
  BY LoadsRaw
<1>2. \A j \in Saves : job[j].dump \in DBType
  BY JobTypes DEF TypeInv, Saves
<1> QED
  BY <1>1, <1>2, EmptyTyped DEF Sources, Dumps, TypeInv

LEMMA RestoreInit == ASSUME NEW s \in Others, Init PROVE RestoreInv(s)
<1>1. TypeInv
  BY TypeInit
<1>2. \A j \in Saves : job[j] = Idle
  BY DEF Init, Saves
<1>3. /\ db = EmptyDB /\ aof = << >> /\ Raw = EmptyDB /\ \A c \in Client : unlogged[c] = << >>
      /\ s \in StoreNames
  BY OthersAre DEF Init, Raw
<1>4. Owned(unlogged, W, s)
  BY <1>3 DEF Owned, Leaves
<1>5. \A x \in Sources(s) : x = EmptyDB
  BY <1>2, <1>3, IdleTyped DEF Sources, Dumps
<1>6. ASSUME NEW k \in Key PROVE Restores(EmptyDB, aof, unlogged, db, s, k, Pops)
  <2>1. Restores(EmptyDB, << >>, unlogged, Replayed(EmptyDB, << >>, Dawn), s, k, Pops)
    BY <1>3, EmptyTyped, LogRules, RestoresBegin
  <2> QED
    BY <1>3, <2>1, DawnIs, ReplayEmpty
<1> QED
  BY <1>4, <1>5, <1>6 DEF RestoreInv

(* Every step keeps the invariant.                                         *)
LEMMA RestoreExecute ==
  ASSUME NEW s \in Others, Restorable(s), TypeInv, RestoreInv(s),
         NEW c \in Client, NEW m \in W[c], Execute(c, m)
  PROVE  RestoreInv(s)'
<1>1. /\ unlogged[c] = << >> /\ db' = Exec(db, m, now)
      /\ unlogged' = [unlogged EXCEPT ![c] = IF setup.aof THEN Logged(db, m, now) ELSE << >>]
      /\ UNCHANGED <<setup, aof, attached, rdb, job>>
  BY DEF Execute
<1> SUFFICES ASSUME setup.aof, attached
             PROVE  /\ Owned(unlogged', W', s)
                    /\ \A x \in Sources(s)', k \in Key : Restores(x, aof', unlogged', db', s, k, Pops')
  BY <1>1 DEF RestoreInv
<1>2. W' = W /\ Pops' = Pops
  BY <1>1 DEF W, Pops
<1>3. Exclusive(W, s) /\ Suits(W, s, Pops) /\ W \in [Client -> SUBSET Command] /\ m \in Command
      /\ now \in Nat \ {0} /\ now \in Nat /\ s \in StoreNames /\ s # "dict"
  BY WorkloadSuits, OthersAre DEF TypeInv
<1>4. /\ db \in DBType /\ aof \in Logs /\ unlogged \in [Client -> Logs]
      /\ aof' = aof /\ unlogged' = [unlogged EXCEPT ![c] = Logged(db, m, now)]
  BY <1>1 DEF TypeInv
<1>5. Owned(unlogged, W, s) /\ \A x \in Sources(s), k \in Key : Restores(x, aof, unlogged, db, s, k, Pops)
  BY DEF RestoreInv
<1>6. Owned(unlogged', W, s)
  <2> SUFFICES ASSUME NEW e \in Client, NEW k \in Key, ~Leaves(unlogged'[e], s, k)
               PROVE  \E n \in W[e] : Touches(n, s, k)
    BY DEF Owned
  <2>1. CASE e # c
    <3>1. unlogged'[e] = unlogged[e]
      BY <1>4, <2>1
    <3> QED
      BY <1>5, <3>1 DEF Owned
  <2>2. CASE e = c
    <3>1. unlogged'[e] = Logged(db, m, now)
      BY <1>4, <2>2
    <3>2. Touches(m, s, k)
      BY <1>3, <1>4, <3>1, LoggedLeaves
    <3> QED
      BY <2>2, <3>2
  <2> QED
    BY <2>1, <2>2
<1>7. ASSUME NEW x \in Sources(s), NEW k \in Key
      PROVE  Restores(x, aof', unlogged', db', s, k, Pops)
  <2>1. x \in DBType /\ Restores(x, aof, unlogged, db, s, k, Pops)
    BY <1>5, SourcesTyped
  <2>2. Restores(x, aof, [unlogged EXCEPT ![c] = Logged(db, m, now)], Exec(db, m, now), s, k, Pops)
    BY <1>1, <1>3, <1>4, <1>5, <2>1, RestoresExecute
  <2> QED
    BY <1>1, <1>4, <2>2
<1>8. ASSUME NEW x \in Sources(s)', NEW k \in Key
      PROVE  Restores(x, aof', unlogged', db', s, k, Pops)
  <2>1. x \in Sources(s) \/ (s # "list" /\ x = db')
    BY <1>1 DEF Sources, Dumps, Truncated, Raw
  <2>2. CASE x \in Sources(s)
    BY <1>7, <2>2
  <2>3. CASE s # "list" /\ x = db'
    <3>1. db \in Sources(s)
      BY <2>3 DEF Sources
    <3>2. Restores(db, aof', unlogged', db', s, k, Pops)
      BY <1>7, <3>1
    <3>3. db' \in DBType /\ aof' \in Logs /\ unlogged' \in [Client -> Logs]
      BY TypeExecute DEF TypeInv
    <3>4. s \in {"dict", "set", "hash"}
      BY <2>3, OthersAre
    <3> QED
      BY <1>4, <2>3, <3>2, <3>3, <3>4, RestoresItself
  <2> QED
    BY <2>1, <2>2, <2>3
<1> QED
  BY <1>2, <1>6, <1>8

LEMMA RestoreAppend ==
  ASSUME NEW s \in Others, Restorable(s), TypeInv, RestoreInv(s), NEW c \in Client, AppendRecord(c)
  PROVE  RestoreInv(s)'
<1>1. /\ unlogged[c] # << >> /\ unlogged' = [unlogged EXCEPT ![c] = Tail(@)]
      /\ aof' = (IF attached THEN Append(aof, Head(unlogged[c])) ELSE aof)
      /\ UNCHANGED <<setup, db, attached, rdb, job>>
  BY DEF AppendRecord
<1> SUFFICES ASSUME setup.aof, attached
             PROVE  /\ Owned(unlogged', W', s)
                    /\ \A x \in Sources(s)', k \in Key : Restores(x, aof', unlogged', db', s, k, Pops')
  BY <1>1 DEF RestoreInv
<1>2. W' = W /\ Pops' = Pops /\ Sources(s)' = Sources(s)
  BY <1>1 DEF W, Pops, Sources, Truncated, Dumps, Raw
<1>3. Exclusive(W, s) /\ W \in [Client -> SUBSET Command] /\ s \in StoreNames
  BY WorkloadSuits, OthersAre
<1>4. db \in DBType /\ aof \in Logs /\ unlogged \in [Client -> Logs]
  BY DEF TypeInv
<1>5. Owned(unlogged, W, s) /\ \A x \in Sources(s), k \in Key : Restores(x, aof, unlogged, db, s, k, Pops)
  BY DEF RestoreInv
<1>6. Owned(unlogged', W, s)
  <2> SUFFICES ASSUME NEW e \in Client, NEW k \in Key, ~Leaves(unlogged'[e], s, k)
               PROVE  ~Leaves(unlogged[e], s, k)
    BY <1>5 DEF Owned
  <2>1. CASE e # c
    BY <1>1, <1>4, <2>1
  <2>2. CASE e = c
    <3>1. unlogged'[e] = Tail(unlogged[c]) /\ unlogged[c] \in Logs
      BY <1>1, <1>4, <2>2
    <3>2. Leaves(unlogged[c], s, k) => Leaves(Tail(unlogged[c]), s, k)
      BY <1>1, <3>1, LeavesTail
    <3> QED
      BY <2>2, <3>1, <3>2
  <2> QED
    BY <2>1, <2>2
<1>7. ASSUME NEW x \in Sources(s), NEW k \in Key
      PROVE  Restores(x, aof', unlogged', db', s, k, Pops)
  <2>1. x \in DBType /\ Restores(x, aof, unlogged, db, s, k, Pops)
    BY <1>5, SourcesTyped
  <2>2. Restores(x, Append(aof, Head(unlogged[c])), [unlogged EXCEPT ![c] = Tail(@)], db, s, k, Pops)
    BY <1>1, <1>3, <1>4, <1>5, <2>1, RestoresAppend
  <2> QED
    BY <1>1, <2>2
<1> QED
  BY <1>2, <1>6, <1>7

(* A step that changes neither the log nor what memory has in store s,     *)
(* whatever becomes of the files and the jobs: the sources it adds have    *)
(* what one had before.                                                    *)
LEMMA RestoreKeeps ==
  ASSUME NEW s \in Others, RestoreInv(s), TypeInv, TypeInv',
         UNCHANGED <<setup, unlogged, aof, attached>>,
         setup.aof => \A k \in Key : View(db', s, k) = View(db, s, k),
         setup.aof => \A y \in Sources(s)' : \E x \in Sources(s) : \A k \in Key : View(y, s, k) = View(x, s, k)
  PROVE  RestoreInv(s)'
<1> SUFFICES ASSUME setup.aof, attached
             PROVE  /\ Owned(unlogged', W', s)
                    /\ \A x \in Sources(s)', k \in Key : Restores(x, aof', unlogged', db', s, k, Pops')
  BY DEF RestoreInv
<1>1. W' = W /\ Pops' = Pops
  BY DEF W, Pops
<1>2. db \in DBType /\ db' \in DBType /\ aof \in Logs /\ unlogged \in [Client -> Logs] /\ s \in StoreNames
  BY OthersAre DEF TypeInv
<1>3. Owned(unlogged, W, s) /\ \A x \in Sources(s), k \in Key : Restores(x, aof, unlogged, db, s, k, Pops)
  BY DEF RestoreInv
<1>4. Sources(s)' \subseteq DBType
  <2>1. Raw' \in DBType
    BY EmptyTyped DEF TypeInv, Raw
  <2>2. \A j \in Saves : job'[j].dump \in DBType
    BY JobTypes DEF TypeInv, Saves
  <2> QED
    BY <1>2, <2>1, <2>2, EmptyTyped DEF Sources, Dumps
<1>5. ASSUME NEW y \in Sources(s)', NEW k \in Key PROVE Restores(y, aof, unlogged, db', s, k, Pops)
  <2>1. PICK x \in Sources(s) : View(y, s, k) = View(x, s, k)
    OBVIOUS
  <2>2. x \in DBType /\ Restores(x, aof, unlogged, db, s, k, Pops)
    BY <1>3, SourcesTyped
  <2>3. y \in DBType /\ View(db', s, k) = View(db, s, k)
    BY <1>4
  <2> QED
    BY <1>2, <2>1, <2>2, <2>3, RestoresAlike
<1> QED
  BY <1>1, <1>3, <1>5

LEMMA RestoreTick ==
  ASSUME NEW s \in Others, RestoreInv(s), Tick
  PROVE  RestoreInv(s)'
  BY DEF Tick, RestoreInv, W, Pops, Sources, Truncated, Dumps, Raw

LEMMA RestoreEvict ==
  ASSUME NEW s \in Others, RestoreInv(s), TypeInv, s = "set" => UndatedInv,
         NEW u \in {"dict", "set"}, NEW j \in Key, Evict(u, j)
  PROVE  RestoreInv(s)'
<1>1. UNCHANGED <<setup, now, unlogged, aof, attached, rdb, job>>
  BY DEF Evict
<1>2. ASSUME setup.aof, NEW k \in Key PROVE View(db', s, k) = View(db, s, k)
  <2>1. CASE s = "set"
    <3>1. \A i \in Key : db.set[i] # Absent => db.set[i].deadline = 0
      BY <1>2, <2>1 DEF UndatedInv, SetsUndated
    <3>2. u # "set"
      BY <3>1, TypeEvict DEF Live
    <3> QED
      BY <2>1, <3>2, TypeEvict DEF View
  <2>2. CASE s # "set"
    BY <2>2, OthersAre, TypeEvict DEF View
  <2> QED
    BY <2>1, <2>2
<1>3. ASSUME setup.aof, NEW y \in Sources(s)'
      PROVE  \E x \in Sources(s) : \A k \in Key : View(y, s, k) = View(x, s, k)
  <2>1. y \in Sources(s) \/ (s # "list" /\ y = db')
    BY <1>1 DEF Sources, Truncated, Dumps, Raw
  <2>2. s # "list" => db \in Sources(s)
    BY DEF Sources
  <2> QED
    BY <1>2, <1>3, <2>1, <2>2
<1>4. TypeInv'
  BY TypeEvict
<1> QED
  BY <1>1, <1>2, <1>3, <1>4, RestoreKeeps

(* The views of a dump: of memory for the store just dumped.               *)
LEMMA ViewsOfDump ==
  ASSUME NEW s \in Others, NEW k, NEW x \in DBType, NEW d \in DBType, NEW n \in 1 .. 4
  PROVE  View(WithStore(x, d, n), s, k) = IF Place[s] = n THEN View(d, s, k) ELSE View(x, s, k)
<1> DEFINE y == WithStore(x, d, n)
<1>1. /\ y.dict = (IF n = 1 THEN d.dict ELSE x.dict)
      /\ y.set = (IF n = 2 THEN d.set ELSE x.set)
      /\ y.list = (IF n = 3 THEN d.list ELSE x.list)
      /\ y.hash = (IF n = 4 THEN d.hash ELSE x.hash)
  BY Dumped
<1> HIDE DEF y
<1>2. s = "set" \/ s = "list" \/ s = "hash"
  BY OthersAre
<1>3. Place["dict"] = 1 /\ Place["set"] = 2 /\ Place["list"] = 3 /\ Place["hash"] = 4
  BY DEF Place
<1>4. View(y, s, k) = IF Place[s] = n THEN View(d, s, k) ELSE View(x, s, k)
  BY <1>1, <1>2, <1>3 DEF View
<1> QED
  BY <1>4 DEF y

LEMMA RestoreDump ==
  ASSUME NEW s \in Others, RestoreInv(s), TypeInv, s = "set" => UndatedInv, NEW j \in Jobs, Dump(j)
  PROVE  RestoreInv(s)'
<1> DEFINE n == job[j].at
<1>1. /\ TypeInv' /\ n \in 1 .. 4 /\ job'[j].at = n + 1
      /\ job'[j].dump = WithStore(job[j].dump, Visible(db, now), n)
      /\ \A i \in Jobs \ {j} : job'[i] = job[i]
      /\ UNCHANGED <<setup, now, db, unlogged, aof, attached, rdb>>
  BY TypeDump
<1>2. job[j].dump \in DBType /\ db \in DBType /\ now \in Nat /\ Visible(db, now) \in DBType
  BY JobTypes, SeenTyped DEF TypeInv
<1> HIDE DEF n
<1>3. ASSUME setup.aof, NEW k \in Key
      PROVE  View(job'[j].dump, s, k) = IF Place[s] = n THEN View(db, s, k) ELSE View(job[j].dump, s, k)
  <2>1. View(Visible(db, now), s, k) = View(db, s, k)
    BY <1>2, <1>3, VisibleView DEF UndatedInv
  <2> QED
    BY <1>1, <1>2, <2>1, ViewsOfDump
<1>4. Truncated' <=> Truncated
  <2>1. job'[j].at # 6 /\ job[j].at # 6
    BY <1>1 DEF n
  <2> QED
    BY <1>1, <2>1 DEF Truncated, Saves
<1>5. Place[s] \in 1 .. 4
  BY OthersAre DEF Place
<1>6. ASSUME setup.aof, NEW y \in Sources(s)' PROVE \E x \in Sources(s) : \A k \in Key : View(y, s, k) = View(x, s, k)
  <2>1. CASE y \in Sources(s)
    BY <2>1
  <2>2. CASE y \notin Sources(s)
    <3>1. s # "list" /\ \E i \in Saves : Place[s] < job'[i].at /\ y = job'[i].dump
      BY <1>1, <1>4, <2>2 DEF Sources, Dumps, Raw
    <3>2. PICK i \in Saves : Place[s] < job'[i].at /\ y = job'[i].dump
      BY <3>1
    <3>3. i = j
      BY <1>1, <2>2, <3>1, <3>2 DEF Sources, Dumps, Saves
    <3>4. CASE Place[s] = n
      <4>1. db \in Sources(s)
        BY <3>1 DEF Sources
      <4> QED
        BY <1>3, <1>6, <3>2, <3>3, <3>4, <4>1
    <3>5. CASE Place[s] # n
      <4>1. Place[s] < n
        BY <1>1, <1>5, <3>2, <3>3, <3>5
      <4>2. job[j].dump \in Sources(s)
        BY <3>1, <3>2, <3>3, <4>1 DEF Sources, Dumps, n
      <4> QED
        BY <1>3, <1>6, <3>2, <3>3, <3>5, <4>2
    <3> QED
      BY <3>4, <3>5
  <2> QED
    BY <2>1, <2>2
<1> QED
  BY <1>1, <1>6, RestoreKeeps

LEMMA RestoreTruncate ==
  ASSUME NEW s \in Others, RestoreInv(s), TypeInv, NEW j \in Saves, Truncate(j)
  PROVE  RestoreInv(s)'
<1>1. /\ TypeInv' /\ job[j].at = 5 /\ job'[j].at = 6 /\ job'[j].dump = job[j].dump
      /\ \A i \in Jobs \ {j} : job'[i] = job[i]
      /\ rdb' = (IF setup.rdb THEN Absent ELSE rdb)
      /\ UNCHANGED <<setup, now, db, unlogged, aof, attached>>
  BY TypeTruncate
<1>2. Place[s] \in 1 .. 4
  BY OthersAre DEF Place
<1>3. Dumps(s)' \subseteq Dumps(s)
  BY <1>1, <1>2 DEF Dumps, Saves
<1>4. setup.rdb => Truncated'
  BY <1>1 DEF Truncated
<1>5. ~setup.rdb => Raw' = Raw /\ ~Truncated
  BY <1>1 DEF Truncated, Raw
<1>6. Sources(s)' \subseteq Sources(s)
  BY <1>1, <1>3, <1>4, <1>5, WorkloadTyped DEF Sources, TypeInv
<1> QED
  BY <1>1, <1>6, RestoreKeeps

LEMMA RestoreEncode ==
  ASSUME NEW s \in Others, RestoreInv(s), TypeInv, NEW j \in Saves, Encode(j)
  PROVE  RestoreInv(s)'
<1>1. /\ TypeInv' /\ job[j].at = 6 /\ job'[j] = Idle
      /\ \A i \in Jobs \ {j} : job'[i] = job[i]
      /\ rdb' = (IF setup.rdb THEN job[j].dump ELSE rdb)
      /\ UNCHANGED <<setup, now, db, unlogged, aof, attached>>
  BY TypeEncode
<1>2. Place[s] \in 1 .. 4
  BY OthersAre DEF Place
<1>3. Dumps(s)' \subseteq Dumps(s) /\ job[j].dump \in Dumps(s)
  BY <1>1, <1>2, IdleTyped DEF Dumps, Saves
<1>4. job[j].dump \in DBType
  BY JobTypes DEF TypeInv, Saves
<1>5. setup.rdb => Raw' = job[j].dump
  BY <1>1, <1>4, DatabaseAssumption DEF Raw
<1>6. ~setup.rdb => Raw' = Raw /\ ~Truncated
  BY <1>1 DEF Truncated, Raw
<1>7. Sources(s)' \subseteq Sources(s)
  BY <1>1, <1>3, <1>5, <1>6, WorkloadTyped DEF Sources, TypeInv
<1> QED
  BY <1>1, <1>7, RestoreKeeps

LEMMA RestoreRestart ==
  ASSUME NEW s \in Others, TypeInv, s = "set" => UndatedInv, Restart
  PROVE  RestoreInv(s)'
<1> DEFINE x == LoadedRDB(rdb, now)
           y == Replayed(Raw, aof, Dawn)
<1>1. /\ db' = Replayed(x, aof, now) /\ UNCHANGED <<setup, now, aof, rdb>>
      /\ unlogged' = [c \in Client |-> << >>] /\ job' = [j \in Jobs |-> Idle]
  BY DEF Restart, Recovered
<1> SUFFICES ASSUME setup.aof
             PROVE  /\ Owned(unlogged', W', s)
                    /\ \A z \in Sources(s)', k \in Key : Restores(z, aof', unlogged', db', s, k, Pops')
  BY <1>1 DEF RestoreInv
<1>2. /\ x \in DBType /\ Raw \in DBType /\ aof \in Logs /\ aof \in Seq(Loggable)
      /\ db' \in DBType /\ unlogged' \in [Client -> Logs] /\ now \in Nat /\ s \in StoreNames
  BY TypeRestart, LoadsRaw, OthersAre DEF TypeInv, Logs
<1>3. \A j \in Saves : job'[j] = Idle
  BY <1>1 DEF Saves
<1>4. Raw' = Raw /\ (~setup.rdb => Raw = EmptyDB)
  BY <1>1 DEF TypeInv, Raw
<1>5. Owned(unlogged', W', s)
  BY <1>1 DEF Owned, Leaves
<1>6. y \in DBType /\ \A k \in Key : View(db', s, k) = View(y, s, k)
  <2>1. y \in DBType
    BY <1>2, DawnIs, LogTyped
  <2> SUFFICES ASSUME NEW k \in Key PROVE View(db', s, k) = View(y, s, k)
    BY <2>1
  <2>2. View(Replayed(x, aof, now), s, k) = View(Replayed(x, aof, Dawn), s, k)
    BY <1>2, DawnIs, Timeless
  <2>3. View(x, s, k) = View(Raw, s, k)
    BY LoadedView
  <2> HIDE DEF x
  <2>4. Covers(x, Raw, s, k, FALSE)
    BY <1>2, <2>3, CoversIfEqual
  <2>5. Covers(Replayed(x, aof, Dawn), y, s, k, FALSE)
    BY <1>2, <2>4, DawnIs, CoversReplay
  <2>6. View(Replayed(x, aof, Dawn), s, k) = View(y, s, k)
    BY <2>5 DEF Covers
  <2> QED
    BY <1>1, <2>2, <2>6
<1>7. \A k \in Key : Restores(Raw, aof, unlogged', y, s, k, Pops')
  BY <1>1, <1>2, RestoresBegin
<1> HIDE DEF x, y
<1>8. ASSUME NEW z \in Sources(s)' PROVE z = Raw \/ (s # "list" /\ z = db')
  <2>1. Place[s] >= 1
    BY OthersAre DEF Place
  <2>2. \A j \in Saves : ~(Place[s] < job'[j].at)
    BY <1>3, <2>1, IdleTyped, OthersAre DEF Place
  <2>3. Dumps(s)' = {}
    BY <2>2 DEF Dumps
  <2>4. ~setup'.rdb => Raw = EmptyDB
    BY <1>1, <1>4
  <2> QED
    BY <1>4, <2>3, <2>4 DEF Sources
<1>9. ASSUME NEW k \in Key PROVE Restores(Raw, aof, unlogged', db', s, k, Pops')
  BY <1>2, <1>6, <1>7, RestoresAlike
<1>10. ASSUME s # "list", NEW k \in Key PROVE Restores(db', aof, unlogged', db', s, k, Pops')
  <2>1. s \in {"dict", "set", "hash"}
    BY <1>10, OthersAre
  <2> QED
    BY <1>2, <1>9, <2>1, RestoresItself
<1> QED
  BY <1>1, <1>5, <1>8, <1>9, <1>10

LEMMA RestoreNext ==
  ASSUME NEW s \in Others, Restorable(s), TypeInv, s = "set" => UndatedInv, RestoreInv(s), [Next]_vars
  PROVE  RestoreInv(s)'
<1>1. CASE \E c \in Client : \E m \in Workload[setup.workload][c] : Execute(c, m)
  BY <1>1, RestoreExecute DEF W
<1>2. CASE \E c \in Client : AppendRecord(c)
  BY <1>2, RestoreAppend
<1>3. CASE \E j \in Jobs : Dump(j)
  BY <1>3, RestoreDump
<1>4. CASE Rewrite
  <2>1. CASE setup.aof
    BY <1>4, <2>1 DEF Rewrite, RestoreInv
  <2>2. CASE ~setup.aof
    BY <1>4, <2>2 DEF Rewrite, RestoreInv
  <2> QED
    BY <2>1, <2>2
<1>5. CASE \E j \in Saves : Truncate(j) \/ Encode(j)
  BY <1>5, RestoreTruncate, RestoreEncode
<1>6. CASE Restart
  BY <1>6, RestoreRestart
<1>7. CASE UNCHANGED vars
  BY <1>7 DEF vars, RestoreInv, W, Sources, Truncated, Dumps, Pops, Raw
<1>8. CASE Tick
  BY <1>8, RestoreTick
<1>9. CASE \E u \in {"dict", "set"}, k \in Key : Evict(u, k)
  BY <1>9, RestoreEvict
<1> QED
  BY <1>1, <1>2, <1>3, <1>4, <1>5, <1>6, <1>7, <1>8, <1>9 DEF Next

(* What is on disk while the log has everything.                           *)
LEMMA DiskCovers ==
  ASSUME NEW s \in Others, TypeInv, s = "set" => UndatedInv, RestoreInv(s), Logging,
         s = "list" => ~setup.rdb, NEW k \in Key, ~InFlight(k)
  PROVE  Covers(Disk, db, s, k, Pops) /\ Disk \in DBType
<1> DEFINE x == LoadedRDB(rdb, now)
           y == Replayed(Raw, aof, Dawn)
           z == Replayed(x, aof, Dawn)
<1>1. /\ aof \in Logs /\ aof \in Seq(Loggable) /\ x \in DBType /\ Raw \in DBType /\ db \in DBType
      /\ now \in Nat /\ s \in StoreNames /\ setup.aof /\ Disk = Replayed(x, aof, now)
  BY LoadsRaw, OthersAre DEF TypeInv, Logs, Logging, Disk, Recovered
<1>2. Raw \in Sources(s)
  BY DEF Sources, Truncated, Logging, TypeInv, Raw
<1>3. \A c \in Client : Leaves(unlogged[c], s, k)
  BY DEF InFlight, Leaves, Touches
<1>4. Restores(Raw, aof, unlogged, db, s, k, Pops)
  BY <1>2 DEF RestoreInv, Logging
<1>5. Covers(y, db, s, k, Pops)
  BY <1>1, <1>3, <1>4, RestoresEnd
<1>6. View(x, s, k) = View(Raw, s, k)
  BY <1>1, LoadedView
<1> HIDE DEF x
<1>7. y \in DBType /\ z \in DBType /\ Disk \in DBType
  BY <1>1, DawnIs, LogTyped
<1>8. Covers(x, Raw, s, k, Pops)
  BY <1>1, <1>6, CoversIfEqual
<1>9. Covers(z, y, s, k, Pops)
  BY <1>1, <1>8, DawnIs, CoversReplay
<1>10. View(Disk, s, k) = View(z, s, k)
  BY <1>1, DawnIs, Timeless
<1> HIDE DEF y, z
<1>11. Covers(Disk, z, s, k, Pops)
  BY <1>1, <1>7, <1>10, CoversIfEqual
<1>12. Covers(Disk, y, s, k, Pops)
  BY <1>1, <1>7, <1>9, <1>11, CoversTransitive
<1>13. Covers(Disk, db, s, k, Pops)
  BY <1>1, <1>5, <1>7, <1>12, CoversTransitive
<1> QED
  BY <1>7, <1>13

(* A crash at any point loses no field that a hash has, and brings none    *)
(* back that HDEL deleted, although the AOF is replayed on top of a        *)
(* snapshot that may have most of it, or less, or one store of it more     *)
(* than another (server.go:82-143, aof.go:54-94, hash_command.go:37-90).   *)
(* Assumed: keys have one client each.                                     *)
THEOREM HashesDurable ==
  ASSUME OwnKeys("hash")
  PROVE  Spec => []HashFieldsDurable
<1>1. "hash" \in Others /\ Restorable("hash")
  BY DEF Others, StoreNames, Restorable, Unrestored, NoneSends
<1>2. TypeInv /\ RestoreInv("hash") => HashFieldsDurable
  <2> SUFFICES ASSUME TypeInv, RestoreInv("hash"), Logging, NEW k \in Key, ~InFlight(k)
               PROVE  DOMAIN Disk.hash[k] = DOMAIN db.hash[k]
    BY DEF HashFieldsDurable
  <2>1. Covers(Disk, db, "hash", k, Pops)
    BY <1>1, DiskCovers
  <2> QED
    BY <2>1 DEF Covers, View
<1>3. Init => RestoreInv("hash")
  BY <1>1, RestoreInit
<1>4. TypeInv /\ RestoreInv("hash") /\ [Next]_vars => RestoreInv("hash")'
  BY <1>1, RestoreNext
<1> QED
  BY <1>2, <1>3, <1>4, TypesAlways, PTL DEF Spec

(* A crash at any point loses no element of a list and changes no order,   *)
(* with no RDB file; where pops are sent, no element is missing            *)
(* (list_command.go:41-139, 188-228).  Assumed: keys have one client each. *)
THEOREM ListsDurable ==
  ASSUME OwnKeys("list")
  PROVE  Spec => []ListDurable
<1>1. "list" \in Others /\ Restorable("list")
  BY DEF Others, StoreNames, Restorable, Unrestored, NoneSends
<1>2. TypeInv /\ RestoreInv("list") => ListDurable
  <2> SUFFICES ASSUME TypeInv, RestoreInv("list"), Logging, ~setup.rdb, NEW k \in Key, ~InFlight(k)
               PROVE  IF Pops
                      THEN \A v \in Value : Occurrences(db.list[k], v) <= Occurrences(Disk.list[k], v)
                      ELSE Disk.list[k] = db.list[k]
    BY DEF ListDurable
  <2>1. Covers(Disk, db, "list", k, Pops)
    BY <1>1, DiskCovers
  <2> QED
    BY <2>1 DEF Covers, View
<1>3. Init => RestoreInv("list")
  BY <1>1, RestoreInit
<1>4. TypeInv /\ RestoreInv("list") /\ [Next]_vars => RestoreInv("list")'
  BY <1>1, RestoreNext
<1> QED
  BY <1>2, <1>3, <1>4, TypesAlways, PTL DEF Spec

(* Sets without deadlines are their members.                               *)
LEMMA UndatedItem ==
  ASSUME NEW i \in SetItem \cup {Absent}, NEW j \in SetItem \cup {Absent},
         i # Absent => i.deadline = 0, j # Absent => j.deadline = 0, Members(i) = Members(j)
  PROVE  i = j
  BY DEF Members, SetItem

(* A crash at any point loses no member of a set and brings none back, the *)
(* AOF replayed on top of whatever snapshot there is or not                *)
(* (set_command.go:40-78, server.go:82-143).  Assumed: keys have one       *)
(* client each, and no client sends SEXPIRE, so that there are no          *)
(* deadlines.                                                              *)
THEOREM SetsDurable ==
  ASSUME OwnKeys("set"), NoneSends({"SEXPIRE"})
  PROVE  Spec => []SetDurable
<1>1. "set" \in Others /\ Restorable("set")
  BY DEF Others, StoreNames, Restorable, Unrestored
<1>2. TypeInv /\ UndatedInv /\ RestoreInv("set") => SetDurable
  <2> SUFFICES ASSUME TypeInv, UndatedInv, RestoreInv("set"), Logging, NEW k \in Key, ~InFlight(k)
               PROVE  Disk.set[k] = db.set[k]
    BY DEF SetDurable
  <2>1. Covers(Disk, db, "set", k, Pops) /\ Disk \in DBType /\ db \in DBType
    BY <1>1, DiskCovers DEF TypeInv
  <2>2. Members(Disk.set[k]) = Members(db.set[k])
    BY <2>1 DEF Covers, View
  <2>3. SetsUndated(db) /\ SetsUndated(Disk)
    <3>1. SetsUndated(Raw) /\ SetsUndated(db)
      BY EmptyUndated DEF UndatedInv, Logging, Raw
    <3>2. aof \in Seq(Loggable) /\ LoadedRDB(rdb, now) \in DBType /\ now \in Nat
      BY SeenTyped DEF TypeInv, Logs
    <3>3. SetsUndated(LoadedRDB(rdb, now))
      <4>1. \A j \in Key : LoadedRDB(rdb, now).set[j] # Absent => LoadedRDB(rdb, now).set[j] = Raw.set[j]
        BY LoadsRaw DEF Living
      <4> QED
        BY <3>1, <4>1 DEF SetsUndated
    <3> QED
      BY <3>1, <3>2, <3>3, UndatedReplay DEF Disk, Recovered
  <2>4. /\ Disk.set[k] \in SetItem \cup {Absent} /\ db.set[k] \in SetItem \cup {Absent}
        /\ (Disk.set[k] # Absent => Disk.set[k].deadline = 0) /\ (db.set[k] # Absent => db.set[k].deadline = 0)
    BY <2>1, <2>3, DBFields DEF SetsUndated
  <2> QED
    BY <2>2, <2>4, UndatedItem
<1>3. Init => RestoreInv("set")
  BY <1>1, RestoreInit
<1>4. TypeInv /\ UndatedInv /\ RestoreInv("set") /\ [Next]_vars => RestoreInv("set")'
  BY <1>1, RestoreNext
<1>5. TypeInv /\ UndatedInv /\ [Next]_vars => UndatedInv'
  BY UndatedNext
<1> QED
  BY <1>2, <1>3, <1>4, <1>5, UndatedInit, TypesAlways, PTL DEF Spec

(* What a rewrite leaves in the AOF replays to exactly the four dumps, but *)
(* for what has expired since, whatever orders its maps are walked in      *)
(* (aof.go:183-270).  Assumed: no client sends SEXPIRE, whose deadline the *)
(* rewrite writes as one for the dict.                                     *)
THEOREM RewritesReplayDump ==
  ASSUME NoneSends({"SEXPIRE"})
  PROVE  Spec => RewriteReplaysDump
<1>1. TypeInv /\ UndatedInv /\ [Next]_vars => UndatedInv'
  BY UndatedNext
<1>2. ASSUME TypeInv, UndatedInv, Next
      PROVE  Rewrite /\ setup.aof => Replayed(EmptyDB, aof', now) = Visible(job["rewrite"].dump, now)
  <2> SUFFICES ASSUME Rewrite, setup.aof PROVE Replayed(EmptyDB, aof', now) = Visible(job["rewrite"].dump, now)
    OBVIOUS
  <2>1. job["rewrite"].dump \in DBType /\ SetsUndated(job["rewrite"].dump)
    BY <1>2, JobTypes DEF TypeInv, UndatedInv, Jobs
  <2>2. aof' = Commands(job["rewrite"].dump, "PEXPIREAT") /\ now \in Nat
    BY <1>2, SeenTyped DEF Rewrite, Rewritten
  <2> QED
    BY <2>1, <2>2, Rebuilt DEF Redates
<1> QED
  BY <1>1, <1>2, UndatedInit, TypesAlways, PTL DEF Spec, RewriteReplaysDump

-----------------------------------------------------------------------------
(* Durability of the dict.                                                 *)

(* What a log knows of an item i that memory has under k, and that any of  *)
(* the items Z may be what a start loads under it before the log: replayed *)
(* now it brings back nothing but i; it holds i still where i was loaded;  *)
(* and, if i is live and was never revived, it makes i of what was loaded, *)
(* but for what the time of the replay has it forget.                      *)
Recalls(L, k, Z, i, t, r) ==
  /\ \A z \in Z \cup {Absent} : After(L, k, t)[Living(z, t)] \in {Absent, i}
  /\ i # Absent => After(L, k, Dawn)[i] = i
  /\ Live(i, t) /\ ~r => \A z \in Z : After(L, k, Dawn)[z] = i

LEMMA LivingItem ==
  ASSUME NEW t \in Nat, NEW z \in DictItems
  PROVE  /\ Living(z, t) \in DictItems /\ Fresh(Living(z, t), t) /\ Living(z, Dawn) = z
         /\ Living(z, t) \in {Absent, z} /\ Living(Absent, t) = Absent
         /\ \A u \in Nat : t <= u /\ Live(z, u) => Live(z, t)
<1>1. Absent \in DictItems /\ Absent \notin DictItem /\ ~Live(Absent, t)
  BY DatabaseAssumption DEF DictItems, Live
<1>2. z # Absent => z.deadline \in Nat
  BY DEF DictItems, DictItem
<1>3. z # Absent => Live(z, Dawn)
  BY <1>2 DEF Live, Past, Dawn
<1>4. \A u \in Nat : t <= u /\ Live(z, u) => Live(z, t)
  BY <1>2 DEF Live, Past
<1> QED
  BY <1>1, <1>3, <1>4 DEF Living, Fresh, Live

(* It is about what the log makes of the items only.                       *)
LEMMA RecallsAlike ==
  ASSUME NEW t \in Nat, NEW L \in Logs, NEW M \in Logs, NEW k \in Key, NEW Z \in SUBSET DictItems,
         NEW i \in DictItems, NEW r, Recalls(L, k, Z, i, t, r),
         \A z \in DictItems : After(M, k, t)[z] = After(L, k, t)[z],
         \A z \in DictItems : After(M, k, Dawn)[z] = After(L, k, Dawn)[z]
  PROVE  Recalls(M, k, Z, i, t, r)
<1>1. \A z \in Z \cup {Absent} : z \in DictItems /\ Living(z, t) \in DictItems
  BY LivingItem DEF DictItems
<1> QED
  BY <1>1 DEF Recalls

(* A log with more that leaves the key alone.                              *)
LEMMA RecallsLeaves ==
  ASSUME NEW t \in Nat, NEW L \in Logs, NEW M \in Logs, NEW k \in Key, NEW Z \in SUBSET DictItems,
         NEW i \in DictItems, NEW r, Leaves(M, "dict", k)
  PROVE  Recalls(L \o M, k, Z, i, t, r) <=> Recalls(L, k, Z, i, t, r)
<1>1. ASSUME NEW u \in Nat, NEW z \in DictItems PROVE After(L \o M, k, u)[z] = After(L, k, u)[z]
  <2>1. After(L \o M, k, u)[z] = After(M, k, u)[After(L, k, u)[z]]
    BY AfterBoth DEF Logs
  <2>2. After(L, k, u)[z] \in DictItems
    BY AfterItem DEF Logs
  <2> QED
    BY <2>1, <2>2, AfterLeaves DEF Logs
<1>2. L \o M \in Logs
  BY LogRules
<1> QED
  BY <1>1, <1>2, DawnIs, RecallsAlike

(* With the clock a log only forgets.                                      *)
LEMMA RecallsLater ==
  ASSUME NEW t \in Nat, NEW u \in Nat, t <= u, NEW L \in Logs, NEW k \in Key, NEW Z \in SUBSET DictItems,
         NEW i \in DictItems, NEW r, Recalls(L, k, Z, i, t, r)
  PROVE  Recalls(L, k, Z, i, u, r)
<1> DEFINE f == After(L, k, t)
           g == After(L, k, u)
<1>1. f \in DictEffects /\ Absent \in DictItems
  BY AfterItem DEF Logs, DictItems
<1>2. (\A z \in DictItems : g[z] = f[z]) \/ (\A z \in DictItems : g[z] = Absent)
  BY AfterLater DEF Logs
<1>3. \A z \in Z \cup {Absent} : f[Living(z, t)] \in {Absent, i}
  BY DEF Recalls
<1> HIDE DEF f, g
<1>4. ASSUME NEW z \in Z \cup {Absent} PROVE g[Living(z, u)] \in {Absent, i}
  <2>1. z \in DictItems
    BY <1>1
  <2>2. Living(z, u) \in {Absent, Living(z, t)} /\ Living(z, u) \in DictItems /\ Living(z, t) \in DictItems
    <3>1. Live(z, u) => Live(z, t)
      BY <2>1, LivingItem
    <3> QED
      BY <2>1, <3>1, LivingItem DEF Living
  <2>3. f[Absent] \in {Absent, f[Living(z, t)]}
    BY <1>1, <2>2, EffectRules
  <2>4. f[Living(z, u)] \in {Absent, i}
    BY <1>3, <2>2, <2>3
  <2> QED
    BY <1>2, <2>2, <2>4
<1>5. Live(i, u) => Live(i, t)
  BY LivingItem
<1> QED
  BY <1>4, <1>5 DEF Recalls, g

(* An item past its deadline is as good as none.                           *)
LEMMA RecallsEvicted ==
  ASSUME NEW t \in Nat, NEW L \in Logs, NEW k \in Key, NEW Z \in SUBSET DictItems,
         NEW i \in DictItems, NEW r, ~Live(i, t), Recalls(L, k, Z, i, t, r)
  PROVE  Recalls(L, k, Z, Absent, t, r)
<1>1. ASSUME NEW z \in Z \cup {Absent} PROVE After(L, k, t)[Living(z, t)] = Absent
  <2>1. z \in DictItems
    BY DEF DictItems
  <2>2. After(L, k, t)[Living(z, t)] \in {Absent, i}
    BY DEF Recalls
  <2>3. Fresh(After(L, k, t)[Living(z, t)], t)
    BY <2>1, LivingItem, AfterFresh DEF Logs
  <2> QED
    BY <2>2, <2>3 DEF Fresh
<1>2. ~Live(Absent, t)
  BY DEF Live
<1> QED
  BY <1>1, <1>2 DEF Recalls

(* A dump of the item, for a start to load, and a dump lost.               *)
LEMMA RecallsDump ==
  ASSUME NEW t \in Nat, NEW L \in Logs, NEW k \in Key, NEW Z \in SUBSET DictItems,
         NEW i \in DictItems, NEW r, Recalls(L, k, Z, i, t, r), NEW Y, Y \subseteq Z \cup {Living(i, t)}
  PROVE  Recalls(L, k, Y, i, t, r)
<1>1. Living(i, t) \in DictItems /\ Living(Living(i, t), t) = Living(i, t) /\ Living(Absent, t) = Absent
  BY LivingItem DEF Living, Live
<1>2. After(L, k, t)[Living(i, t)] \in {Absent, i}
  <2>1. CASE Living(i, t) = Absent
    <3>1. After(L, k, t)[Living(Absent, t)] \in {Absent, i}
      BY DEF Recalls
    <3> QED
      BY <1>1, <2>1, <3>1
  <2>2. CASE Living(i, t) # Absent
    <3>1. Living(i, t) = i /\ i # Absent /\ Dawn <= t
      BY <2>2 DEF Living, Live, Dawn
    <3>2. After(L, k, Dawn)[i] = i
      BY <3>1 DEF Recalls
    <3>3. After(L, k, t)[i] \in {Absent, After(L, k, Dawn)[i]}
      BY <3>1, DawnIs, AfterLater DEF Logs
    <3> QED
      BY <3>1, <3>2, <3>3
  <2> QED
    BY <2>1, <2>2
<1>3. ASSUME Live(i, t), ~r, NEW z \in Y PROVE After(L, k, Dawn)[z] = i
  <2>1. Living(i, t) = i /\ i # Absent
    BY <1>3 DEF Living, Live
  <2> QED
    BY <1>3, <2>1 DEF Recalls
<1> QED
  BY <1>1, <1>2, <1>3 DEF Recalls

(* What a start at time t makes, the log recalls.                          *)
LEMMA RecallsStart ==
  ASSUME NEW t \in Nat, NEW L \in Logs, NEW k \in Key, NEW z \in DictItems, NEW i,
         i = After(L, k, t)[Living(z, t)], NEW r
  PROVE  i \in DictItems /\ Recalls(L, k, {z}, i, t, r)
<1> DEFINE f == After(L, k, t)
           g == After(L, k, Dawn)
           y == Living(z, t)
<1>1. /\ f \in DictEffects /\ g \in DictEffects /\ y \in DictItems /\ Absent \in DictItems
      /\ y \in {Absent, z} /\ Living(Absent, t) = Absent
  BY AfterItem, DawnIs, LivingItem DEF Logs, DictItems
<1>2. (\A x \in DictItems : f[x] = g[x]) \/ (\A x \in DictItems : f[x] = Absent)
  <2>1. Dawn <= t
    BY DEF Dawn
  <2> QED
    BY <2>1, DawnIs, AfterLater DEF Logs
<1>3. i \in DictItems
  BY <1>1, EffectRules
<1> HIDE DEF f, g, y
<1>4. i = f[y]
  BY DEF f, y
<1>5. f[Absent] \in {Absent, i}
  BY <1>1, <1>4, EffectRules
<1>6. ASSUME i # Absent PROVE g[i] = i /\ g[z] = i
  <2>1. \A x \in DictItems : f[x] = g[x]
    BY <1>1, <1>2, <1>4, <1>6
  <2>2. g[i] = i
    BY <1>1, <1>4, <2>1, EffectRules
  <2>3. g[z] = i
    <3>1. g[Absent] # Absent => g[Absent] = g[z]
      BY <1>1, EffectRules
    <3> QED
      BY <1>1, <1>4, <1>6, <2>1, <3>1
  <2> QED
    BY <2>2, <2>3
<1>7. Live(i, t) => i # Absent
  BY DEF Live
<1>8. \A x \in {z} \cup {Absent} : f[Living(x, t)] \in {Absent, i}
  BY <1>1, <1>4, <1>5 DEF y
<1> QED
  BY <1>3, <1>6, <1>7, <1>8 DEF Recalls, f, g

(* And what a start would make now, if nothing is to come.                 *)
LEMMA RecallsEnd ==
  ASSUME NEW t \in Nat, NEW L \in Logs, NEW k \in Key, NEW Z \in SUBSET DictItems,
         NEW i \in DictItems, NEW r, Recalls(L, k, Z, i, t, r), NEW z \in Z
  PROVE  \/ After(L, k, t)[Living(z, t)] = Living(i, t)
         \/ After(L, k, t)[Living(z, t)] = Absent /\ (After(L, k, Dawn)[Living(z, Dawn)] = i \/ r)
<1> DEFINE v == After(L, k, t)[Living(z, t)]
<1>1. v \in {Absent, i}
  BY DEF Recalls
<1>2. Fresh(v, t)
  BY LivingItem, AfterFresh DEF Logs
<1>3. Living(z, Dawn) = z
  BY LivingItem
<1> HIDE DEF v
<1>4. CASE v # Absent
  <2>1. v = i /\ Live(i, t)
    BY <1>1, <1>2, <1>4 DEF Fresh
  <2> QED
    BY <2>1 DEF Living, v
<1>5. CASE v = Absent /\ Live(i, t) /\ ~r
  BY <1>3, <1>5 DEF Recalls, v
<1>6. CASE v = Absent /\ ~Live(i, t)
  BY <1>6 DEF Living, v
<1> QED
  BY <1>4, <1>5, <1>6 DEF v

(* What a handler's records make of an item, and what its command did: a   *)
(* new item, no item, or the same with another deadline.                   *)
LEMMA RecallsNew ==
  ASSUME NEW t \in Nat, NEW L \in Logs, NEW M \in Logs, NEW k \in Key, NEW Z \in SUBSET DictItems,
         NEW i \in DictItems, NEW r,
         \A u \in {Dawn, t} : \A z \in DictItems : After(M, k, u)[z] = i
  PROVE  Recalls(L \o M, k, Z, i, t, r)
<1>1. ASSUME NEW u \in {Dawn, t}, NEW z \in DictItems PROVE After(L \o M, k, u)[z] = i
  <2>1. u \in Nat
    BY DawnIs
  <2>2. After(L \o M, k, u)[z] = After(M, k, u)[After(L, k, u)[z]]
    BY <2>1, AfterBoth DEF Logs
  <2>3. After(L, k, u)[z] \in DictItems
    BY <2>1, AfterItem DEF Logs
  <2> QED
    BY <2>2, <2>3
<1>2. \A z \in Z \cup {Absent} : z \in DictItems /\ Living(z, t) \in DictItems
  BY LivingItem DEF DictItems
<1> QED
  BY <1>1, <1>2 DEF Recalls

LEMMA RecallsGone ==
  ASSUME NEW t \in Nat, NEW L \in Logs, NEW M \in Logs, NEW k \in Key, NEW Z \in SUBSET DictItems,
         NEW r, \A z \in DictItems : After(M, k, t)[z] = Absent
  PROVE  Recalls(L \o M, k, Z, Absent, t, r)
<1>1. ASSUME NEW z \in DictItems PROVE After(L \o M, k, t)[z] = Absent
  <2>1. After(L \o M, k, t)[z] = After(M, k, t)[After(L, k, t)[z]]
    BY AfterBoth DEF Logs
  <2>2. After(L, k, t)[z] \in DictItems
    BY AfterItem DEF Logs
  <2> QED
    BY <2>1, <2>2
<1>2. \A z \in Z \cup {Absent} : z \in DictItems /\ Living(z, t) \in DictItems
  BY LivingItem DEF DictItems
<1>3. ~Live(Absent, t)
  BY DEF Live
<1> QED
  BY <1>1, <1>2, <1>3 DEF Recalls

LEMMA RecallsDated ==
  ASSUME NEW t \in Nat, NEW L \in Logs, NEW M \in Logs, NEW k \in Key, NEW Z \in SUBSET DictItems,
         NEW i \in DictItems, i # Absent, NEW r, NEW q, Recalls(L, k, Z, i, t, r),
         r \/ ~Live(i, t) => q, NEW at \in Nat,
         \A u \in {Dawn, t} : \A z \in DictItems : After(M, k, u)[z] = Dated(z, at)
  PROVE  Recalls(L \o M, k, Z, Dated(i, at), t, q)
<1> DEFINE f == After(L, k, Dawn)
           e == Dated(i, at)
<1>1. ASSUME NEW u \in {Dawn, t}, NEW z \in DictItems
      PROVE  After(L \o M, k, u)[z] = Dated(After(L, k, u)[z], at)
  <2>1. u \in Nat
    BY DawnIs
  <2>2. After(L \o M, k, u)[z] = After(M, k, u)[After(L, k, u)[z]]
    BY <2>1, AfterBoth DEF Logs
  <2>3. After(L, k, u)[z] \in DictItems
    BY <2>1, AfterItem DEF Logs
  <2> QED
    BY <2>2, <2>3
<1>2. \A z \in Z \cup {Absent} : z \in DictItems /\ Living(z, t) \in DictItems
  BY LivingItem DEF DictItems
<1>3. f \in DictEffects /\ e \in DictItems /\ Dated(Absent, at) = Absent
  BY AfterItem, DawnIs, DatedTwice DEF Logs, Dated
<1> HIDE DEF f, e
<1>4. ASSUME NEW z \in Z \cup {Absent} PROVE After(L \o M, k, t)[Living(z, t)] \in {Absent, e}
  <2>1. After(L, k, t)[Living(z, t)] \in {Absent, i}
    BY DEF Recalls
  <2>2. After(L \o M, k, t)[Living(z, t)] = Dated(After(L, k, t)[Living(z, t)], at)
    BY <1>1, <1>2
  <2> QED
    BY <1>3, <2>1, <2>2 DEF e
<1>5. After(L \o M, k, Dawn)[e] = e
  <2>1. f[i] = i
    BY DEF Recalls, f
  <2>2. Dated(f[e], at) = e
    BY <1>3, <2>1, EffectRules DEF e
  <2> QED
    BY <1>1, <1>3, <2>2 DEF f
<1>6. ASSUME ~q, NEW z \in Z PROVE After(L \o M, k, Dawn)[z] = e
  <2>1. f[z] = i
    BY <1>6 DEF Recalls, f
  <2> QED
    BY <1>1, <2>1 DEF f, e
<1>7. Recalls(L \o M, k, Z, e, t, q)
  BY <1>4, <1>5, <1>6 DEF Recalls
<1> QED
  BY <1>7 DEF e

(* What the records of SET and EXPIRE make of an item, replayed before the *)
(* deadline they give it.                                                  *)
LEMMA AfterSet ==
  ASSUME NEW u \in Nat, NEW k \in Key, NEW v \in Value, NEW z \in DictItems
  PROVE  /\ After(<<SET(k, v, 0)>>, k, u)[z] = [value |-> v, deadline |-> 0]
         /\ <<SET(k, v, 0)>> \in Logs /\ [value |-> v, deadline |-> 0] \in DictItems
<1> DEFINE x == SET(k, v, 0)
<1>1. x \in Loggable /\ Made(x, k, u, z) = [value |-> v, deadline |-> 0]
  BY RebuildRecords DEF Made, SET
<1> HIDE DEF x
<1>2. After(<<x>>, k, u)[z] = [value |-> v, deadline |-> 0] /\ <<x>> \in Seq(Loggable)
  BY <1>1, AfterOne, Short
<1> QED
  BY <1>2 DEF x, Logs, DictItems, DictItem

SetTtl(k, v, at) == <<SET(k, v, 0), PEXPIREAT(k, at)>>

LEMMA AfterSetTtl ==
  ASSUME NEW u \in Nat, NEW k \in Key, NEW v \in Value, NEW z \in DictItems,
         NEW at \in Nat \ {0}, ~Past(at, u)
  PROVE  After(SetTtl(k, v, at), k, u)[z] = [value |-> v, deadline |-> at]
<1> DEFINE one == <<SET(k, v, 0)>>
           y == PEXPIREAT(k, at)
           i == [value |-> v, deadline |-> 0]
<1>1. one \in Seq(Loggable) /\ After(one, k, u)[z] = i
  BY AfterSet DEF Logs
<1>2. y \in Loggable
  BY RebuildRecords
<1>3. Made(y, k, u, i) = Redated(i, at, u)
  BY DEF Made, PEXPIREAT
<1>4. Redated(i, at, u) = [value |-> v, deadline |-> at]
  BY RedatedValue
<1>5. <<SET(k, v, 0), y>> = Append(one, y)
  OBVIOUS
<1> HIDE DEF one, y, i
<1>6. After(Append(one, y), k, u)[z] = Made(y, k, u, i)
  BY <1>1, <1>2, AfterMore
<1>7. After(<<SET(k, v, 0), y>>, k, u)[z] = [value |-> v, deadline |-> at]
  BY <1>3, <1>4, <1>5, <1>6, Zenon
<1> QED
  BY <1>7 DEF y, SetTtl

LEMMA AfterPexpireat ==
  ASSUME NEW u \in Nat, NEW k \in Key, NEW z \in DictItems, NEW at \in Nat \ {0}
  PROVE  After(<<PEXPIREAT(k, at)>>, k, u)[z] = IF Past(at, u) THEN Absent ELSE Dated(z, at)
<1> DEFINE y == PEXPIREAT(k, at)
<1>1. y \in Loggable
  BY RebuildRecords
<1>2. Made(y, k, u, z) = Redated(z, at, u)
  BY DEF Made, PEXPIREAT
<1> HIDE DEF y
<1>3. After(<<y>>, k, u)[z] = Redated(z, at, u)
  BY <1>1, <1>2, AfterOne
<1>4. Redated(z, at, u) = IF Past(at, u) THEN Absent ELSE Dated(z, at)
  BY DEF Redated, Dated
<1> QED
  BY <1>3, <1>4 DEF y

LEMMA LoggedSet ==
  ASSUME NEW t \in Nat, NEW d, NEW m \in Command, m.op = "SET"
  PROVE  Logged(d, m, t) = IF m.ttl = 0 THEN <<SET(m.key, m.val, 0)>>
                           ELSE SetTtl(m.key, m.val, t + m.ttl)
<1> DEFINE x == SET(m.key, m.val, 0)
           y == PEXPIREAT(m.key, t + m.ttl)
<1>1. Logged(d, m, t) = <<x>> \o (IF m.ttl # 0 THEN <<y>> ELSE << >>)
  BY DEF Logged, SetRecords
<1> HIDE DEF x, y
<1>2. <<x>> \o <<y>> = <<x, y>> /\ <<x>> \o << >> = <<x>>
  BY Short
<1>3. m.ttl = 0 => Logged(d, m, t) = <<x>>
  BY <1>1, <1>2
<1>4. m.ttl # 0 => Logged(d, m, t) = <<x, y>>
  <2>1. m.ttl # 0 => Logged(d, m, t) = <<x>> \o <<y>>
    BY <1>1
  <2> QED
    BY <1>2, <2>1, Zenon
<1> QED
  BY <1>3, <1>4 DEF x, y, SetTtl

(* A command and its records: the log goes on to recall the item.          *)
LEMMA RecallsLogged ==
  ASSUME NEW t \in Nat \ {0}, NEW L \in Logs, NEW k \in Key, NEW Z \in SUBSET DictItems,
         NEW d \in DBType, NEW r, NEW q, Recalls(L, k, Z, d.dict[k], t, r),
         NEW m \in Command, m.op \notin {"PEXPIREAT", "SEXPIRE", "SEXPIREAT"},
         r => q \/ (m.op \in {"SET", "DEL"} /\ k \in KeysOf(m)),
         m.op = "EXPIRE" /\ m.key = k /\ ~Live(d.dict[k], t) => q
  PROVE  Recalls(L \o Logged(d, m, t), k, Z, Exec(d, m, t).dict[k], t, q)
<1> DEFINE R == Logged(d, m, t)
           i == d.dict[k]
           e == Exec(d, m, t).dict[k]
<1>1. /\ R \in Logs /\ t \in Nat /\ i \in DictItems /\ "dict" \in StoreNames
      /\ Exec(d, m, t) \in DBType /\ e = DictAfter(d, m, k, t) /\ e \in DictItems
  <2>1. R \in Logs /\ t \in Nat /\ "dict" \in StoreNames
    BY LoggedTyped DEF Logs, StoreNames
  <2>2. Exec(d, m, t) \in DBType /\ e = DictAfter(d, m, k, t)
    BY <2>1, ExecViews DEF View
  <2> QED
    BY <2>1, <2>2, DBFields DEF DictItems
<1>2. Recalls(L, k, Z, i, t, r)
  OBVIOUS
<1>3. \A u \in {Dawn, t} : u \in Nat /\ \A at \in Nat \ {0} : at > t => ~Past(at, u)
  BY <1>1 DEF Dawn, Past
<1>4. CASE ~Touches(m, "dict", k)
  <2>1. Leaves(R, "dict", k)
    BY <1>1, <1>4, LoggedLeaves
  <2>2. e = i
    BY <1>1, <1>4, UntouchedByOne DEF View
  <2>3. r => q
    BY <1>4 DEF Touches, OpsOn
  <2> HIDE DEF R, i, e
  <2>4. Recalls(L \o R, k, Z, i, t, r)
    BY <1>1, <1>2, <2>1, RecallsLeaves
  <2> QED
    BY <2>2, <2>3, <2>4 DEF Recalls, R, e
<1>5. CASE m.op = "SET" /\ k = m.key
  <2>1. m.val \in Value /\ m.ttl \in Nat /\ e = [value |-> m.val, deadline |-> Due(m.ttl, t)]
    BY <1>1, <1>5, CommandFields DEF DictAfter
  <2>2. CASE m.ttl = 0
    <3>1. R = <<SET(k, m.val, 0)>> /\ e = [value |-> m.val, deadline |-> 0]
      BY <1>1, <1>5, <2>1, <2>2, LoggedSet DEF Due
    <3>2. \A u \in {Dawn, t} : \A z \in DictItems : After(R, k, u)[z] = e
      BY <1>3, <2>1, <3>1, AfterSet
    <3> HIDE DEF R, e
    <3>3. Recalls(L \o R, k, Z, e, t, q)
      BY <1>1, <3>2, RecallsNew
    <3> QED
      BY <3>3 DEF R, e
  <2>3. CASE m.ttl # 0
    <3> DEFINE at == t + m.ttl
    <3>1. R = SetTtl(k, m.val, at) /\ e = [value |-> m.val, deadline |-> at]
      BY <1>1, <1>5, <2>1, <2>3, LoggedSet DEF Due
    <3>2. at \in Nat \ {0} /\ at > t
      BY <2>1, <2>3
    <3> HIDE DEF at
    <3> HIDE DEF R, e
    <3>3. ASSUME NEW u \in {Dawn, t}, NEW z \in DictItems PROVE After(R, k, u)[z] = e
      <4>1. u \in Nat /\ ~Past(at, u) /\ at \in Nat \ {0} /\ m.val \in Value /\ z \in DictItems
        BY <1>3, <2>1, <3>2
      <4>2. After(SetTtl(k, m.val, at), k, u)[z] = [value |-> m.val, deadline |-> at]
        BY <4>1, AfterSetTtl
      <4> QED
        BY <3>1, <4>2, Zenon
    <3>4. Recalls(L \o R, k, Z, e, t, q)
      BY <1>1, <3>3, RecallsNew
    <3> QED
      BY <3>4 DEF R, e
  <2> QED
    BY <2>2, <2>3
<1>6. CASE m.op = "DEL" /\ k \in m.keys
  <2>1. e = Absent
    BY <1>1, <1>6 DEF DictAfter
  <2>2. R = <<m>> /\ m \in Loggable
    BY <1>6 DEF Logged, Loggable
  <2>3. \A z : Made(m, k, t, z) = Absent
    BY <1>6 DEF Made
  <2>4. \A z \in DictItems : After(R, k, t)[z] = Absent
    BY <1>1, <2>2, <2>3, AfterOne
  <2> HIDE DEF R, e
  <2>5. Recalls(L \o R, k, Z, Absent, t, q)
    BY <1>1, <2>4, RecallsGone
  <2> QED
    BY <2>1, <2>5 DEF R, e
<1>7. CASE m.op = "EXPIRE" /\ k = m.key
  <2> DEFINE at == t + m.ttl
  <2>1. at \in Nat \ {0} /\ (~Past(at, t) => at > t) /\ e = Redated(i, at, t)
    BY <1>1, <1>7, CommandFields DEF DictAfter, Past
  <2>2. R = IF i # Absent THEN <<PEXPIREAT(k, at)>> ELSE << >>
    BY <1>7 DEF Logged, If
  <2>3. r \/ ~Live(i, t) => q
    BY <1>7
  <2> HIDE DEF at, i, e
  <2>4. CASE i = Absent
    <3>1. R = << >> /\ e = i
      BY <2>1, <2>2, <2>4 DEF Redated
    <3>2. L \o R = L
      BY <3>1, LogRules
    <3> QED
      BY <1>2, <2>3, <3>1, <3>2 DEF Recalls, e
  <2>5. CASE i # Absent /\ Past(at, t)
    <3>1. R = <<PEXPIREAT(k, at)>> /\ e = Absent
      BY <2>1, <2>2, <2>5 DEF Redated
    <3>2. \A z \in DictItems : After(R, k, t)[z] = Absent
      BY <1>1, <2>1, <2>5, <3>1, AfterPexpireat
    <3> HIDE DEF R
    <3>3. Recalls(L \o R, k, Z, Absent, t, q)
      BY <1>1, <3>2, RecallsGone
    <3> QED
      BY <3>1, <3>3 DEF R, e
  <2>6. CASE i # Absent /\ ~Past(at, t)
    <3>1. R = <<PEXPIREAT(k, at)>> /\ e = Dated(i, at)
      BY <2>1, <2>2, <2>6 DEF Redated, Dated
    <3>2. \A u \in {Dawn, t} : \A z \in DictItems : After(R, k, u)[z] = Dated(z, at)
      BY <1>3, <2>1, <2>6, <3>1, AfterPexpireat
    <3> HIDE DEF R
    <3>3. Recalls(L \o R, k, Z, Dated(i, at), t, q)
      BY <1>1, <1>2, <2>1, <2>3, <2>6, <3>2, RecallsDated
    <3> QED
      BY <3>1, <3>3 DEF R, e
  <2> QED
    BY <2>4, <2>5, <2>6
<1>8. Touches(m, "dict", k) =>
        \/ m.op \in {"SET", "EXPIRE"} /\ k = m.key
        \/ m.op = "DEL" /\ k \in m.keys
  BY DEF Touches, OpsOn, KeysOf
<1> QED
  BY <1>4, <1>5, <1>6, <1>7, <1>8

(* The log with the records that c has still to come recalls the item that *)
(* d has under k, for any c such that no other client has a record for     *)
(* that key to come, or nobody.                                            *)
Knows(L, U, k, Z, d, t, r) ==
  \A c \in Client \cup {Nobody} :
    Alone(U, c, "dict", k) => Recalls(L \o Rest(U, c), k, Z, d.dict[k], t, r)

(* Commands and records for a key are from one client.                     *)
LEMMA KnowsExecute ==
  ASSUME NEW t \in Nat \ {0}, NEW d \in DBType, NEW L \in Logs, NEW U \in [Client -> Logs], NEW V,
         NEW Sent \in [Client -> SUBSET Command], NEW k \in Key, NEW Z \in SUBSET DictItems,
         NEW r, NEW q, Exclusive(Sent, "dict"), Owned(U, Sent, "dict"),
         NEW c \in Client, NEW m \in Sent[c], U[c] = << >>, Knows(L, U, k, Z, d, t, r),
         V = [U EXCEPT ![c] = Logged(d, m, t)],
         m.op \notin {"PEXPIREAT", "SEXPIRE", "SEXPIREAT"},
         r => q \/ (m.op \in {"SET", "DEL"} /\ k \in KeysOf(m)),
         m.op = "EXPIRE" /\ m.key = k /\ ~Live(d.dict[k], t) => q
  PROVE  Knows(L, V, k, Z, Exec(d, m, t), t, q) /\ Owned(V, Sent, "dict")
<1> DEFINE R == Logged(d, m, t)
           i == d.dict[k]
           j == Exec(d, m, t).dict[k]
<1>1. /\ m \in Command /\ R \in Logs /\ t \in Nat /\ "dict" \in StoreNames /\ i \in DictItems /\ j \in DictItems
  <2>1. m \in Command /\ t \in Nat
    OBVIOUS
  <2>2. Exec(d, m, t) \in DBType /\ R \in Logs
    BY <2>1, LoggedTyped, ExecTyped DEF Logs
  <2> QED
    BY <2>1, <2>2, DBFields DEF DictItems, StoreNames
<1>2. V \in [Client -> Logs] /\ V[c] = R /\ \A e \in Client \ {c} : V[e] = U[e]
  BY <1>1
<1>3. ASSUME Recalls(L, k, Z, i, t, r) PROVE Recalls(L \o R, k, Z, j, t, q)
  BY <1>1, <1>3, RecallsLogged
<1>4. ~Touches(m, "dict", k) => i = j /\ (r => q)
  <2>1. ~Touches(m, "dict", k) => i = j
    BY <1>1, UntouchedByOne DEF View
  <2>2. ~Touches(m, "dict", k) => (r => q)
    BY DEF Touches, OpsOn
  <2> QED
    BY <2>1, <2>2
<1>5. \A s \in Key : ~Touches(m, "dict", s) => Leaves(R, "dict", s)
  BY <1>1, LoggedLeaves
<1> HIDE DEF R, i, j
<1>6. Owned(V, Sent, "dict")
  <2> SUFFICES ASSUME NEW e \in Client, NEW s \in Key, ~Leaves(V[e], "dict", s)
               PROVE  \E n \in Sent[e] : Touches(n, "dict", s)
    BY DEF Owned
  <2>1. CASE e # c
    BY <1>2, <2>1 DEF Owned
  <2>2. CASE e = c
    BY <1>2, <1>5, <2>2
  <2> QED
    BY <2>1, <2>2
<1>7. ASSUME Alone(V, c, "dict", k) PROVE Recalls(L, k, Z, i, t, r)
  <2>1. Alone(U, c, "dict", k)
    BY <1>2, <1>7 DEF Alone
  <2>2. Recalls(L \o Rest(U, c), k, Z, i, t, r)
    BY <2>1 DEF Knows, i
  <2>3. Rest(U, c) = << >> /\ L \o << >> = L
    BY LogRules DEF Rest
  <2> QED
    BY <2>2, <2>3
<1>8. ASSUME NEW e \in Client \cup {Nobody}, Alone(V, e, "dict", k)
      PROVE  Recalls(L \o Rest(V, e), k, Z, j, t, q)
  <2>1. CASE e = c
    <3>1. Rest(V, e) = R
      BY <1>2, <2>1 DEF Rest
    <3> QED
      BY <1>3, <1>7, <1>8, <2>1, <3>1
  <2>2. CASE e # c
    <3> DEFINE M == Rest(U, e)
    <3>1. M \in Logs /\ Rest(V, e) = M /\ Leaves(R, "dict", k)
      BY <1>2, <1>8, <2>2, RestTyped DEF Rest, Alone
    <3> HIDE DEF M
    <3>2. CASE Leaves(M, "dict", k)
      <4>1. ASSUME NEW f \in Client \ {c} PROVE Leaves(V[f], "dict", k)
        <5>1. CASE f = e
          BY <1>2, <3>2, <5>1 DEF Rest, M
        <5>2. CASE f # e
          BY <1>8, <5>2 DEF Alone
        <5> QED
          BY <5>1, <5>2
      <4>2. Recalls(L \o R, k, Z, j, t, q)
        BY <1>3, <1>7, <4>1 DEF Alone
      <4>3. Recalls(L, k, Z, j, t, q)
        BY <1>1, <3>1, <4>2, RecallsLeaves
      <4> QED
        BY <1>1, <3>1, <3>2, <4>3, RecallsLeaves
    <3>3. CASE ~Leaves(M, "dict", k)
      <4>1. e \in Client /\ M = U[e]
        BY <3>3 DEF Rest, Leaves, M
      <4>2. PICK o \in Sent[e] : Touches(o, "dict", k)
        BY <3>3, <4>1 DEF Owned
      <4>3. ~Touches(m, "dict", k)
        BY <2>2, <4>1, <4>2 DEF Exclusive
      <4>4. ASSUME NEW f \in Client \ {e} PROVE Leaves(U[f], "dict", k)
        <5>1. Leaves(U[c], "dict", k)
          BY DEF Leaves
        <5> QED
          BY <1>2, <1>8, <5>1 DEF Alone
      <4>5. Recalls(L \o M, k, Z, i, t, r)
        BY <4>1, <4>4 DEF Alone, Knows, i, M
      <4> QED
        BY <1>4, <3>1, <4>3, <4>5 DEF Recalls
    <3> QED
      BY <3>2, <3>3
  <2> QED
    BY <2>1, <2>2
<1> QED
  BY <1>6, <1>8 DEF Knows, j

LEMMA KnowsAppend ==
  ASSUME NEW t \in Nat, NEW d \in DBType, NEW L \in Logs, NEW U \in [Client -> Logs],
         NEW Sent \in [Client -> SUBSET Command], NEW k \in Key, NEW Z \in SUBSET DictItems,
         NEW r, Exclusive(Sent, "dict"), Owned(U, Sent, "dict"),
         NEW c \in Client, U[c] # << >>, Knows(L, U, k, Z, d, t, r)
  PROVE  /\ Knows(Append(L, Head(U[c])), [U EXCEPT ![c] = Tail(@)], k, Z, d, t, r)
         /\ Owned([U EXCEPT ![c] = Tail(@)], Sent, "dict")
<1> DEFINE h == Head(U[c])
           T == Tail(U[c])
           V == [U EXCEPT ![c] = Tail(@)]
           N == Append(L, h)
           i == d.dict[k]
<1>1. /\ U[c] \in Logs /\ N \in Logs /\ T \in Logs /\ N \o T = L \o U[c]
      /\ N = L \o <<h>> /\ <<h>> \in Logs /\ i \in DictItems
  BY HeadAndTail, DBFields DEF DictItems
<1>2. \A s \in Key : /\ Leaves(U[c], "dict", s) <=> ~Touches(h, "dict", s) /\ Leaves(T, "dict", s)
                     /\ Leaves(<<h>>, "dict", s) <=> ~Touches(h, "dict", s)
  BY <1>1, LeavesTail
<1>3. V \in [Client -> Logs] /\ V[c] = T /\ \A e \in Client \ {c} : V[e] = U[e]
  BY <1>1
<1> HIDE DEF h, T, V, N, i
<1>4. Owned(V, Sent, "dict")
  <2> SUFFICES ASSUME NEW e \in Client, NEW s \in Key, ~Leaves(V[e], "dict", s)
               PROVE  ~Leaves(U[e], "dict", s)
    BY DEF Owned
  <2>1. CASE e # c
    BY <1>3, <2>1
  <2>2. CASE e = c
    BY <1>2, <1>3, <2>2
  <2> QED
    BY <2>1, <2>2
<1>5. ASSUME Alone(V, c, "dict", k) PROVE Recalls(N \o T, k, Z, i, t, r)
  <2>1. Alone(U, c, "dict", k)
    BY <1>3, <1>5 DEF Alone
  <2> QED
    BY <1>1, <2>1 DEF Knows, Rest, i
<1>6. ASSUME NEW e \in Client \cup {Nobody}, Alone(V, e, "dict", k)
      PROVE  Recalls(N \o Rest(V, e), k, Z, i, t, r)
  <2>1. CASE e = c
    <3>1. Rest(V, e) = T
      BY <1>3, <2>1 DEF Rest
    <3> QED
      BY <1>5, <1>6, <2>1, <3>1
  <2>2. CASE e # c
    <3> DEFINE M == Rest(U, e)
    <3>1. M \in Logs /\ Rest(V, e) = M /\ Leaves(T, "dict", k)
      BY <1>3, <1>6, <2>2, RestTyped DEF Rest, Alone
    <3> HIDE DEF M
    <3>2. CASE Leaves(M, "dict", k)
      <4>1. ASSUME NEW f \in Client \ {c} PROVE Leaves(V[f], "dict", k)
        <5>1. CASE f = e
          BY <1>3, <3>2, <5>1 DEF Rest, M
        <5>2. CASE f # e
          BY <1>6, <5>2 DEF Alone
        <5> QED
          BY <5>1, <5>2
      <4>2. Recalls(N \o T, k, Z, i, t, r)
        BY <1>5, <4>1 DEF Alone
      <4>3. Recalls(N, k, Z, i, t, r)
        BY <1>1, <3>1, <4>2, RecallsLeaves
      <4> QED
        BY <1>1, <3>1, <3>2, <4>3, RecallsLeaves
    <3>3. CASE ~Leaves(M, "dict", k)
      <4>1. e \in Client /\ M = U[e]
        BY <3>3 DEF Rest, Leaves, M
      <4>2. PICK o \in Sent[e] : Touches(o, "dict", k)
        BY <3>3, <4>1 DEF Owned
      <4>3. Leaves(U[c], "dict", k)
        <5> SUFFICES ASSUME ~Leaves(U[c], "dict", k) PROVE FALSE
          OBVIOUS
        <5>1. PICK n \in Sent[c] : Touches(n, "dict", k)
          BY DEF Owned
        <5> QED
          BY <2>2, <4>1, <4>2, <5>1 DEF Exclusive
      <4>4. ASSUME NEW f \in Client \ {e} PROVE Leaves(U[f], "dict", k)
        BY <1>3, <1>6, <4>3 DEF Alone
      <4>5. Recalls(L \o M, k, Z, i, t, r)
        BY <4>1, <4>4 DEF Alone, Knows, i, M
      <4>6. ASSUME NEW u \in Nat, NEW z \in DictItems PROVE After(N \o M, k, u)[z] = After(L \o M, k, u)[z]
        <5>1. L \in Seq(Loggable) /\ M \in Seq(Loggable) /\ N \in Seq(Loggable) /\ <<h>> \in Seq(Loggable)
          BY <1>1, <3>1 DEF Logs
        <5>2. After(L, k, u)[z] \in DictItems
          BY <5>1, AfterItem
        <5>3. After(L \o <<h>>, k, u)[z] = After(<<h>>, k, u)[After(L, k, u)[z]]
          BY <5>1, AfterBoth
        <5>4. \A y \in DictItems : After(<<h>>, k, u)[y] = y
          BY <1>2, <4>3, <5>1, AfterLeaves
        <5>5. After(N, k, u)[z] = After(L, k, u)[z]
          BY <1>1, <5>2, <5>3, <5>4, Zenon
        <5>6. /\ After(N \o M, k, u)[z] = After(M, k, u)[After(N, k, u)[z]]
              /\ After(L \o M, k, u)[z] = After(M, k, u)[After(L, k, u)[z]]
          BY <5>1, AfterBoth
        <5> QED
          BY <5>5, <5>6, Zenon
      <4>7. N \o M \in Logs /\ L \o M \in Logs /\ Dawn \in Nat
        BY <1>1, <3>1, LogRules, DawnIs
      <4>8. Recalls(N \o M, k, Z, i, t, r)
        BY <1>1, <4>5, <4>6, <4>7, RecallsAlike
      <4> QED
        BY <3>1, <4>8
    <3> QED
      BY <3>2, <3>3
  <2> QED
    BY <2>1, <2>2
<1>7. Knows(N, V, k, Z, d, t, r)
  BY <1>6 DEF Knows, i
<1> QED
  BY <1>4, <1>7 DEF V, N, h

(* What a start may load under k: what the snapshot on disk has, and what  *)
(* the saves at work have dumped.                                          *)
Saved(k) == {x.dict[k] : x \in (IF Truncated THEN {} ELSE {Raw}) \cup Dumps("dict")}

(* The invariant behind the dict's durability: while the server's handle   *)
(* is the AOF, the log with the records still to come recalls every item.  *)
DictInv ==
  setup.aof /\ attached =>
    /\ Owned(unlogged, W, "dict")
    /\ \A k \in Key : Knows(aof, unlogged, k, Saved(k), db, now, k \in revived)

LEMMA SavedTyped ==
  ASSUME TypeInv, NEW k \in Key
  PROVE  Saved(k) \subseteq DictItems
<1>1. Raw \in DBType
  BY LoadsRaw
<1>2. \A j \in Saves : job[j].dump \in DBType
  BY JobTypes DEF TypeInv, Saves
<1>3. \A x \in DBType : x.dict[k] \in DictItems
  BY DBFields DEF DictItems
<1> QED
  BY <1>1, <1>2, <1>3 DEF Saved, Dumps

(* A step that leaves the log and the records to come alone, and perhaps   *)
(* loses sources, or adds what a dump has made of the item.                *)
LEMMA DictKeeps ==
  ASSUME TypeInv, DictInv, UNCHANGED <<setup, now, db, unlogged, aof, attached, revived>>,
         \A k \in Key : Saved(k)' \subseteq Saved(k) \cup {Living(db.dict[k], now)}
  PROVE  DictInv'
<1> SUFFICES ASSUME setup.aof, attached, NEW k \in Key, NEW c \in Client \cup {Nobody},
                    Alone(unlogged, c, "dict", k)
             PROVE  Recalls(aof \o Rest(unlogged, c), k, Saved(k)', db.dict[k], now, k \in revived)
  BY DEF DictInv, Knows, W
<1>1. Recalls(aof \o Rest(unlogged, c), k, Saved(k), db.dict[k], now, k \in revived)
  BY DEF DictInv, Knows
<1>2. aof \o Rest(unlogged, c) \in Logs /\ now \in Nat /\ db.dict[k] \in DictItems
  BY RestTyped, LogRules, DBFields DEF TypeInv, DictItems
<1> QED
  BY <1>1, <1>2, SavedTyped, RecallsDump

LEMMA DictInit == Init => DictInv
<1> SUFFICES ASSUME Init PROVE DictInv
  OBVIOUS
<1>1. /\ db = EmptyDB /\ aof = << >> /\ Raw = EmptyDB /\ \A c \in Client : unlogged[c] = << >>
  BY DEF Init, Raw
<1>2. Owned(unlogged, W, "dict")
  BY <1>1 DEF Owned, Leaves
<1>3. ASSUME NEW k \in Key PROVE Knows(aof, unlogged, k, Saved(k), db, now, k \in revived)
  <2>1. \A x : x \in Saved(k) => x = Absent
    BY <1>1, IdleTyped DEF Init, Saved, Dumps, Place, Saves, EmptyDB
  <2>2. db.dict[k] = Absent /\ now \in Nat
    BY <1>1 DEF EmptyDB, Init
  <2>3. \A c : Rest(unlogged, c) = << >>
    BY <1>1 DEF Rest
  <2>4. aof \o << >> = << >> /\ Absent \in DictItems
    BY <1>1, LogRules DEF DictItems
  <2>5. After(<< >>, k, now)[Absent] = Absent /\ After(<< >>, k, Dawn)[Absent] = Absent
    BY <2>2, <2>4, DawnIs, AfterNothing
  <2>6. Living(Absent, now) = Absent /\ ~Live(Absent, now)
    BY DEF Living, Live
  <2>7. Recalls(<< >>, k, Saved(k), Absent, now, k \in revived)
    BY <2>1, <2>5, <2>6 DEF Recalls
  <2> QED
    BY <2>2, <2>3, <2>4, <2>7 DEF Knows
<1> QED
  BY <1>2, <1>3 DEF DictInv

LEMMA DictExecute ==
  ASSUME OwnKeys("dict"), NoneSends({"PEXPIREAT", "SEXPIRE"}), TypeInv, DictInv,
         NEW c \in Client, NEW m \in W[c], Execute(c, m)
  PROVE  DictInv'
<1>1. /\ unlogged[c] = << >> /\ db' = Exec(db, m, now)
      /\ unlogged' = [unlogged EXCEPT ![c] = IF setup.aof THEN Logged(db, m, now) ELSE << >>]
      /\ revived' = RevivedBy(m)
      /\ UNCHANGED <<setup, now, aof, attached, rdb, job>>
  BY DEF Execute
<1> SUFFICES ASSUME setup.aof, attached
             PROVE  /\ Owned(unlogged', W', "dict")
                    /\ \A k \in Key : Knows(aof', unlogged', k, Saved(k)', db', now', (k \in revived)')
  BY <1>1 DEF DictInv
<1>2. W' = W /\ \A k \in Key : Saved(k)' = Saved(k)
  BY <1>1 DEF W, Saved, Truncated, Dumps, Raw
<1>3. /\ Exclusive(W, "dict") /\ W \in [Client -> SUBSET Command] /\ m \in Command
      /\ m.op \notin {"PEXPIREAT", "SEXPIRE", "SEXPIREAT"} /\ now \in Nat \ {0}
  BY WorkloadTyped DEF OwnKeys, NoneSends, TypeInv, W
<1>4. /\ db \in DBType /\ aof \in Logs /\ unlogged \in [Client -> Logs]
      /\ unlogged' = [unlogged EXCEPT ![c] = Logged(db, m, now)]
  BY <1>1 DEF TypeInv
<1>5. Owned(unlogged, W, "dict") /\ \A k \in Key : Knows(aof, unlogged, k, Saved(k), db, now, k \in revived)
  BY DEF DictInv
<1>6. ASSUME NEW k \in Key
      PROVE  /\ k \in revived => k \in revived' \/ (m.op \in {"SET", "DEL"} /\ k \in KeysOf(m))
             /\ m.op = "EXPIRE" /\ m.key = k /\ ~Live(db.dict[k], now) => k \in revived'
  BY <1>1 DEF RevivedBy
<1>7. ASSUME NEW k \in Key
      PROVE  /\ Knows(aof, unlogged', k, Saved(k), Exec(db, m, now), now, k \in revived')
             /\ Owned(unlogged', W, "dict")
  BY <1>1, <1>3, <1>4, <1>5, <1>6, SavedTyped, KnowsExecute
<1>8. Key # {} => Owned(unlogged', W, "dict")
  BY <1>7
<1>9. Key = {} => Owned(unlogged', W, "dict")
  BY DEF Owned
<1> QED
  BY <1>1, <1>2, <1>7, <1>8, <1>9

LEMMA DictAppend ==
  ASSUME OwnKeys("dict"), TypeInv, DictInv, NEW c \in Client, AppendRecord(c)
  PROVE  DictInv'
<1>1. /\ unlogged[c] # << >> /\ unlogged' = [unlogged EXCEPT ![c] = Tail(@)]
      /\ aof' = (IF attached THEN Append(aof, Head(unlogged[c])) ELSE aof)
      /\ UNCHANGED <<setup, now, db, attached, rdb, job, revived>>
  BY DEF AppendRecord
<1> SUFFICES ASSUME setup.aof, attached
             PROVE  /\ Owned(unlogged', W', "dict")
                    /\ \A k \in Key : Knows(aof', unlogged', k, Saved(k)', db', now', (k \in revived)')
  BY <1>1 DEF DictInv
<1>2. W' = W /\ \A k \in Key : Saved(k)' = Saved(k)
  BY <1>1 DEF W, Saved, Truncated, Dumps, Raw
<1>3. /\ Exclusive(W, "dict") /\ W \in [Client -> SUBSET Command] /\ now \in Nat
      /\ db \in DBType /\ aof \in Logs /\ unlogged \in [Client -> Logs]
  BY WorkloadTyped DEF OwnKeys, TypeInv, W
<1>4. Owned(unlogged, W, "dict") /\ \A k \in Key : Knows(aof, unlogged, k, Saved(k), db, now, k \in revived)
  BY DEF DictInv
<1>5. ASSUME NEW k \in Key
      PROVE  Knows(aof', unlogged', k, Saved(k), db, now, k \in revived) /\ Owned(unlogged', W, "dict")
  BY <1>1, <1>3, <1>4, SavedTyped, KnowsAppend
<1>6. Key = {} => Owned(unlogged', W, "dict")
  BY DEF Owned
<1> QED
  BY <1>1, <1>2, <1>5, <1>6

LEMMA DictTick ==
  ASSUME TypeInv, DictInv, Tick
  PROVE  DictInv'
<1>1. UNCHANGED <<setup, db, unlogged, aof, attached, rdb, job, revived>> /\ now' = now + 1
  BY DEF Tick
<1>2. now \in Nat /\ now' \in Nat /\ now <= now'
  BY <1>1 DEF TypeInv
<1> SUFFICES ASSUME setup.aof, attached, NEW k \in Key, NEW c \in Client \cup {Nobody},
                    Alone(unlogged, c, "dict", k)
             PROVE  Recalls(aof \o Rest(unlogged, c), k, Saved(k), db.dict[k], now', k \in revived)
  BY <1>1 DEF DictInv, Knows, W, Saved, Truncated, Dumps, Raw
<1>3. Recalls(aof \o Rest(unlogged, c), k, Saved(k), db.dict[k], now, k \in revived)
  BY DEF DictInv, Knows
<1>4. aof \o Rest(unlogged, c) \in Logs /\ db.dict[k] \in DictItems
  BY RestTyped, LogRules, DBFields DEF TypeInv, DictItems
<1> QED
  BY <1>2, <1>3, <1>4, SavedTyped, RecallsLater

LEMMA DictEvict ==
  ASSUME TypeInv, DictInv, NEW s \in {"dict", "set"}, NEW j \in Key, Evict(s, j)
  PROVE  DictInv'
<1>1. UNCHANGED <<setup, now, unlogged, aof, attached, rdb, job, revived>>
  BY DEF Evict
<1>2. \A k \in Key : \/ db'.dict[k] = db.dict[k]
                     \/ db'.dict[k] = Absent /\ ~Live(db.dict[k], now)
  BY TypeEvict
<1> SUFFICES ASSUME setup.aof, attached, NEW k \in Key, NEW c \in Client \cup {Nobody},
                    Alone(unlogged, c, "dict", k)
             PROVE  Recalls(aof \o Rest(unlogged, c), k, Saved(k), db'.dict[k], now, k \in revived)
  BY <1>1 DEF DictInv, Knows, W, Saved, Truncated, Dumps, Raw
<1>3. Recalls(aof \o Rest(unlogged, c), k, Saved(k), db.dict[k], now, k \in revived)
  BY DEF DictInv, Knows
<1>4. aof \o Rest(unlogged, c) \in Logs /\ db.dict[k] \in DictItems /\ now \in Nat
  BY RestTyped, LogRules, DBFields DEF TypeInv, DictItems
<1> QED
  BY <1>2, <1>3, <1>4, SavedTyped, RecallsEvicted

LEMMA DictDump ==
  ASSUME TypeInv, DictInv, NEW j \in Jobs, Dump(j)
  PROVE  DictInv'
<1> DEFINE n == job[j].at
           v == Visible(db, now)
<1>1. /\ n \in 1 .. 4 /\ job'[j].at = n + 1 /\ job'[j].dump = WithStore(job[j].dump, v, n)
      /\ \A i \in Jobs \ {j} : job'[i] = job[i]
      /\ UNCHANGED <<setup, now, db, unlogged, aof, attached, rdb, revived>>
  BY TypeDump
<1>2. job[j].dump \in DBType /\ v \in DBType /\ now \in Nat /\ db \in DBType
  BY JobTypes, SeenTyped DEF TypeInv
<1>3. /\ \A k \in Key : v.dict[k] = Living(db.dict[k], now)
      /\ job'[j].dump.dict = (IF n = 1 THEN v.dict ELSE job[j].dump.dict)
  BY <1>1, <1>2, VisibleIs, Dumped
<1>4. Truncated' <=> Truncated
  <2>1. job'[j].at # 6 /\ job[j].at # 6
    BY <1>1
  <2> QED
    BY <1>1, <2>1 DEF Truncated, Saves
<1>5. Raw' = Raw /\ Place["dict"] = 1
  BY <1>1 DEF Raw, Place
<1> HIDE DEF v
<1>6. ASSUME NEW k \in Key, NEW y \in Saved(k)' PROVE y \in Saved(k) \cup {Living(db.dict[k], now)}
  <2>1. CASE \E i \in Saves : 1 < job'[i].at /\ y = job'[i].dump.dict[k]
    <3>1. PICK i \in Saves : 1 < job'[i].at /\ y = job'[i].dump.dict[k]
      BY <2>1
    <3>2. CASE i # j
      <4>1. job[i].dump \in Dumps("dict") /\ y = job[i].dump.dict[k]
        BY <1>1, <1>5, <3>1, <3>2 DEF Dumps, Saves
      <4> QED
        BY <4>1 DEF Saved
    <3>3. CASE i = j /\ n = 1
      BY <1>3, <3>1, <3>3
    <3>4. CASE i = j /\ n # 1
      <4>1. job[i].dump \in Dumps("dict") /\ y = job[i].dump.dict[k]
        BY <1>1, <1>3, <1>5, <3>1, <3>4 DEF Dumps
      <4> QED
        BY <4>1 DEF Saved
    <3> QED
      BY <3>2, <3>3, <3>4
  <2>2. CASE ~Truncated' /\ y = Raw'.dict[k]
    BY <1>4, <1>5, <2>2 DEF Saved
  <2> QED
    BY <1>5, <2>1, <2>2 DEF Saved, Dumps
<1> QED
  BY <1>1, <1>6, DictKeeps

LEMMA DictTruncate ==
  ASSUME TypeInv, DictInv, NEW j \in Saves, Truncate(j)
  PROVE  DictInv'
<1>1. /\ job[j].at = 5 /\ job'[j].at = 6 /\ job'[j].dump = job[j].dump
      /\ \A i \in Jobs \ {j} : job'[i] = job[i]
      /\ rdb' = (IF setup.rdb THEN Absent ELSE rdb)
      /\ UNCHANGED <<setup, now, db, unlogged, aof, attached, revived>>
  BY TypeTruncate
<1>2. Dumps("dict")' \subseteq Dumps("dict")
  BY <1>1 DEF Dumps, Saves, Place
<1>3. setup.rdb => Truncated'
  BY <1>1 DEF Truncated
<1>4. ~setup.rdb => Raw' = Raw /\ ~Truncated
  BY <1>1 DEF Truncated, Raw
<1>5. \A k \in Key : Saved(k)' \subseteq Saved(k)
  BY <1>1, <1>2, <1>3, <1>4, WorkloadTyped DEF Saved, TypeInv
<1> QED
  BY <1>1, <1>5, DictKeeps

LEMMA DictEncode ==
  ASSUME TypeInv, DictInv, NEW j \in Saves, Encode(j)
  PROVE  DictInv'
<1>1. /\ job[j].at = 6 /\ job'[j] = Idle
      /\ \A i \in Jobs \ {j} : job'[i] = job[i]
      /\ rdb' = (IF setup.rdb THEN job[j].dump ELSE rdb)
      /\ UNCHANGED <<setup, now, db, unlogged, aof, attached, revived>>
  BY TypeEncode
<1>2. Dumps("dict")' \subseteq Dumps("dict") /\ job[j].dump \in Dumps("dict")
  BY <1>1, IdleTyped DEF Dumps, Saves, Place
<1>3. job[j].dump \in DBType
  BY JobTypes DEF TypeInv, Saves
<1>4. setup.rdb => Raw' = job[j].dump
  BY <1>1, <1>3, DatabaseAssumption DEF Raw
<1>5. ~setup.rdb => Raw' = Raw /\ ~Truncated
  BY <1>1 DEF Truncated, Raw
<1>6. \A k \in Key : Saved(k)' \subseteq Saved(k)
  BY <1>1, <1>2, <1>4, <1>5, WorkloadTyped DEF Saved, TypeInv
<1> QED
  BY <1>1, <1>6, DictKeeps

(* The item that a start makes, at any time: the log's of what it loaded.  *)
LEMMA StartItem ==
  ASSUME TypeInv, NEW k \in Key
  PROVE  /\ Disk.dict[k] = After(aof, k, now)[Living(Raw.dict[k], now)]
         /\ Recovered(rdb, aof, Dawn).dict[k] = After(aof, k, Dawn)[Living(Raw.dict[k], Dawn)]
         /\ Raw.dict[k] \in DictItems
<1>1. /\ Raw \in DBType /\ LoadedRDB(rdb, now) \in DBType /\ now \in Nat /\ aof \in Seq(Loggable)
      /\ LoadedRDB(rdb, now).dict[k] = Living(Raw.dict[k], now)
  BY LoadsRaw, SeenTyped DEF TypeInv, Logs
<1>2. LoadedRDB(rdb, Dawn) \in DBType /\ LoadedRDB(rdb, Dawn).dict[k] = Living(Raw.dict[k], Dawn)
  <2>1. CASE rdb = Absent
    <3>1. LoadedRDB(rdb, Dawn) = EmptyDB /\ Raw = EmptyDB /\ EmptyDB.dict[k] = Absent
      BY <2>1 DEF LoadedRDB, Raw, EmptyDB
    <3> QED
      BY <3>1, EmptyTyped, DawnIs, LivingIs
  <2>2. CASE rdb # Absent
    <3>1. rdb \in DBType /\ Raw = rdb
      BY <2>2 DEF TypeInv, Raw
    <3>2. LoadedRDB(rdb, Dawn) = Visible(rdb, Dawn)
      BY <2>2, <3>1, DawnIs, LoadRestores
    <3> QED
      BY <3>1, <3>2, DawnIs, VisibleIs
  <2> QED
    BY <2>1, <2>2
<1>3. Raw.dict[k] \in DictItems
  BY <1>1, DBFields DEF DictItems
<1>4. \A t \in Nat, d \in DBType : Replayed(d, aof, t).dict[k] = After(aof, k, t)[d.dict[k]]
  <2>1. \A t \in Nat : Makes(After(aof, k, t), aof, k, t)
    BY <1>1, AfterIs
  <2> QED
    BY <2>1 DEF Makes
<1>5. Disk = Replayed(LoadedRDB(rdb, now), aof, now)
  BY DEF Disk, Recovered
<1>6. Recovered(rdb, aof, Dawn) = Replayed(LoadedRDB(rdb, Dawn), aof, Dawn)
  BY DEF Recovered
<1>7. Disk.dict[k] = After(aof, k, now)[LoadedRDB(rdb, now).dict[k]]
  BY <1>1, <1>4, <1>5
<1>8. Recovered(rdb, aof, Dawn).dict[k] = After(aof, k, Dawn)[LoadedRDB(rdb, Dawn).dict[k]]
  BY <1>2, <1>4, <1>6, DawnIs
<1> QED
  BY <1>1, <1>2, <1>3, <1>7, <1>8

LEMMA DictRestart ==
  ASSUME TypeInv, Restart
  PROVE  DictInv'
<1>1. /\ db' = Disk /\ UNCHANGED <<setup, now, aof, rdb>>
      /\ unlogged' = [c \in Client |-> << >>] /\ job' = [j \in Jobs |-> Idle]
  BY DEF Restart, Disk
<1>2. aof \in Logs /\ now \in Nat /\ Raw' = Raw
  BY <1>1, SeenTyped DEF TypeInv, Raw
<1>3. Owned(unlogged', W', "dict")
  BY <1>1 DEF Owned, Leaves
<1>4. \A c : Rest(unlogged', c) = << >>
  BY <1>1 DEF Rest
<1>5. \A j \in Saves : job'[j] = Idle
  BY <1>1 DEF Saves
<1>6. Dumps("dict")' = {}
  BY <1>5, IdleTyped DEF Dumps, Place
<1>7. ASSUME NEW k \in Key PROVE Knows(aof', unlogged', k, Saved(k)', db', now', (k \in revived)')
  <2>1. Saved(k)' \subseteq {Raw.dict[k]}
    BY <1>2, <1>6 DEF Saved
  <2>2. Recalls(aof, k, {Raw.dict[k]}, Disk.dict[k], now, (k \in revived)') /\ Disk.dict[k] \in DictItems
    BY <1>2, StartItem, RecallsStart
  <2>3. {Raw.dict[k]} \in SUBSET DictItems
    BY StartItem
  <2>4. Recalls(aof, k, Saved(k)', Disk.dict[k], now, (k \in revived)')
    BY <1>2, <2>1, <2>2, <2>3, RecallsDump
  <2>5. aof \o << >> = aof
    BY <1>2, LogRules
  <2> QED
    BY <1>1, <1>4, <2>4, <2>5 DEF Knows
<1> QED
  BY <1>3, <1>7 DEF DictInv

LEMMA DictNext ==
  ASSUME OwnKeys("dict"), NoneSends({"PEXPIREAT", "SEXPIRE"}), TypeInv, DictInv, [Next]_vars
  PROVE  DictInv'
<1>1. CASE \E c \in Client : \E m \in Workload[setup.workload][c] : Execute(c, m)
  BY <1>1, DictExecute DEF W
<1>2. CASE \E c \in Client : AppendRecord(c)
  BY <1>2, DictAppend
<1>3. CASE \E j \in Jobs : Dump(j)
  BY <1>3, DictDump
<1>4. CASE Rewrite
  BY <1>4 DEF Rewrite, DictInv
<1>5. CASE \E j \in Saves : Truncate(j) \/ Encode(j)
  BY <1>5, DictTruncate, DictEncode
<1>6. CASE Restart
  BY <1>6, DictRestart
<1>7. CASE UNCHANGED vars
  BY <1>7 DEF vars, DictInv, W, Knows, Saved, Truncated, Dumps, Raw
<1>8. CASE Tick
  BY <1>8, DictTick
<1>9. CASE \E u \in {"dict", "set"}, k \in Key : Evict(u, k)
  BY <1>9, DictEvict
<1> QED
  BY <1>1, <1>2, <1>3, <1>4, <1>5, <1>6, <1>7, <1>8, <1>9 DEF Next

(* A crash at any point brings nothing of the dict back that was deleted   *)
(* or has expired, and no value or deadline but the one last answered, and *)
(* loses no answered SET but to the clock of the replay: replayed before   *)
(* any deadline, the same files give the item back (dict.go:95-112,        *)
(* dict_command.go:41-151, aof.go:38-94, server.go:82-143).  Assumed: keys *)
(* have one client each, and no client sends SEXPIRE, which the AOF has as *)
(* a record for the dict, or PEXPIREAT.                                    *)
THEOREM DictsDurable ==
  ASSUME OwnKeys("dict"), NoneSends({"PEXPIREAT", "SEXPIRE"})
  PROVE  Spec => []DictDurable
<1>1. TypeInv /\ DictInv => DictDurable
  <2> SUFFICES ASSUME TypeInv, DictInv, Logging, NEW k \in Key, ~InFlight(k)
               PROVE  \/ Disk.dict[k] = Visible(db, now).dict[k]
                      \/ /\ Disk.dict[k] = Absent
                         /\ Recovered(rdb, aof, 0).dict[k] = db.dict[k] \/ k \in revived
    BY DEF DictDurable
  <2>1. aof \in Logs /\ now \in Nat /\ db \in DBType /\ db.dict[k] \in DictItems
    BY SeenTyped, DBFields DEF TypeInv, DictItems
  <2>2. \A c \in Client : Leaves(unlogged[c], "dict", k)
    BY DEF InFlight, Leaves, Touches
  <2>3. Alone(unlogged, Nobody, "dict", k) /\ aof \o Rest(unlogged, Nobody) = aof
    BY <2>1, <2>2, NobodyIsNone, LogRules DEF Alone, Rest
  <2>4. Recalls(aof, k, Saved(k), db.dict[k], now, k \in revived)
    BY <2>3 DEF DictInv, Knows, Logging
  <2>5. Raw.dict[k] \in Saved(k)
    BY DEF Saved, Truncated, Logging
  <2>6. Visible(db, now).dict[k] = Living(db.dict[k], now)
    BY <2>1, VisibleIs
  <2>7. \/ After(aof, k, now)[Living(Raw.dict[k], now)] = Living(db.dict[k], now)
        \/ /\ After(aof, k, now)[Living(Raw.dict[k], now)] = Absent
           /\ After(aof, k, Dawn)[Living(Raw.dict[k], Dawn)] = db.dict[k] \/ k \in revived
    <3>1. Saved(k) \in SUBSET DictItems
      BY SavedTyped
    <3> DEFINE z == Raw.dict[k]
               r == k \in revived
    <3>2. z \in Saved(k) /\ Recalls(aof, k, Saved(k), db.dict[k], now, r)
      BY <2>4, <2>5
    <3> HIDE DEF z, r
    <3>3. \/ After(aof, k, now)[Living(z, now)] = Living(db.dict[k], now)
          \/ /\ After(aof, k, now)[Living(z, now)] = Absent
             /\ After(aof, k, Dawn)[Living(z, Dawn)] = db.dict[k] \/ r
      BY <2>1, <3>1, <3>2, RecallsEnd
    <3> QED
      BY <3>3 DEF z, r
  <2> QED
    BY <2>6, <2>7, StartItem DEF Dawn
<1>2. TypeInv /\ DictInv /\ [Next]_vars => DictInv'
  BY DictNext
<1> QED
  BY <1>1, <1>2, DictInit, TypesAlways, PTL DEF Spec

-----------------------------------------------------------------------------
(* Snapshots.                                                              *)

(* Since its first dump a save sees every state of memory, the present one *)
(* included; what it has dumped so far comes from states it has seen.      *)
SeesMemory == \A j \in Saves : Began(j) => Visible(db, now) \in seen[j]

DumpsSeen ==
  \A j \in Saves : \A i \in 1 .. 4 :
    i < job[j].at => \E d \in seen[j] : job[j].dump[Stores[i]] = d[Stores[i]]

(* The stores of a dump, by number.                                        *)
LEMMA DumpedStores ==
  ASSUME NEW x \in DBType, NEW d \in DBType, NEW n \in 1 .. 4, NEW m \in 1 .. 4
  PROVE  WithStore(x, d, n)[Stores[m]] = IF m = n THEN d[Stores[m]] ELSE x[Stores[m]]
  BY DEF WithStore, Stores, DBType

(* Both hold at first and every step keeps them.                           *)
LEMMA SnapshotInit == Init => SeesMemory /\ DumpsSeen
  BY IdleTyped DEF Init, SeesMemory, DumpsSeen, Began, Saves

LEMMA SnapshotDump ==
  ASSUME TypeInv, SeesMemory, DumpsSeen, NEW j \in Jobs, Dump(j)
  PROVE  (SeesMemory /\ DumpsSeen)'
<1> DEFINE n == job[j].at
<1>1. /\ n \in 1 .. 4 /\ job'[j].at = n + 1 /\ UNCHANGED <<db, now>>
      /\ job'[j].dump = WithStore(job[j].dump, Visible(db, now), n)
      /\ \A i \in Jobs \ {j} : job'[i] = job[i]
  BY TypeDump
<1>2. Begins(j)
  BY DEF Dump
<1>3. \A i \in Jobs : job[i].at \in 1 .. 6 /\ job[i].dump \in DBType
  BY JobTypes DEF TypeInv
<1>4. Visible(db, now) \in DBType /\ seen \in [Saves -> SUBSET DBType]
  BY SeenTyped DEF TypeInv
<1> HIDE DEF n
<1>5. /\ \A i \in Saves : seen[i] \subseteq seen'[i]
      /\ j \in Saves => Visible(db, now) \in seen'[j]
  BY <1>2, <1>4 DEF Begins, SeesMemory, TypeInv, Began
<1>6. SeesMemory'
  BY <1>1, <1>5 DEF SeesMemory, Began, Saves
<1>7. ASSUME NEW i \in Saves, NEW m \in 1 .. 4, m < job'[i].at
      PROVE  \E d \in seen'[i] : job'[i].dump[Stores[m]] = d[Stores[m]]
  <2>1. CASE i # j
    <3>1. job'[i] = job[i]
      BY <1>1, <2>1 DEF Saves
    <3>2. PICK d \in seen[i] : job[i].dump[Stores[m]] = d[Stores[m]]
      BY <1>7, <3>1 DEF DumpsSeen
    <3> QED
      BY <1>5, <3>1, <3>2
  <2>2. CASE i = j /\ m = n
    <3>1. job'[j].dump[Stores[m]] = Visible(db, now)[Stores[m]]
      BY <1>1, <1>3, <1>4, <2>2, DumpedStores
    <3> QED
      BY <1>5, <2>2, <3>1
  <2>3. CASE i = j /\ m # n
    <3>1. job'[j].dump[Stores[m]] = job[j].dump[Stores[m]]
      BY <1>1, <1>3, <1>4, <2>3, DumpedStores
    <3>2. m < job[j].at
      BY <1>1, <1>7, <2>3 DEF n
    <3>3. PICK d \in seen[i] : job[i].dump[Stores[m]] = d[Stores[m]]
      BY <2>3, <3>2 DEF DumpsSeen
    <3> QED
      BY <1>5, <2>3, <3>1, <3>3
  <2> QED
    BY <2>1, <2>2, <2>3
<1>8. DumpsSeen'
  BY <1>7 DEF DumpsSeen
<1> QED
  BY <1>6, <1>8

(* A step that shows the saves what memory has become.                     *)
LEMMA SnapshotSeen ==
  ASSUME TypeInv, SeesMemory, DumpsSeen, UNCHANGED job, Visible(db', now') \in DBType,
         seen' = SeenWith(Visible(db', now'))
  PROVE  (SeesMemory /\ DumpsSeen)'
<1> DEFINE d == Visible(db', now')
<1>1. \A j \in Saves : seen[j] \subseteq seen'[j] /\ (seen[j] # {} => d \in seen'[j])
  BY SeenWithTyped
<1>2. SeesMemory'
  BY <1>1 DEF SeesMemory, Began
<1>3. DumpsSeen'
  BY <1>1 DEF DumpsSeen
<1> QED
  BY <1>2, <1>3

(* Eviction takes nothing that anyone could see.                           *)
LEMMA EvictVisible ==
  ASSUME TypeInv, NEW s \in {"dict", "set"}, NEW k \in Key, Evict(s, k)
  PROVE  Visible(db', now) = Visible(db, now)
<1>1. db \in DBType /\ db' \in DBType /\ now \in Nat
  BY TypeEvict, SeenTyped DEF TypeInv
<1> DEFINE a == Visible(db, now)
           b == Visible(db', now)
<1>2. a \in DBType /\ b \in DBType
  BY <1>1, VisibleIs
<1>3. \A j \in Key : /\ b.dict[j] = a.dict[j] /\ b.set[j] = a.set[j]
                     /\ b.list[j] = a.list[j] /\ b.hash[j] = a.hash[j]
  BY <1>1, TypeEvict, VisibleIs
<1> HIDE DEF a, b
<1>4. \A u \in StoreNames : \A j \in Key : Store(b, u)[j] = Store(a, u)[j]
  BY <1>3 DEF StoreNames, Store
<1>5. b = a
  BY <1>2, <1>4, SameDatabase
<1> QED
  BY <1>5 DEF a, b

LEMMA SnapshotNext ==
  ASSUME TypeInv, SeesMemory, DumpsSeen, [Next]_vars
  PROVE  (SeesMemory /\ DumpsSeen)'
<1>1. Saves \subseteq Jobs /\ job \in [Jobs -> JobType] /\ seen \in [Saves -> SUBSET DBType]
  BY DEF Saves, TypeInv
<1>2. CASE \E c \in Client : \E cmd \in Workload[setup.workload][c] : Execute(c, cmd)
  <2>1. UNCHANGED <<job, now>> /\ seen' = SeenWith(Visible(db', now))
    BY <1>2 DEF Execute
  <2>2. TypeInv' /\ now \in Nat
    BY <1>2, TypeExecute, SeenTyped DEF W
  <2>3. Visible(db', now) \in DBType
    BY <2>2, VisibleIs DEF TypeInv
  <2> QED
    BY <2>1, <2>3, SnapshotSeen
<1>9. CASE Tick
  <2>1. UNCHANGED <<job, db>> /\ now' = now + 1 /\ seen' = SeenWith(Visible(db, now + 1))
    BY <1>9 DEF Tick
  <2> QED
    BY <2>1, SeenTyped, SnapshotSeen
<1>10. CASE \E s \in {"dict", "set"}, k \in Key : Evict(s, k)
  <2>1. PICK s \in {"dict", "set"}, k \in Key : Evict(s, k)
    BY <1>10
  <2>2. UNCHANGED <<job, now, seen>>
    BY <2>1 DEF Evict
  <2>3. Visible(db', now) = Visible(db, now)
    BY <2>1, EvictVisible
  <2> QED
    BY <2>2, <2>3 DEF SeesMemory, DumpsSeen, Began
<1>3. CASE (\E c \in Client : AppendRecord(c)) \/ UNCHANGED vars
  <2>1. db' = db /\ job' = job /\ seen' = seen /\ now' = now
    BY <1>3 DEF AppendRecord, vars
  <2> QED
    BY <2>1 DEF SeesMemory, DumpsSeen, Began
<1>4. CASE \E j \in Jobs : Dump(j)
  BY <1>4, SnapshotDump
<1>5. CASE Rewrite
  <2>1. (\A j \in Saves : job'[j] = job[j]) /\ db' = db /\ seen' = seen /\ now' = now
    BY <1>5, TypeRewrite DEF Rewrite
  <2> QED
    BY <2>1 DEF SeesMemory, DumpsSeen, Began
<1>6. CASE \E j \in Saves : Truncate(j)
  <2>1. PICK j \in Saves : Truncate(j)
    BY <1>6
  <2>2. /\ \A i \in Saves : job'[i].dump = job[i].dump
        /\ \A i \in Saves : job'[i] = job[i] \/ (job[i].at = 5 /\ job'[i].at = 6)
        /\ db' = db /\ seen' = seen /\ now' = now
    BY <1>1, <2>1, TypeTruncate DEF Truncate
  <2>3. SeesMemory'
    BY <2>2 DEF SeesMemory, Began
  <2>4. \A i \in Saves, m \in 1 .. 4 : m < job'[i].at => m < job[i].at
    BY <2>2
  <2> QED
    BY <2>2, <2>3, <2>4 DEF DumpsSeen
<1>7. CASE \E j \in Saves : Encode(j)
  <2>1. PICK j \in Saves : Encode(j)
    BY <1>7
  <2>2. /\ \A i \in Saves : job'[i] = Idle \/ (job'[i] = job[i] /\ seen'[i] = seen[i])
        /\ db' = db /\ now' = now
    BY <1>1, <2>1, TypeEncode DEF Encode
  <2> QED
    BY <2>2, IdleTyped DEF SeesMemory, DumpsSeen, Began
<1>8. CASE Restart
  <2>1. \A j \in Saves : job'[j] = Idle
    BY <1>1, <1>8 DEF Restart
  <2> QED
    BY <2>1, IdleTyped DEF SeesMemory, DumpsSeen, Began
<1> QED
  BY <1>2, <1>3, <1>4, <1>5, <1>6, <1>7, <1>8, <1>9, <1>10 DEF Next

(* Each store of a snapshot is as that store was at some moment since the  *)
(* BGSAVE that wrote it began, whatever commands, rewrites and other saves *)
(* run meanwhile (system_command.go:102-124, rdb.go:43-60).                *)
THEOREM SnapshotsPerStore == Spec => SnapshotPerStore
<1>1. ASSUME DumpsSeen, Next
      PROVE  \A j \in Saves : Encode(j) /\ setup.rdb =>
               \A i \in 1 .. 4 : \E d \in seen[j] : rdb'[Stores[i]] = d[Stores[i]]
  BY <1>1 DEF Encode, DumpsSeen
<1>2. TypeInv /\ SeesMemory /\ DumpsSeen /\ [Next]_vars => (SeesMemory /\ DumpsSeen)'
  BY SnapshotNext
<1> QED
  BY <1>1, <1>2, SnapshotInit, TypesAlways, PTL DEF Spec, SnapshotPerStore
=============================================================================

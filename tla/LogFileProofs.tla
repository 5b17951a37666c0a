--------------------------- MODULE LogFileProofs ----------------------------
(***************************************************************************)
(* What a load makes of a log file, for logs and commands of any length    *)
(* and any number of records that were cut short: the decoder and the load *)
(* loop as recursions over the tokens, where each record lies in the file, *)
(* and what is read at it.                                                 *)
(***************************************************************************)
EXTENDS LogFile, TLAPS, WellFoundedInduction

USE LogFileAssumption

-----------------------------------------------------------------------------
(* Induction over the naturals, for a set of numbers in place of a         *)
(* predicate, from 0 up and from a number N down to 1.                     *)
LEMMA Induction ==
  ASSUME NEW S, 0 \in S, \A n \in Nat : n \in S => n + 1 \in S
  PROVE  Nat \subseteq S
<1> DEFINE R == OpToRel(<, Nat)
<1>1. IsWellFoundedOn(R, Nat)
  BY NatLessThanWellFounded
<1>2. ASSUME NEW x \in Nat, NEW y \in Nat, x < y PROVE <<x, y>> \in R
  BY <1>2 DEF OpToRel
<1> HIDE DEF R
<1> SUFFICES ASSUME ~(Nat \subseteq S) PROVE FALSE
  OBVIOUS
<1>3. PICK n \in Nat \ S : \A m \in Nat \ S : ~ (<<m, n>> \in R)
  BY <1>1, WFMin
<1>4. n - 1 \in Nat /\ n - 1 < n
  BY <1>3
<1>5. n - 1 \in S
  BY <1>2, <1>3, <1>4
<1>6. n - 1 + 1 \in S
  BY <1>4, <1>5
<1> QED
  BY <1>3, <1>6

LEMMA Downward ==
  ASSUME NEW N \in Nat, NEW S, \A p \in 1 .. N : (\A q \in p + 1 .. N : q \in S) => p \in S
  PROVE  \A p \in 1 .. N : p \in S
<1> DEFINE T == {n \in Nat : \A q \in 1 .. N : N - n < q => q \in S}
<1>1. 0 \in T
  OBVIOUS
<1>2. ASSUME NEW n \in Nat, n \in T PROVE n + 1 \in T
  <2> SUFFICES ASSUME NEW q \in 1 .. N, N - (n + 1) < q PROVE q \in S
    OBVIOUS
  <2>1. \A m \in q + 1 .. N : m \in 1 .. N /\ N - n < m
    OBVIOUS
  <2> QED
    BY <1>2, <2>1
<1>3. N \in T
  <2> HIDE DEF T
  <2> QED
    BY <1>1, <1>2, Induction
<1> QED
  BY <1>3

-----------------------------------------------------------------------------
(* Sequences of anything.                                                  *)
IsSeq(s) == \E A : s \in Seq(A)

LEMMA SeqFacts ==
  ASSUME NEW s, IsSeq(s)
  PROVE  Len(s) \in Nat /\ DOMAIN s = 1 .. Len(s) /\ << >> \o s = s /\ s \o << >> = s
<1>1. PICK A : s \in Seq(A)
  BY DEF IsSeq
<1> QED
  BY <1>1

LEMMA ConcatFacts ==
  ASSUME NEW s, NEW t, IsSeq(s), IsSeq(t)
  PROVE  /\ IsSeq(s \o t) /\ Len(s \o t) = Len(s) + Len(t)
         /\ \A i \in 1 .. Len(s) : (s \o t)[i] = s[i]
         /\ \A i \in 1 .. Len(t) : (s \o t)[Len(s) + i] = t[i]
<1>1. PICK A : s \in Seq(A)
  BY DEF IsSeq
<1>2. PICK B : t \in Seq(B)
  BY DEF IsSeq
<1> DEFINE C == A \cup B
<1>3. s \in Seq(C) /\ t \in Seq(C)
  BY <1>1, <1>2
<1> HIDE DEF C
<1>4. s \o t \in Seq(C)
  BY <1>3
<1> QED
  BY <1>3, <1>4 DEF IsSeq

LEMMA ConcatAssociates ==
  ASSUME NEW s, NEW t, NEW u, IsSeq(s), IsSeq(t), IsSeq(u)
  PROVE  (s \o t) \o u = s \o (t \o u)
<1>1. PICK A : s \in Seq(A)
  BY DEF IsSeq
<1>2. PICK B : t \in Seq(B)
  BY DEF IsSeq
<1>3. PICK C : u \in Seq(C)
  BY DEF IsSeq
<1> DEFINE D == A \cup B \cup C
<1>4. s \in Seq(D) /\ t \in Seq(D) /\ u \in Seq(D)
  BY <1>1, <1>2, <1>3
<1> HIDE DEF D
<1> QED
  BY <1>4

(* Functions from 1 to n are sequences.                                    *)
LEMMA FunctionIsSeq ==
  ASSUME NEW s, NEW n \in Nat, s = [i \in 1 .. n |-> s[i]]
  PROVE  IsSeq(s) /\ Len(s) = n
<1> DEFINE A == {s[i] : i \in 1 .. n}
<1>1. s \in [1 .. n -> A]
  OBVIOUS
<1> HIDE DEF A
<1>2. s \in Seq(A)
  BY <1>1
<1> QED
  BY <1>1, <1>2 DEF IsSeq

(* Sequences of one length with the same elements are the same.            *)
LEMMA SeqsEqual ==
  ASSUME NEW s, NEW t, IsSeq(s), IsSeq(t), Len(s) = Len(t), \A i \in 1 .. Len(s) : s[i] = t[i]
  PROVE  s = t
<1>1. PICK A : s \in Seq(A)
  BY DEF IsSeq
<1>2. PICK B : t \in Seq(B)
  BY DEF IsSeq
<1>3. s = [i \in 1 .. Len(s) |-> s[i]] /\ t = [i \in 1 .. Len(t) |-> t[i]]
  BY <1>1, <1>2
<1> QED
  BY <1>3

(* The front and the back of a concatenation.                              *)
LEMMA FrontIsPrefix ==
  ASSUME NEW s, NEW t, IsSeq(s), IsSeq(t)
  PROVE  IsPrefix(s, s \o t)
<1>1. Len(s) \in Nat /\ Len(t) \in Nat
  BY SeqFacts
<1>2. SubSeq(s, 1, Len(s)) = [i \in 1 .. Len(s) |-> s[i]]
  BY <1>1
<1>3. SubSeq(s \o t, 1, Len(s)) = [i \in 1 .. Len(s) |-> (s \o t)[i]]
  BY <1>1
<1> QED
  BY <1>1, <1>2, <1>3, ConcatFacts DEF IsPrefix

LEMMA BackIsSuffix ==
  ASSUME NEW s, NEW t, IsSeq(s), IsSeq(t)
  PROVE  IsSuffix(t, s \o t)
<1> DEFINE u == s \o t
           a == Len(s)
           b == Len(t)
           x == Reverse(t)
           y == Reverse(u)
<1>1. a \in Nat /\ b \in Nat /\ Len(u) = a + b /\ \A i \in 1 .. b : u[a + i] = t[i]
  BY SeqFacts, ConcatFacts
<1> HIDE DEF u, a
<1>2. x = [i \in 1 .. b |-> t[b - i + 1]] /\ y = [i \in 1 .. a + b |-> u[(a + b) - i + 1]]
  BY <1>1 DEF Reverse
<1> HIDE DEF b, x, y
<1>3. Len(x) = b /\ Len(y) = a + b
  BY <1>1, <1>2
<1>4. ASSUME NEW i \in 1 .. b PROVE x[i] = y[i]
  <2>1. b - i + 1 \in 1 .. b /\ (a + b) - i + 1 = a + (b - i + 1) /\ i \in 1 .. a + b
    BY <1>1
  <2> QED
    BY <1>1, <1>2, <2>1
<1>5. SubSeq(x, 1, b) = [i \in 1 .. b |-> x[i]] /\ SubSeq(y, 1, b) = [i \in 1 .. b |-> y[i]]
  BY <1>1
<1>6. IsPrefix(x, y)
  BY <1>1, <1>3, <1>4, <1>5 DEF IsPrefix
<1> QED
  BY <1>6 DEF IsSuffix, x, y, u

-----------------------------------------------------------------------------
(* FlattenSeq puts the sequences of a sequence one behind the other.       *)
Joins(F, ss, n) ==
  /\ F[0] = << >>
  /\ \A i \in 1 .. n : F[i] = F[i - 1] \o ss[i]

LEMMA JoinExists ==
  ASSUME NEW ss, NEW N \in Nat, NEW A, \A i \in 1 .. N : ss[i] \in Seq(A)
  PROVE  \E F : Joins(F, ss, N) /\ \A i \in 0 .. N : F[i] \in Seq(A)
<1> DEFINE Good(n) == \E F : Joins(F, ss, n) /\ \A i \in 0 .. n : F[i] \in Seq(A)
           S == {n \in Nat : n <= N => Good(n)}
<1>1. 0 \in S
  <2> DEFINE F == [i \in 0 .. 0 |-> << >>]
  <2>1. << >> \in Seq(A)
    OBVIOUS
  <2>2. Joins(F, ss, 0) /\ \A i \in 0 .. 0 : F[i] \in Seq(A)
    BY <2>1 DEF Joins
  <2> QED
    BY <2>2
<1>2. ASSUME NEW n \in Nat, n \in S PROVE n + 1 \in S
  <2> SUFFICES ASSUME n + 1 <= N PROVE Good(n + 1)
    OBVIOUS
  <2>1. PICK F : Joins(F, ss, n) /\ \A i \in 0 .. n : F[i] \in Seq(A)
    BY <1>2
  <2> DEFINE G == [i \in 0 .. n + 1 |-> IF i <= n THEN F[i] ELSE F[n] \o ss[n + 1]]
  <2>2. /\ \A i \in 0 .. n : G[i] = F[i]
        /\ G[n + 1] = F[n] \o ss[n + 1]
    <3>1. n + 1 \in 0 .. n + 1 /\ ~(n + 1 <= n) /\ \A i \in 0 .. n : i \in 0 .. n + 1 /\ i <= n
      OBVIOUS
    <3> QED
      BY <3>1, Zenon
  <2> HIDE DEF G
  <2>3. G[n + 1] \in Seq(A)
    <3>1. F[n] \in Seq(A) /\ ss[n + 1] \in Seq(A)
      BY <2>1
    <3> QED
      BY <2>2, <3>1
  <2>4. \A i \in 0 .. n + 1 : i \in 0 .. n \/ i = n + 1
    OBVIOUS
  <2>5. \A i \in 0 .. n + 1 : G[i] \in Seq(A)
    BY <2>1, <2>2, <2>3, <2>4
  <2>6. ASSUME NEW i \in 1 .. n + 1 PROVE G[i] = G[i - 1] \o ss[i]
    <3>1. CASE i = n + 1
      <4>1. i - 1 = n /\ n \in 0 .. n
        BY <3>1
      <4> QED
        BY <2>2, <3>1, <4>1
    <3>2. CASE i # n + 1
      <4>1. i \in 1 .. n /\ i \in 0 .. n /\ i - 1 \in 0 .. n
        BY <3>2
      <4> QED
        BY <2>1, <2>2, <4>1 DEF Joins
    <3> QED
      BY <3>1, <3>2
  <2>7. Joins(G, ss, n + 1)
    <3>1. 0 \in 0 .. n
      OBVIOUS
    <3>2. G[0] = << >>
      BY <2>1, <2>2, <3>1 DEF Joins
    <3> QED
      BY <2>6, <3>2, Zenon DEF Joins
  <2> QED
    BY <2>5, <2>7
<1> HIDE DEF Good
<1>3. N \in S
  <2> HIDE DEF S
  <2> QED
    BY <1>1, <1>2, Induction
<1> QED
  BY <1>3 DEF Good

LEMMA FlattenIs ==
  ASSUME NEW ss, NEW N \in Nat, ss = [i \in 1 .. N |-> ss[i]], \A i \in 1 .. N : IsSeq(ss[i]),
         NEW F, Joins(F, ss, N), \A i \in 0 .. N : IsSeq(F[i])
  PROVE  FlattenSeq(ss) = F[N]
<1> DEFINE c == CHOOSE f : f = [i \in 1 .. N |-> IF i = 1 THEN ss[i] ELSE f[i - 1] \o ss[i]]
<1>1. Len(ss) = N
  BY FunctionIsSeq
<1>2. CASE N = 0
  <2>1. ss = << >>
    BY <1>2
  <2> QED
    BY <1>1, <1>2, <2>1 DEF FlattenSeq, Joins
<1>3. CASE N # 0
  <2>1. FlattenSeq(ss) = c[N]
    BY <1>1, <1>3 DEF FlattenSeq
  <2> DEFINE g == [i \in 1 .. N |-> F[i]]
  <2>2. ASSUME NEW i \in 1 .. N PROVE F[i] = IF i = 1 THEN ss[i] ELSE g[i - 1] \o ss[i]
    <3>1. CASE i = 1
      <4>0. 1 - 1 = 0 /\ 1 \in 1 .. N
        BY <3>1
      <4>1. F[1] = << >> \o ss[1]
        BY <4>0 DEF Joins
      <4>2. << >> \o ss[1] = ss[1]
        BY <3>1, SeqFacts
      <4> QED
        BY <3>1, <4>1, <4>2
    <3>2. CASE i # 1
      <4>1. i - 1 \in 1 .. N
        BY <3>2
      <4> QED
        BY <3>2, <4>1 DEF Joins
    <3> QED
      BY <3>1, <3>2
  <2>3. g = [i \in 1 .. N |-> IF i = 1 THEN ss[i] ELSE g[i - 1] \o ss[i]]
    BY <2>2
  <2>4. c = [i \in 1 .. N |-> IF i = 1 THEN ss[i] ELSE c[i - 1] \o ss[i]]
    <3> HIDE DEF g
    <3> QED
      BY <2>3
  <2> HIDE DEF c
  <2>4a. \A i \in 1 .. N : c[i] = IF i = 1 THEN ss[i] ELSE c[i - 1] \o ss[i]
    BY <2>4
  <2> DEFINE S == {n \in Nat : n + 1 <= N => c[n + 1] = F[n + 1]}
  <2>5. 0 \in S
    <3>1. 1 \in 1 .. N
      BY <1>3
    <3>2. c[1] = ss[1]
      BY <2>4, <3>1
    <3>3. F[1] = ss[1]
      BY <2>2, <3>1
    <3> QED
      BY <3>2, <3>3
  <2>6. ASSUME NEW n \in Nat, n \in S PROVE n + 1 \in S
    <3> SUFFICES ASSUME n + 1 + 1 <= N PROVE c[n + 1 + 1] = F[n + 1 + 1]
      OBVIOUS
    <3> DEFINE m == n + 1 + 1
    <3>1. m \in 1 .. N /\ m # 1 /\ m - 1 = n + 1 /\ n + 1 <= N
      OBVIOUS
    <3>2. c[n + 1] = F[n + 1]
      BY <2>6, <3>1
    <3> HIDE DEF m
    <3>3. c[m] = c[m - 1] \o ss[m]
      BY <2>4a, <3>1
    <3>4. F[m] = F[m - 1] \o ss[m]
      BY <3>1 DEF Joins
    <3> QED
      BY <3>1, <3>2, <3>3, <3>4 DEF m
  <2>7. N - 1 \in S
    <3> HIDE DEF S
    <3> QED
      BY <1>3, <2>5, <2>6, Induction
  <2> QED
    BY <1>3, <2>1, <2>7
<1> QED
  BY <1>2, <1>3

-----------------------------------------------------------------------------
(* What the log consists of: appends of commands, whole or cut as a write  *)
(* may be cut.                                                             *)
Records == {r \in [size : Sizes, cut : {Whole} \cup UNION {Cuts(n) : n \in Sizes}] :
              r.cut.whole \/ r.cut \in Cuts(r.size)}

LogOK == log \in Seq(Records)

LEMMA LogAlways == Spec => []LogOK
<1>1. Init => LogOK
  BY DEF Init, LogOK
<1>2. LogOK /\ [Next]_vars => LogOK'
  <2> SUFFICES ASSUME LogOK, [Next]_vars PROVE LogOK'
    OBVIOUS
  <2>1. ASSUME NEW n \in Sizes, AppendWhole(n) PROVE LogOK'
    <3>1. [size |-> n, cut |-> Whole] \in Records
      BY DEF Records, Whole
    <3> QED
      BY <2>1, <3>1 DEF AppendWhole, LogOK
  <2>2. ASSUME NEW n \in Sizes, NEW cut \in Cuts(n), AppendCut(n, cut) PROVE LogOK'
    <3>1. [size |-> n, cut |-> cut] \in Records
      BY DEF Records
    <3> QED
      BY <2>2, <3>1 DEF AppendCut, LogOK
  <2>3. CASE UNCHANGED vars
    BY <2>3 DEF vars, LogOK
  <2> QED
    BY <2>1, <2>2, <2>3 DEF Next
<1> QED
  BY <1>1, <1>2, PTL DEF Spec

(* Tokens of a file.                                                       *)
Tokens ==
  {Header(n) : n \in Sizes} \cup {Bulk(i, k) : i \in Nat, k \in Nat}
    \cup {Line} \cup {Gap(g) : g \in Skips}

LEMMA TokenFacts ==
  /\ \A n : Header(n).t = "array" /\ Header(n).n = n
  /\ \A i, k : Bulk(i, k).t = "bulk" /\ Bulk(i, k).of = i /\ Bulk(i, k).item = k
  /\ Line.t = "line"
  /\ \A g : Gap(g).t = "gap" /\ Gap(g).skip = g
  BY DEF Header, Bulk, Line, Gap

LEMMA TokenKinds ==
  ASSUME NEW x \in Tokens
  PROVE  \/ x.t = "array" /\ x.n \in Nat
         \/ x.t = "bulk"
         \/ x.t = "line"
         \/ x.t = "gap" /\ x.skip \in Nat
  BY TokenFacts DEF Tokens

(* A whole record is its header and its items; of one cut short there are  *)
(* nothing, a line, or the header, less than all items, and a scrap.       *)
Begun(i, a) == [j \in 1 .. a + 1 |-> IF j = 1 THEN Header(log[i].size) ELSE Bulk(i, j - 1)]
Scraps == {<< >>, <<Line>>} \cup {<<Gap(g)>> : g \in Skips}

LEMMA RecordFacts ==
  ASSUME LogOK, NEW i \in DOMAIN log
  PROVE  /\ log[i].size \in Nat /\ log[i].size >= 1 /\ log[i].size \in Sizes
         /\ i \in Torn <=> ~log[i].cut.whole
         /\ i \in Torn =>
              \/ log[i].cut.tokens = 0 /\ log[i].cut.scrap \in {<< >>, <<Line>>}
              \/ log[i].cut.tokens \in 1 .. log[i].size /\ log[i].cut.scrap \in Scraps
<1>1. log[i] \in Records
  BY DEF LogOK
<1> DEFINE n == log[i].size
           cut == log[i].cut
<1>2. n \in Sizes /\ (cut.whole \/ cut \in Cuts(n))
  BY <1>1 DEF Records
<1>3. i \in Torn <=> ~cut.whole
  BY DEF Torn
<1>3a. n \in Nat /\ n >= 1
  <2> HIDE DEF n
  <2>1. n \in Nat \ {0}
    BY <1>2
  <2> QED
    BY <2>1
<1> HIDE DEF n, cut
<1>4. ASSUME cut \in Cuts(n)
      PROVE  \/ cut.tokens = 0 /\ cut.scrap \in {<< >>, <<Line>>}
             \/ cut.tokens \in 1 .. n /\ cut.scrap \in Scraps
  <2>1. CASE cut \in {[tokens |-> k, scrap |-> s, whole |-> FALSE] : k \in 1 .. n, s \in Scraps}
    BY <2>1
  <2>2. CASE cut = [tokens |-> 0, scrap |-> << >>, whole |-> FALSE]
    BY <2>2
  <2>3. CASE cut = [tokens |-> 0, scrap |-> <<Line>>, whole |-> FALSE]
    BY <2>3
  <2> QED
    BY <1>4, <2>1, <2>2, <2>3 DEF Cuts, Scraps
<1>5. i \in Torn => \/ cut.tokens = 0 /\ cut.scrap \in {<< >>, <<Line>>}
                    \/ cut.tokens \in 1 .. n /\ cut.scrap \in Scraps
  BY <1>2, <1>3, <1>4, Zenon
<1> QED
  BY <1>2, <1>3, <1>3a, <1>5, Zenon DEF n, cut

LEMMA BegunIs ==
  ASSUME LogOK, NEW i \in DOMAIN log, NEW a \in Nat
  PROVE  /\ Begun(i, a) \in Seq(Tokens) /\ Len(Begun(i, a)) = a + 1
         /\ Begun(i, a)[1] = Header(log[i].size)
         /\ \A k \in 1 .. a : Begun(i, a)[k + 1] = Bulk(i, k)
<1>0. i \in Nat
  BY DEF LogOK
<1>1. Header(log[i].size) \in Tokens
  BY RecordFacts DEF Tokens
<1>2. \A k \in Nat : Bulk(i, k) \in Tokens
  BY <1>0 DEF Tokens
<1>3. Begun(i, a) \in [1 .. a + 1 -> Tokens]
  BY <1>1, <1>2 DEF Begun
<1>4. Begun(i, a) \in Seq(Tokens) /\ Len(Begun(i, a)) = a + 1
  BY <1>3
<1> QED
  BY <1>4 DEF Begun

LEMMA WrittenIs ==
  ASSUME LogOK, NEW i \in DOMAIN log
  PROVE  /\ Written(i) \in Seq(Tokens)
         /\ i \notin Torn => Written(i) = Begun(i, log[i].size)
         /\ i \in Torn /\ log[i].cut.tokens = 0 => Written(i) = log[i].cut.scrap
         /\ i \in Torn /\ log[i].cut.tokens # 0 =>
              Written(i) = Begun(i, log[i].cut.tokens - 1) \o log[i].cut.scrap
<1> DEFINE n == log[i].size
           e == Encode(i, n)
           k == log[i].cut.tokens
           scrap == log[i].cut.scrap
<1>1. n \in Nat /\ n >= 1
  BY RecordFacts
<1>2. e = Begun(i, n)
  <2> DEFINE h == <<Header(n)>>
             b == [j \in 1 .. n |-> Bulk(i, j)]
  <2>1. IsSeq(h) /\ Len(h) = 1 /\ h[1] = Header(n)
    <3>1. h \in Seq({Header(n)})
      OBVIOUS
    <3> QED
      BY <3>1 DEF IsSeq
  <2>2. IsSeq(b) /\ Len(b) = n /\ \A j \in 1 .. n : b[j] = Bulk(i, j)
    BY <1>1, FunctionIsSeq
  <2>3. e = h \o b
    BY DEF Encode
  <2> HIDE DEF h, b, e, n
  <2>4. /\ IsSeq(e) /\ Len(e) = n + 1 /\ e[1] = Header(n)
        /\ \A j \in 1 .. n : e[1 + j] = Bulk(i, j)
    <3>1. 1 \in 1 .. 1
      OBVIOUS
    <3>2. /\ IsSeq(h \o b) /\ Len(h \o b) = Len(h) + Len(b)
          /\ \A j \in 1 .. Len(h) : (h \o b)[j] = h[j]
          /\ \A j \in 1 .. Len(b) : (h \o b)[Len(h) + j] = b[j]
      <4>1. IsSeq(h) /\ IsSeq(b)
        BY <2>1, <2>2
      <4> QED
        BY <4>1, ConcatFacts
    <3> QED
      BY <1>1, <2>1, <2>2, <2>3, <3>1, <3>2 DEF n
  <2>5. IsSeq(Begun(i, n)) /\ Len(Begun(i, n)) = n + 1
    BY <1>1, BegunIs DEF IsSeq
  <2>6. \A j \in 1 .. n + 1 : e[j] = Begun(i, n)[j]
    <3> SUFFICES ASSUME NEW j \in 1 .. n + 1 PROVE e[j] = Begun(i, n)[j]
      OBVIOUS
    <3>1. CASE j = 1
      BY <1>1, <2>4, <3>1, BegunIs DEF n
    <3>2. CASE j # 1
      <4>1. j - 1 \in 1 .. n /\ 1 + (j - 1) = j /\ (j - 1) + 1 = j
        BY <1>1, <3>2
      <4>2. e[j] = Bulk(i, j - 1)
        BY <2>4, <4>1
      <4>3. Begun(i, n)[j] = Bulk(i, j - 1)
        BY <1>1, <4>1, BegunIs
      <4> QED
        BY <4>2, <4>3
    <3> QED
      BY <3>1, <3>2
  <2> QED
    BY <2>4, <2>5, <2>6, SeqsEqual
<1>3. Written(i) = IF log[i].cut.whole THEN e ELSE SubSeq(e, 1, k) \o scrap
  BY DEF Written
<1>4. i \in Torn <=> ~log[i].cut.whole
  BY DEF Torn
<1>5. \A s \in Scraps : s \in Seq(Tokens)
  <2>1. Line \in Tokens /\ \A g \in Skips : Gap(g) \in Tokens
    BY DEF Tokens
  <2>2. << >> \in Seq(Tokens) /\ <<Line>> \in Seq(Tokens)
    BY <2>1
  <2>3. ASSUME NEW g \in Skips PROVE <<Gap(g)>> \in Seq(Tokens)
    BY <2>1
  <2> QED
    BY <2>2, <2>3, Zenon DEF Scraps
<1>6. i \in Torn => /\ k \in 0 .. n /\ scrap \in Scraps
                    /\ k = 0 \/ k \in 1 .. n
  BY <1>1, RecordFacts DEF Scraps
<1> HIDE DEF n, e, k, scrap
<1>7. CASE i \notin Torn
  BY <1>1, <1>2, <1>3, <1>4, <1>7, BegunIs DEF n
<1>8. CASE i \in Torn /\ k = 0
  <2>1. SubSeq(e, 1, k) = << >>
    <3>1. e \in Seq(Tokens)
      BY <1>1, <1>2, BegunIs
    <3> QED
      BY <1>8, <3>1
  <2>2. Written(i) = << >> \o scrap
    BY <1>3, <1>4, <1>8, <2>1
  <2>3. scrap \in Seq(Tokens)
    BY <1>5, <1>6, <1>8
  <2>4. << >> \o scrap = scrap
    BY <2>3
  <2> QED
    BY <1>8, <2>2, <2>3, <2>4 DEF k, scrap
<1>9. CASE i \in Torn /\ k # 0
  <2>1. k \in 1 .. n /\ k - 1 \in Nat
    BY <1>1, <1>6, <1>9
  <2>2. SubSeq(e, 1, k) = Begun(i, k - 1)
    BY <1>1, <1>2, <2>1 DEF Begun , n
  <2>3. Written(i) = Begun(i, k - 1) \o scrap
    BY <1>3, <1>4, <1>9, <2>2
  <2>4. scrap \in Seq(Tokens) /\ Begun(i, k - 1) \in Seq(Tokens)
    BY <1>5, <1>6, <1>9, <2>1, BegunIs
  <2>5. Written(i) \in Seq(Tokens)
    BY <2>3, <2>4
  <2> QED
    BY <1>9, <2>3, <2>5 DEF k, scrap
<1> QED
  BY <1>7, <1>8, <1>9 DEF k

-----------------------------------------------------------------------------
(* Record i lies in the file from token s[i] on.                           *)
Lies(s) ==
  /\ s[1] = 1 /\ s[Len(log) + 1] = Len(File) + 1
  /\ \A i \in 1 .. Len(log) + 1 : s[i] \in 1 .. Len(File) + 1
  /\ \A i \in 1 .. Len(log) :
       /\ s[i + 1] = s[i] + Len(Written(i))
       /\ \A k \in 0 .. Len(Written(i)) - 1 : File[s[i] + k] = Written(i)[k + 1]

(* How long the first i sequences are together, and where in the first n   *)
(* of them each one is.                                                    *)
End(F, i) == Len(F[i])

Placed(F, ss, n) ==
  \A i \in 1 .. n :
    /\ End(F, i - 1) + Len(ss[i]) <= End(F, n)
    /\ \A k \in 1 .. Len(ss[i]) : F[n][End(F, i - 1) + k] = ss[i][k]

LEMMA JoinStep ==
  ASSUME NEW A, NEW s \in Seq(A), NEW t \in Seq(A), NEW u, u = s \o t
  PROVE  /\ Len(s) \in Nat /\ Len(t) \in Nat /\ Len(u) = Len(s) + Len(t)
         /\ \A p \in 1 .. Len(s) : u[p] = s[p]
         /\ \A k \in 1 .. Len(t) : u[Len(s) + k] = t[k]
  OBVIOUS

LEMMA JoinPlaces ==
  ASSUME NEW A, NEW F, NEW ss, NEW N \in Nat, Joins(F, ss, N),
         \A i \in 0 .. N : F[i] \in Seq(A), \A i \in 1 .. N : ss[i] \in Seq(A)
  PROVE  /\ \A i \in 0 .. N : End(F, i) \in Nat
         /\ \A i \in 1 .. N : /\ Len(ss[i]) \in Nat
                              /\ End(F, i) = End(F, i - 1) + Len(ss[i])
         /\ Placed(F, ss, N)
<1>1. \A i \in 0 .. N : End(F, i) \in Nat
  BY DEF End
<1>2. ASSUME NEW n \in 1 .. N
      PROVE  /\ n - 1 \in 0 .. N /\ Len(ss[n]) \in Nat
             /\ End(F, n) = End(F, n - 1) + Len(ss[n])
             /\ \A p \in 1 .. End(F, n - 1) : F[n][p] = F[n - 1][p]
             /\ \A k \in 1 .. Len(ss[n]) : F[n][End(F, n - 1) + k] = ss[n][k]
  <2>1. n - 1 \in 0 .. N
    OBVIOUS
  <2> DEFINE a == F[n - 1]
             b == ss[n]
             u == F[n]
  <2>2. a \in Seq(A) /\ b \in Seq(A)
    BY <2>1
  <2>3. u = a \o b
    BY DEF Joins
  <2> HIDE DEF a, b, u
  <2>4. /\ Len(a) \in Nat /\ Len(b) \in Nat /\ Len(u) = Len(a) + Len(b)
        /\ \A p \in 1 .. Len(a) : u[p] = a[p]
        /\ \A k \in 1 .. Len(b) : u[Len(a) + k] = b[k]
    BY <2>2, <2>3, JoinStep
  <2> QED
    BY <2>1, <2>4 DEF a, b, u, End
<1> DEFINE S == {n \in Nat : n <= N => Placed(F, ss, n)}
<1>3. 0 \in S
  <2>1. Placed(F, ss, 0)
    <3>1. \A i \in 1 .. 0 : FALSE
      OBVIOUS
    <3> QED
      BY <3>1, Zenon DEF Placed
  <2> QED
    BY <2>1
<1>4. ASSUME NEW n \in Nat, n \in S PROVE n + 1 \in S
  <2> SUFFICES ASSUME n + 1 <= N PROVE Placed(F, ss, n + 1)
    OBVIOUS
  <2> DEFINE m == n + 1
  <2>1. m \in 1 .. N /\ m - 1 = n /\ n \in 0 .. N /\ Placed(F, ss, n) /\ m \in Nat
    BY <1>4
  <2>2. \A i \in 1 .. m : i = m \/ (i \in 1 .. n /\ i \in 1 .. N)
    BY <2>1
  <2> HIDE DEF m
  <2>3. /\ Len(ss[m]) \in Nat /\ End(F, m) = End(F, n) + Len(ss[m])
        /\ \A p \in 1 .. End(F, n) : F[m][p] = F[n][p]
        /\ \A k \in 1 .. Len(ss[m]) : F[m][End(F, n) + k] = ss[m][k]
    BY <1>2, <2>1
  <2>4. End(F, n) \in Nat
    BY <1>1, <2>1
  <2>5. ASSUME NEW i \in 1 .. m
        PROVE  /\ End(F, i - 1) + Len(ss[i]) <= End(F, m)
               /\ \A k \in 1 .. Len(ss[i]) : F[m][End(F, i - 1) + k] = ss[i][k]
    <3>1. CASE i = m
      BY <2>1, <2>3, <2>4, <3>1
    <3>2. CASE i \in 1 .. n /\ i \in 1 .. N
      <4> DEFINE a == End(F, i - 1)
                 b == Len(ss[i])
                 e == End(F, n)
      <4>1. a \in Nat /\ b \in Nat
        BY <1>1, <1>2, <3>2
      <4>2. a + b <= e /\ \A k \in 1 .. b : F[n][a + k] = ss[i][k]
        BY <2>1, <3>2 DEF Placed
      <4> HIDE DEF a, b, e
      <4>3. e \in Nat /\ End(F, m) = e + Len(ss[m]) /\ \A p \in 1 .. e : F[m][p] = F[n][p]
        BY <2>3, <2>4 DEF e
      <4>4. \A k \in 1 .. b : a + k \in 1 .. e
        BY <4>1, <4>2, <4>3
      <4>5. a + b <= End(F, m)
        BY <2>3, <4>1, <4>2, <4>3
      <4>6. \A k \in 1 .. b : F[m][a + k] = ss[i][k]
        BY <4>2, <4>3, <4>4
      <4> QED
        BY <4>5, <4>6 DEF a, b
    <3> QED
      BY <2>2, <3>1, <3>2
  <2> QED
    BY <2>5 DEF Placed, m
<1>5. N \in S
  <2> HIDE DEF S
  <2> QED
    BY <1>3, <1>4, Induction
<1> QED
  BY <1>1, <1>2, <1>5

LEMMA FileIs ==
  ASSUME LogOK
  PROVE  File \in Seq(Tokens) /\ \E s : Lies(s)
<1> DEFINE N == Len(log)
           ss == [i \in DOMAIN log |-> Written(i)]
<1>1. N \in Nat /\ DOMAIN log = 1 .. N
  BY DEF LogOK
<1>2. ss = [i \in 1 .. N |-> ss[i]] /\ \A i \in 1 .. N : ss[i] = Written(i)
  BY <1>1
<1>3. File = FlattenSeq(ss)
  BY DEF File
<1>4. \A i \in 1 .. N : ss[i] \in Seq(Tokens)
  BY <1>1, <1>2, WrittenIs
<1> HIDE DEF N, ss
<1>5. PICK F : Joins(F, ss, N) /\ \A i \in 0 .. N : F[i] \in Seq(Tokens)
  BY <1>1, <1>4, JoinExists
<1>6. File = F[N]
  BY <1>1, <1>2, <1>3, <1>4, <1>5, FlattenIs DEF IsSeq
<1>7. /\ \A i \in 0 .. N : End(F, i) \in Nat
      /\ \A i \in 1 .. N : /\ Len(ss[i]) \in Nat
                           /\ End(F, i) = End(F, i - 1) + Len(ss[i])
      /\ Placed(F, ss, N)
  BY <1>1, <1>4, <1>5, JoinPlaces
<1> DEFINE s == [i \in 1 .. N + 1 |-> End(F, i - 1) + 1]
<1>8. Len(File) = End(F, N) /\ Len(File) \in Nat
  BY <1>1, <1>6, <1>7 DEF End
<1>9. s[1] = 1 /\ s[N + 1] = Len(File) + 1
  <2>1. 1 \in 1 .. N + 1 /\ N + 1 \in 1 .. N + 1 /\ 1 - 1 = 0 /\ N + 1 - 1 = N
    BY <1>1
  <2>2. End(F, 0) = 0
    BY <1>5 DEF Joins, End
  <2>3. \A j \in 1 .. N + 1 : s[j] = End(F, j - 1) + 1
    OBVIOUS
  <2> HIDE DEF s
  <2>4. s[1] = End(F, 0) + 1
    BY <2>1, <2>3
  <2> DEFINE m == N + 1
  <2>4a. m \in 1 .. N + 1 /\ m - 1 = N
    BY <1>1
  <2> HIDE DEF m
  <2>4b. s[m] = End(F, N) + 1
    <3>1. s[m] = End(F, m - 1) + 1
      BY <2>3, <2>4a
    <3> QED
      BY <2>4a, <3>1
  <2>5. s[N + 1] = End(F, N) + 1
    BY <2>4b DEF m
  <2> QED
    BY <1>8, <2>2, <2>4, <2>5
<1>10. ASSUME NEW i \in 1 .. N
       PROVE  /\ s[i + 1] = s[i] + Len(Written(i))
              /\ \A k \in 0 .. Len(Written(i)) - 1 : File[s[i] + k] = Written(i)[k + 1]
              /\ s[i] \in 1 .. Len(File) + 1
  <2> DEFINE a == End(F, i - 1)
             w == Written(i)
  <2>1. i \in 1 .. N + 1 /\ i + 1 \in 1 .. N + 1 /\ i + 1 - 1 = i /\ i - 1 \in 0 .. N
    BY <1>1
  <2>2. ss[i] = w
    BY <1>2
  <2>2a. \A j \in 1 .. N + 1 : s[j] = End(F, j - 1) + 1
    OBVIOUS
  <2> HIDE DEF s
  <2>3. s[i] = a + 1 /\ s[i + 1] = End(F, i) + 1
    BY <2>1, <2>2a
  <2> HIDE DEF a, w
  <2>4. /\ a \in Nat /\ Len(w) \in Nat /\ End(F, i) = a + Len(w)
        /\ a + Len(w) <= Len(File)
        /\ \A k \in 1 .. Len(w) : File[a + k] = w[k]
    BY <1>6, <1>7, <1>8, <2>1, <2>2 DEF Placed, a
  <2>5. ASSUME NEW k \in 0 .. Len(w) - 1 PROVE File[s[i] + k] = w[k + 1]
    <3>1. k + 1 \in 1 .. Len(w) /\ s[i] + k = a + (k + 1)
      BY <2>3, <2>4
    <3> QED
      BY <2>4, <3>1
  <2>6. s[i + 1] = s[i] + Len(w) /\ s[i] \in 1 .. Len(File) + 1
    BY <1>8, <2>1, <2>3, <2>4
  <2> QED
    BY <2>5, <2>6 DEF w
<1> HIDE DEF s
<1>11. \A i \in 1 .. N + 1 : s[i] \in 1 .. Len(File) + 1
  <2>1. \A i \in 1 .. N + 1 : i \in 1 .. N \/ i = N + 1
    BY <1>1
  <2>2. s[N + 1] \in 1 .. Len(File) + 1
    BY <1>8, <1>9
  <2> QED
    BY <1>10, <2>1, <2>2
<1>12. Lies(s)
  BY <1>9, <1>10, <1>11, Zenon DEF Lies, N
<1>13. File \in Seq(Tokens)
  BY <1>1, <1>5, <1>6
<1> QED
  BY <1>12, <1>13

-----------------------------------------------------------------------------
(* Results of the decoder: an error, or a value and where to go on, which  *)
(* is not before q.                                                        *)
Goes(f, x, q) ==
  \/ x = Fails
  \/ x = Value(x.val, x.next) /\ x.next \in q .. Len(f) + 1

LEMMA ResultFacts ==
  /\ \A v, p : /\ Value(v, p).ok = TRUE /\ Value(v, p).val = v /\ Value(v, p).next = p
               /\ Value(v, p) # Fails
  /\ Fails.ok = FALSE
<1>1. \A v, p : Value(v, p).ok = TRUE /\ Value(v, p).val = v /\ Value(v, p).next = p
  BY DEF Value
<1>2. Fails.ok = FALSE
  BY DEF Fails
<1> QED
  BY <1>1, <1>2

LEMMA ValueGoes ==
  ASSUME NEW f, NEW v, NEW q, NEW p \in q .. Len(f) + 1
  PROVE  Goes(f, Value(v, p), q)
  BY ResultFacts DEF Goes

(* Decode by the kind of the token.                                        *)
LEMMA DecodeCases ==
  ASSUME NEW f, NEW g, NEW p, ~(p > Len(f))
  PROVE  /\ f[p].t = "array" =>
              LET x == g[p + 1][f[p].n] IN
              Decode(f, g, p) =
                IF x.ok THEN Value([t |-> "array", items |-> x.val], x.next) ELSE Fails
         /\ f[p].t = "bulk" => Decode(f, g, p) = Value(Text(<<f[p].of, f[p].item>>), p + 1)
         /\ f[p].t = "line" => Decode(f, g, p) = Fails
         /\ f[p].t = "gap" => Decode(f, g, p) = ReadGap(f, p)
  BY DEF Decode

(* What g says comes of reading from the tokens behind p.                  *)
Behind(f, g, p) ==
  \A q \in p + 1 .. Len(f) + 1 : \A k \in Nat : Goes(f, g[q][k], q)

LEMMA DecodeGoes ==
  ASSUME NEW f \in Seq(Tokens), NEW g, NEW p \in 1 .. Len(f) + 1, Behind(f, g, p)
  PROVE  Goes(f, Decode(f, g, p), p + 1)
<1>0. Len(f) \in Nat
  OBVIOUS
<1>1. CASE p > Len(f)
  BY <1>1 DEF Decode, Goes
<1>2. CASE ~(p > Len(f))
  <2>1. p \in 1 .. Len(f) /\ f[p] \in Tokens /\ p + 1 \in p + 1 .. Len(f) + 1
    BY <1>0, <1>2
  <2>2. CASE f[p].t = "array" /\ f[p].n \in Nat
    <3> DEFINE x == g[p + 1][f[p].n]
    <3>1. Goes(f, x, p + 1)
      BY <2>1, <2>2 DEF Behind
    <3>2. Decode(f, g, p) = IF x.ok THEN Value([t |-> "array", items |-> x.val], x.next) ELSE Fails
      BY <1>2, <2>2, DecodeCases
    <3> HIDE DEF x
    <3>3. CASE x = Fails
      BY <3>2, <3>3, ResultFacts DEF Goes
    <3>4. CASE x = Value(x.val, x.next) /\ x.next \in p + 1 .. Len(f) + 1
      <4>1. x.ok
        BY <3>4, ResultFacts
      <4>2. Decode(f, g, p) = Value([t |-> "array", items |-> x.val], x.next)
        BY <3>2, <4>1
      <4> QED
        BY <3>4, <4>2, ValueGoes
    <3> QED
      BY <3>1, <3>3, <3>4 DEF Goes
  <2>3. CASE f[p].t = "bulk"
    <3>1. Decode(f, g, p) = Value(Text(<<f[p].of, f[p].item>>), p + 1)
      BY <1>2, <2>3, DecodeCases
    <3> QED
      BY <2>1, <3>1, ValueGoes
  <2>4. CASE f[p].t = "line"
    BY <1>2, <2>4, DecodeCases DEF Goes
  <2>5. CASE f[p].t = "gap" /\ f[p].skip \in Nat
    <3> DEFINE k == f[p].skip
           next == IF k = 0 THEN Len(f) + 1 ELSE p + 1 + k
    <3>1. Decode(f, g, p) = IF p = Len(f) \/ p + k > Len(f) THEN Fails ELSE Value(Garbage, next)
      BY <1>2, <2>5, DecodeCases DEF ReadGap
    <3> HIDE DEF k
    <3>2. CASE p = Len(f) \/ p + k > Len(f)
      BY <3>1, <3>2 DEF Goes
    <3>3. CASE ~(p = Len(f) \/ p + k > Len(f))
      <4>1. next \in p + 1 .. Len(f) + 1
        BY <1>0, <2>1, <2>5, <3>3 DEF k
      <4> HIDE DEF next
      <4> QED
        BY <3>1, <3>3, <4>1, ValueGoes
    <3> QED
      BY <3>2, <3>3
  <2> QED
    BY <2>1, <2>2, <2>3, <2>4, <2>5, TokenKinds
<1> QED
  BY <1>1, <1>2

LEMMA ItemsZero ==
  ASSUME NEW f, NEW g, NEW p
  PROVE  Items(f, g, p, 0) = Value(<< >>, p)
  BY DEF Items

LEMMA ItemsCases ==
  ASSUME NEW f, NEW g, NEW p, NEW n, n # 0
  PROVE  LET x == Decode(f, g, p)
             rest == g[x.next][n - 1]
         IN  /\ x = Fails => Items(f, g, p, n) = Fails
             /\ rest = Fails => Items(f, g, p, n) = Fails
             /\ x.ok /\ rest.ok =>
                  Items(f, g, p, n) = Value(<<x.val>> \o rest.val, rest.next)
  BY ResultFacts DEF Items

LEMMA ItemsGoes ==
  ASSUME NEW f \in Seq(Tokens), NEW g, NEW p \in 1 .. Len(f) + 1, Behind(f, g, p), NEW n \in Nat
  PROVE  Goes(f, Items(f, g, p, n), p)
<1>0. Len(f) \in Nat /\ p \in p .. Len(f) + 1
  OBVIOUS
<1>1. CASE n = 0
  BY <1>0, <1>1, ItemsZero, ValueGoes
<1>2. CASE n # 0
  <2> DEFINE x == Decode(f, g, p)
             rest == g[x.next][n - 1]
  <2>1. Goes(f, x, p + 1)
    BY DecodeGoes
  <2>2. n \in Nat \ {0} /\ n - 1 \in Nat
    BY <1>2
  <2>3. /\ x = Fails => Items(f, g, p, n) = Fails
        /\ rest = Fails => Items(f, g, p, n) = Fails
        /\ x.ok /\ rest.ok => Items(f, g, p, n) = Value(<<x.val>> \o rest.val, rest.next)
    BY <1>2, ItemsCases
  <2>4. CASE x = Fails
    BY <2>3, <2>4 DEF Goes
  <2>5. CASE x = Value(x.val, x.next) /\ x.next \in p + 1 .. Len(f) + 1
    <3>1. Goes(f, rest, x.next)
      BY <2>2, <2>5 DEF Behind
    <3> HIDE DEF x, rest
    <3>2. CASE rest = Fails
      BY <2>3, <3>2 DEF Goes
    <3>3. CASE rest = Value(rest.val, rest.next) /\ rest.next \in x.next .. Len(f) + 1
      <4>1. x.ok /\ rest.ok
        BY <2>5, <3>3, ResultFacts
      <4>2. rest.next \in p .. Len(f) + 1
        BY <1>0, <2>5, <3>3
      <4> QED
        BY <2>3, <4>1, <4>2, ValueGoes
    <3> QED
      BY <3>1, <3>2, <3>3 DEF Goes
  <2> HIDE DEF x, rest
  <2> QED
    BY <2>1, <2>4, <2>5 DEF Goes
<1> QED
  BY <1>1, <1>2

(* Nothing else counts than what comes of reading behind p.                *)
LEMMA Local ==
  ASSUME NEW f \in Seq(Tokens), NEW g, NEW h, NEW p \in 1 .. Len(f) + 1, Behind(f, g, p),
         \A q \in p + 1 .. Len(f) + 1 : g[q] = h[q]
  PROVE  \A n \in Nat : Items(f, h, p, n) = Items(f, g, p, n)
<1>0. Len(f) \in Nat
  OBVIOUS
<1>1. Decode(f, h, p) = Decode(f, g, p)
  <2>1. CASE p > Len(f)
    BY <2>1 DEF Decode
  <2>2. CASE ~(p > Len(f))
    <3>1. g[p + 1] = h[p + 1]
      BY <1>0, <2>2
    <3> QED
      BY <3>1 DEF Decode
  <2> QED
    BY <2>1, <2>2
<1> SUFFICES ASSUME NEW n \in Nat PROVE Items(f, h, p, n) = Items(f, g, p, n)
  OBVIOUS
<1>2. CASE n = 0
  BY <1>2, ItemsZero
<1>3. CASE n # 0 /\ Decode(f, g, p) = Fails
  BY <1>1, <1>3, ItemsCases
<1>4. CASE Decode(f, g, p).next \in p + 1 .. Len(f) + 1
  BY <1>1, <1>4 DEF Items
<1> QED
  BY <1>2, <1>3, <1>4, DecodeGoes DEF Goes

-----------------------------------------------------------------------------
(* The decoder's recursion has a solution, and Reads is one.               *)
Reading(f, g, a) ==
  \A p \in a .. Len(f) + 1 :
    /\ g[p] = [n \in Nat |-> Items(f, g, p, n)]
    /\ \A n \in Nat : Goes(f, g[p][n], p)

LEMMA ReadsExist ==
  ASSUME NEW f \in Seq(Tokens)
  PROVE  \E g : g = [p \in 1 .. Len(f) + 1 |-> [n \in Nat |-> Items(f, g, p, n)]]
<1> DEFINE L == Len(f) + 1
           S == {p \in 1 .. L : \E g : Reading(f, g, p)}
<1>1. L \in Nat /\ L >= 1
  OBVIOUS
<1>2. ASSUME NEW a \in 1 .. L, \A q \in a + 1 .. L : q \in S PROVE \E g : Reading(f, g, a)
  <2>1. PICK g : Reading(f, g, a + 1)
    <3>1. CASE a = L
      <4>1. \A p \in a + 1 .. L : FALSE
        BY <1>1, <3>1
      <4> QED
        BY <4>1, Zenon DEF Reading
    <3>2. CASE a # L
      <4>1. a + 1 \in a + 1 .. L
        BY <1>1, <3>2
      <4> QED
        BY <1>2, <4>1
    <3> QED
      BY <3>1, <3>2
  <2> DEFINE h == [p \in a .. L |-> IF p = a THEN [n \in Nat |-> Items(f, g, a, n)] ELSE g[p]]
  <2>2. h[a] = [n \in Nat |-> Items(f, g, a, n)] /\ \A p \in a + 1 .. L : h[p] = g[p]
    <3>1. a \in a .. L /\ \A p \in a + 1 .. L : p \in a .. L /\ p # a
      BY <1>1
    <3> QED
      BY <3>1, Zenon
  <2> HIDE DEF h
  <2>3. ASSUME NEW p \in a .. L PROVE Behind(f, g, p) /\ \A q \in p + 1 .. L : g[q] = h[q]
    <3>1. \A q \in p + 1 .. L : q \in a + 1 .. L
      BY <1>1
    <3>2. \A q \in p + 1 .. L : g[q] = h[q]
      BY <2>2, <3>1
    <3>3. Behind(f, g, p)
      BY <2>1, <3>1 DEF Behind, Reading
    <3> QED
      BY <3>2, <3>3
  <2>4. ASSUME NEW p \in a .. L PROVE \A n \in Nat : Items(f, h, p, n) = Items(f, g, p, n)
    <3>1. p \in 1 .. L
      BY <1>1
    <3> QED
      BY <2>3, <3>1, Local
  <2>5. \A n \in Nat : Goes(f, Items(f, g, a, n), a)
    <3>1. a \in a .. L
      BY <1>1
    <3> QED
      BY <2>3, <3>1, ItemsGoes
  <2>6. ASSUME NEW p \in a .. L
        PROVE  /\ h[p] = [n \in Nat |-> Items(f, h, p, n)]
               /\ \A n \in Nat : Goes(f, h[p][n], p)
    <3>1. [n \in Nat |-> Items(f, h, p, n)] = [n \in Nat |-> Items(f, g, p, n)]
      BY <2>4
    <3>2. CASE p = a
      <4>1. h[p] = [n \in Nat |-> Items(f, g, p, n)]
        BY <2>2, <3>2
      <4>2. \A n \in Nat : h[p][n] = Items(f, g, p, n)
        BY <4>1
      <4> QED
        BY <2>5, <3>1, <3>2, <4>1, <4>2
    <3>3. CASE p # a
      <4>1. p \in a + 1 .. L
        BY <1>1, <3>3
      <4>2. /\ g[p] = [n \in Nat |-> Items(f, g, p, n)]
            /\ \A n \in Nat : Goes(f, g[p][n], p)
        BY <2>1, <4>1 DEF Reading
      <4>3. h[p] = g[p]
        BY <2>2, <4>1
      <4> QED
        BY <3>1, <4>2, <4>3
    <3> QED
      BY <3>2, <3>3
  <2>7. Reading(f, h, a)
    BY <2>6 DEF Reading
  <2> QED
    BY <2>7
<1>3. \A p \in 1 .. L : p \in S
  <2>1. \A a \in 1 .. L : (\A q \in a + 1 .. L : q \in S) => a \in S
    BY <1>2
  <2> HIDE DEF L, S
  <2> QED
    BY <1>1, <2>1, Downward
<1>4. PICK g : Reading(f, g, 1)
  <2>1. 1 \in 1 .. L
    BY <1>1
  <2> QED
    BY <1>3, <2>1
<1>4a. PICK h : h = [p \in 1 .. L |-> g[p]]
  OBVIOUS
<1>5. \A p \in 1 .. L : h[p] = g[p]
  BY <1>4a
<1>6. ASSUME NEW p \in 1 .. L
      PROVE  Behind(f, g, p) /\ \A q \in p + 1 .. L : g[q] = h[q]
  <2>1. \A q \in p + 1 .. L : q \in 1 .. L
    BY <1>1
  <2>2. Behind(f, g, p)
    BY <1>4, <2>1 DEF Behind, Reading
  <2> QED
    BY <1>5, <2>1, <2>2
<1>6a. ASSUME NEW p \in 1 .. L PROVE \A n \in Nat : Items(f, h, p, n) = Items(f, g, p, n)
  BY <1>6, Local
<1>6b. ASSUME NEW p \in 1 .. L PROVE g[p] = [n \in Nat |-> Items(f, h, p, n)]
  <2>1. g[p] = [n \in Nat |-> Items(f, g, p, n)]
    BY <1>4 DEF Reading
  <2> QED
    BY <1>6a, <2>1
<1>7. h = [p \in 1 .. L |-> [n \in Nat |-> Items(f, h, p, n)]]
  BY <1>4a, <1>6b
<1> QED
  BY <1>7

LEMMA ReadsAre ==
  ASSUME NEW f \in Seq(Tokens), NEW p \in 1 .. Len(f) + 1
  PROVE  /\ Behind(f, Reads(f), p)
         /\ \A n \in Nat : /\ Reads(f)[p][n] = Items(f, Reads(f), p, n)
                           /\ Goes(f, Reads(f)[p][n], p)
<1> DEFINE L == Len(f) + 1
           g == Reads(f)
           S == {q \in 1 .. L : \A n \in Nat : Goes(f, g[q][n], q)}
<1>1. L \in Nat /\ L >= 1
  OBVIOUS
<1>2. g = [q \in 1 .. L |-> [n \in Nat |-> Items(f, g, q, n)]]
  BY ReadsExist DEF Reads
<1> HIDE DEF g
<1>3. \A q \in 1 .. L : \A n \in Nat : g[q][n] = Items(f, g, q, n)
  <2> SUFFICES ASSUME NEW q \in 1 .. L PROVE \A n \in Nat : g[q][n] = Items(f, g, q, n)
    OBVIOUS
  <2>1. g[q] = [n \in Nat |-> Items(f, g, q, n)]
    BY <1>2, Zenon
  <2> QED
    BY <2>1
<1>4. ASSUME NEW a \in 1 .. L, \A q \in a + 1 .. L : q \in S PROVE Behind(f, g, a) /\ a \in S
  <2>1. Behind(f, g, a)
    BY <1>4 DEF Behind
  <2>2. \A n \in Nat : Goes(f, g[a][n], a)
    BY <1>3, <2>1, ItemsGoes
  <2> QED
    BY <2>1, <2>2
<1>5. \A q \in 1 .. L : q \in S
  <2>1. \A a \in 1 .. L : (\A q \in a + 1 .. L : q \in S) => a \in S
    BY <1>4
  <2> HIDE DEF L, S
  <2> QED
    BY <1>1, <2>1, Downward
<1>6. Behind(f, g, p)
  <2>1. \A q \in p + 1 .. L : q \in S
    <3>1. \A q \in p + 1 .. L : q \in 1 .. L
      BY <1>1
    <3> HIDE DEF S
    <3> QED
      BY <1>5, <3>1
  <2> QED
    BY <1>4, <2>1
<1> QED
  BY <1>3, <1>5, <1>6 DEF g

-----------------------------------------------------------------------------
(* The load loop's recursion has a solution, and Loads is one.             *)
LEMMA LoadLocal ==
  ASSUME NEW f \in Seq(Tokens), NEW p \in 1 .. Len(f) + 1, NEW g, NEW h,
         \A q \in p + 1 .. Len(f) + 1 : g[q] = h[q]
  PROVE  LoadFrom(f, g, p) = LoadFrom(f, h, p)
<1> DEFINE x == Decode(f, Reads(f), p)
<1>1. Goes(f, x, p + 1)
  BY ReadsAre, DecodeGoes
<1>2. /\ LoadFrom(f, g, p) = IF ~x.ok THEN << >>
              ELSE (IF Dispatches(x.val) THEN <<x.val.items>> ELSE << >>) \o g[x.next]
      /\ LoadFrom(f, h, p) = IF ~x.ok THEN << >>
              ELSE (IF Dispatches(x.val) THEN <<x.val.items>> ELSE << >>) \o h[x.next]
  BY DEF LoadFrom
<1> HIDE DEF x
<1>3. CASE x = Fails
  BY <1>2, <1>3, ResultFacts
<1>4. CASE x.next \in p + 1 .. Len(f) + 1
  <2>1. g[x.next] = h[x.next]
    BY <1>4
  <2> QED
    BY <1>2, <2>1
<1> QED
  BY <1>1, <1>3, <1>4 DEF Goes

LEMMA LoadsExist ==
  ASSUME NEW f \in Seq(Tokens)
  PROVE  \E g : g = [p \in 1 .. Len(f) + 1 |-> LoadFrom(f, g, p)]
<1> DEFINE L == Len(f) + 1
           Loading(g, a) == \A p \in a .. L : g[p] = LoadFrom(f, g, p)
           S == {p \in 1 .. L : \E g : Loading(g, p)}
<1>1. L \in Nat /\ L >= 1
  OBVIOUS
<1>2. ASSUME NEW a \in 1 .. L, \A q \in a + 1 .. L : q \in S PROVE \E g : Loading(g, a)
  <2>1. PICK g : Loading(g, a + 1)
    <3>1. CASE a = L
      <4>1. \A p \in a + 1 .. L : FALSE
        BY <1>1, <3>1
      <4> QED
        BY <4>1, Zenon
    <3>2. CASE a # L
      <4>1. a + 1 \in a + 1 .. L
        BY <1>1, <3>2
      <4> QED
        BY <1>2, <4>1
    <3> QED
      BY <3>1, <3>2
  <2> DEFINE h == [p \in a .. L |-> IF p = a THEN LoadFrom(f, g, a) ELSE g[p]]
  <2>2. h[a] = LoadFrom(f, g, a) /\ \A p \in a + 1 .. L : h[p] = g[p]
    <3>1. a \in a .. L /\ \A p \in a + 1 .. L : p \in a .. L /\ p # a
      BY <1>1
    <3> QED
      BY <3>1, Zenon
  <2> HIDE DEF h
  <2>3. ASSUME NEW p \in a .. L PROVE LoadFrom(f, g, p) = LoadFrom(f, h, p)
    <3>1. p \in 1 .. L /\ \A q \in p + 1 .. L : q \in a + 1 .. L
      BY <1>1
    <3>2. \A q \in p + 1 .. L : g[q] = h[q]
      BY <2>2, <3>1
    <3> QED
      BY <3>1, <3>2, LoadLocal
  <2>4. ASSUME NEW p \in a .. L PROVE h[p] = LoadFrom(f, h, p)
    <3>1. CASE p = a
      BY <2>2, <2>3, <3>1
    <3>2. CASE p # a
      <4>1. p \in a + 1 .. L
        BY <1>1, <3>2
      <4> QED
        BY <2>1, <2>2, <2>3, <4>1
    <3> QED
      BY <3>1, <3>2
  <2> QED
    BY <2>4
<1>3. \A p \in 1 .. L : p \in S
  <2>1. \A a \in 1 .. L : (\A q \in a + 1 .. L : q \in S) => a \in S
    BY <1>2
  <2> HIDE DEF L, S
  <2> QED
    BY <1>1, <2>1, Downward
<1>4. PICK g : Loading(g, 1)
  <2>1. 1 \in 1 .. L
    BY <1>1
  <2> QED
    BY <1>3, <2>1
<1> DEFINE G == [p \in 1 .. L |-> g[p]]
<1>5. \A p \in 1 .. L : G[p] = g[p]
  OBVIOUS
<1>6. ASSUME NEW p \in 1 .. L PROVE g[p] = LoadFrom(f, G, p)
  <2> HIDE DEF G
  <2>1. \A q \in p + 1 .. L : q \in 1 .. L
    BY <1>1
  <2>2. \A q \in p + 1 .. L : g[q] = G[q]
    BY <1>5, <2>1
  <2> QED
    BY <1>4, <2>2, LoadLocal
<1>7. G = [p \in 1 .. L |-> LoadFrom(f, G, p)]
  BY <1>6
<1> QED
  BY <1>7

LEMMA LoadsAre ==
  ASSUME NEW f \in Seq(Tokens), NEW p \in 1 .. Len(f) + 1
  PROVE  Loads(f)[p] = LoadFrom(f, Loads(f), p)
<1> DEFINE g == Loads(f)
<1>1. g = [q \in 1 .. Len(f) + 1 |-> LoadFrom(f, g, q)]
  BY LoadsExist DEF Loads
<1> HIDE DEF g
<1>2. g[p] = LoadFrom(f, g, p)
  BY <1>1
<1> QED
  BY <1>2 DEF g

(* One turn of the loop: an error ends it, a value is a command or passed. *)
LEMMA LoadTurns ==
  ASSUME NEW f \in Seq(Tokens), NEW p \in 1 .. Len(f) + 1
  PROVE  /\ Decode(f, Reads(f), p) = Fails => Loads(f)[p] = << >>
         /\ \A v, q : Decode(f, Reads(f), p) = Value(v, q) =>
              /\ q \in p + 1 .. Len(f) + 1
              /\ Loads(f)[p] = (IF Dispatches(v) THEN <<v.items>> ELSE << >>) \o Loads(f)[q]
<1> DEFINE x == Decode(f, Reads(f), p)
           g == Loads(f)
<1>1. Goes(f, x, p + 1)
  BY ReadsAre, DecodeGoes
<1>2. g[p] = IF ~x.ok THEN << >>
             ELSE (IF Dispatches(x.val) THEN <<x.val.items>> ELSE << >>) \o g[x.next]
  BY LoadsAre DEF LoadFrom
<1> HIDE DEF x, g
<1>3. x = Fails => g[p] = << >>
  BY <1>2, ResultFacts
<1>4. ASSUME NEW v, NEW q, x = Value(v, q)
      PROVE  /\ q \in p + 1 .. Len(f) + 1
             /\ g[p] = (IF Dispatches(v) THEN <<v.items>> ELSE << >>) \o g[q]
  <2>1. x.ok = TRUE /\ x.val = v /\ x.next = q /\ x # Fails
    BY <1>4, ResultFacts
  <2>2. q \in p + 1 .. Len(f) + 1
    BY <1>1, <2>1 DEF Goes
  <2>3. g[p] = (IF Dispatches(v) THEN <<v.items>> ELSE << >>) \o g[q]
    BY <1>2, <2>1
  <2> QED
    BY <2>2, <2>3
<1> QED
  BY <1>3, <1>4 DEF x, g

LEMMA OneIsSeq == ASSUME NEW x PROVE IsSeq(<<x>>) /\ IsSeq(<< >>) /\ Len(<<x>>) = 1 /\ <<x>>[1] = x
<1>1. <<x>> \in Seq({x}) /\ << >> \in Seq({x})
  OBVIOUS
<1> QED
  BY <1>1 DEF IsSeq

LEMMA LoadsSeq ==
  ASSUME NEW f \in Seq(Tokens)
  PROVE  \A p \in 1 .. Len(f) + 1 : IsSeq(Loads(f)[p])
<1> DEFINE L == Len(f) + 1
           S == {p \in 1 .. L : IsSeq(Loads(f)[p])}
<1>1. L \in Nat
  OBVIOUS
<1>2. ASSUME NEW a \in 1 .. L, \A q \in a + 1 .. L : q \in S PROVE IsSeq(Loads(f)[a])
  <2> DEFINE x == Decode(f, Reads(f), a)
  <2>1. Goes(f, x, a + 1)
    BY ReadsAre, DecodeGoes
  <2>2. CASE x = Fails
    BY <2>2, LoadTurns, OneIsSeq
  <2>3. ASSUME NEW v, NEW q, x = Value(v, q) PROVE IsSeq(Loads(f)[a])
    <3>1. q \in a + 1 .. L /\ Loads(f)[a] = (IF Dispatches(v) THEN <<v.items>> ELSE << >>) \o Loads(f)[q]
      BY <2>3, LoadTurns
    <3>2. IsSeq(Loads(f)[q])
      BY <1>2, <3>1
    <3>3. IsSeq(IF Dispatches(v) THEN <<v.items>> ELSE << >>)
      BY OneIsSeq
    <3> QED
      BY <3>1, <3>2, <3>3, ConcatFacts
  <2> HIDE DEF x
  <2> QED
    BY <2>1, <2>2, <2>3 DEF Goes
<1>3. \A p \in 1 .. L : p \in S
  <2>1. \A a \in 1 .. L : (\A q \in a + 1 .. L : q \in S) => a \in S
    BY <1>2
  <2> HIDE DEF L, S
  <2> QED
    BY <1>1, <2>1, Downward
<1> QED
  BY <1>3

-----------------------------------------------------------------------------
LEMMA DecodeHeader ==
  ASSUME NEW f, NEW p, ~(p > Len(f)), NEW n, f[p] = Header(n)
  PROVE  /\ Reads(f)[p + 1][n] = Fails => Decode(f, Reads(f), p) = Fails
         /\ \A w, r : Reads(f)[p + 1][n] = Value(w, r) =>
              Decode(f, Reads(f), p) = Value([t |-> "array", items |-> w], r)
<1> DEFINE x == Reads(f)[p + 1][n]
<1>1. f[p].t = "array" /\ f[p].n = n
  BY TokenFacts
<1>2. Decode(f, Reads(f), p) =
        IF x.ok THEN Value([t |-> "array", items |-> x.val], x.next) ELSE Fails
  BY <1>1, DecodeCases
<1> HIDE DEF x
<1>3. x = Fails => Decode(f, Reads(f), p) = Fails
  BY <1>2, ResultFacts
<1>4. ASSUME NEW w, NEW r, x = Value(w, r)
      PROVE  Decode(f, Reads(f), p) = Value([t |-> "array", items |-> w], r)
  <2>1. x.ok /\ x.val = w /\ x.next = r
    BY <1>4, ResultFacts
  <2> QED
    BY <1>2, <2>1
<1> QED
  BY <1>3, <1>4 DEF x

LEMMA DecodeBulk ==
  ASSUME NEW f, NEW g, NEW p, ~(p > Len(f)), NEW i, NEW k, f[p] = Bulk(i, k)
  PROVE  Decode(f, g, p) = Value(Text(<<i, k>>), p + 1)
<1>1. f[p].t = "bulk" /\ f[p].of = i /\ f[p].item = k
  BY TokenFacts
<1>2. Decode(f, g, p) = Value(Text(<<f[p].of, f[p].item>>), p + 1)
  BY <1>1, DecodeCases
<1> QED
  BY <1>1, <1>2

(* One turn of readArray's loop.                                           *)
LEMMA ReadTurns ==
  ASSUME NEW f \in Seq(Tokens), NEW p \in 1 .. Len(f) + 1
  PROVE  /\ Reads(f)[p][0] = Value(<< >>, p)
         /\ \A n \in Nat \ {0} : Decode(f, Reads(f), p) = Fails => Reads(f)[p][n] = Fails
         /\ \A n \in Nat \ {0} : \A v, q : Decode(f, Reads(f), p) = Value(v, q) =>
              /\ Reads(f)[q][n - 1] = Fails => Reads(f)[p][n] = Fails
              /\ \A w, r : Reads(f)[q][n - 1] = Value(w, r) => Reads(f)[p][n] = Value(<<v>> \o w, r)
<1> DEFINE g == Reads(f)
           x == Decode(f, g, p)
<1>1. \A n \in Nat : g[p][n] = Items(f, g, p, n)
  BY ReadsAre
<1> HIDE DEF g
<1>2. g[p][0] = Value(<< >>, p)
  BY <1>1, ItemsZero
<1>3. ASSUME NEW n \in Nat \ {0}, x = Fails PROVE g[p][n] = Fails
  <2>1. n \in Nat /\ n # 0
    OBVIOUS
  <2>2. Items(f, g, p, n) = Fails
    BY <1>3, <2>1, ItemsCases, Zenon
  <2> QED
    BY <1>1, <2>1, <2>2, Zenon
<1>4. ASSUME NEW n \in Nat \ {0}, NEW v, NEW q, x = Value(v, q)
      PROVE  /\ g[q][n - 1] = Fails => g[p][n] = Fails
             /\ \A w, r : g[q][n - 1] = Value(w, r) => g[p][n] = Value(<<v>> \o w, r)
  <2> DEFINE rest == g[x.next][n - 1]
  <2>1. g[p][n] = Items(f, g, p, n)
    BY <1>1
  <2>2. /\ rest = Fails => Items(f, g, p, n) = Fails
        /\ x.ok /\ rest.ok => Items(f, g, p, n) = Value(<<x.val>> \o rest.val, rest.next)
    BY ItemsCases
  <2>3. x.ok /\ x.val = v /\ x.next = q
    BY <1>4, ResultFacts
  <2>4. rest = g[q][n - 1]
    BY <2>3
  <2> HIDE DEF rest, x
  <2>5. ASSUME NEW w, NEW r, rest = Value(w, r) PROVE g[p][n] = Value(<<v>> \o w, r)
    <3>1. rest.ok /\ rest.val = w /\ rest.next = r
      BY <2>5, ResultFacts
    <3> QED
      BY <2>1, <2>2, <2>3, <3>1
  <2> QED
    BY <2>1, <2>2, <2>4, <2>5
<1> QED
  BY <1>2, <1>3, <1>4, Zenon DEF g, x

(* The texts of command i from item k on, n of them.                       *)
Texts(i, k, n) == [j \in 1 .. n |-> Text(<<i, k + j - 1>>)]

LEMMA TextsGrow ==
  ASSUME NEW i, NEW k \in Nat, NEW n \in Nat
  PROVE  IsSeq(Texts(i, k + 1, n)) /\ Texts(i, k, n + 1) = <<Text(<<i, k>>)>> \o Texts(i, k + 1, n)
<1> DEFINE a == <<Text(<<i, k>>)>>
           b == Texts(i, k + 1, n)
           c == Texts(i, k, n + 1)
<1>1. IsSeq(a) /\ Len(a) = 1 /\ a[1] = Text(<<i, k>>)
  BY OneIsSeq
<1>2. IsSeq(b) /\ Len(b) = n
  <2>1. b = [j \in 1 .. n |-> b[j]]
    BY DEF Texts
  <2> QED
    BY <2>1, FunctionIsSeq
<1>3. IsSeq(c) /\ Len(c) = n + 1
  <2>1. c = [j \in 1 .. n + 1 |-> c[j]]
    BY DEF Texts
  <2> HIDE DEF c
  <2> QED
    BY <2>1, FunctionIsSeq
<1>5. \A j \in 1 .. n + 1 : c[j] = Text(<<i, k + j - 1>>)
  BY DEF Texts
<1>6. \A j \in 1 .. n : b[j] = Text(<<i, k + j>>)
  <2>1. \A j \in 1 .. n : b[j] = Text(<<i, k + 1 + j - 1>>)
    BY DEF Texts
  <2> HIDE DEF b
  <2>2. \A j \in 1 .. n : k + 1 + j - 1 = k + j
    OBVIOUS
  <2> QED
    BY <2>1, <2>2
<1> HIDE DEF a, b, c
<1>7. /\ IsSeq(a \o b) /\ Len(a \o b) = 1 + n /\ (a \o b)[1] = a[1]
      /\ \A j \in 1 .. n : (a \o b)[1 + j] = b[j]
  <2>1. /\ IsSeq(a \o b) /\ Len(a \o b) = Len(a) + Len(b)
        /\ \A j \in 1 .. Len(a) : (a \o b)[j] = a[j]
        /\ \A j \in 1 .. Len(b) : (a \o b)[Len(a) + j] = b[j]
    <3>1. IsSeq(a) /\ IsSeq(b)
      BY <1>1, <1>2
    <3> QED
      BY <3>1, ConcatFacts
  <2>2. 1 \in 1 .. 1
    OBVIOUS
  <2> QED
    BY <1>1, <1>2, <2>1, <2>2
<1>8. ASSUME NEW j \in 1 .. n + 1 PROVE c[j] = (a \o b)[j]
  <2>1. CASE j = 1
    <3>1. k + j - 1 = k
      BY <2>1
    <3> QED
      BY <1>1, <1>5, <1>7, <2>1, <3>1
  <2>2. CASE j # 1
    <3>1. j - 1 \in 1 .. n /\ 1 + (j - 1) = j /\ k + (j - 1) = k + j - 1
      BY <2>2
    <3>2. (a \o b)[j] = b[j - 1]
      BY <1>7, <3>1
    <3>3. b[j - 1] = Text(<<i, k + (j - 1)>>)
      BY <1>6, <3>1
    <3> QED
      BY <1>5, <3>1, <3>2, <3>3
  <2> QED
    BY <2>1, <2>2
<1>9. c = a \o b
  <2>1. Len(c) = Len(a \o b)
    BY <1>3, <1>7
  <2> QED
    BY <1>3, <1>7, <1>8, <2>1, SeqsEqual
<1> QED
  BY <1>2, <1>9 DEF a, b, c

(* Whole texts from token p on, a of them: reading a + b values is reading *)
(* b behind them.                                                          *)
Bulks(f, p, i, k, a) ==
  /\ p \in 1 .. Len(f) + 1 /\ p + a <= Len(f) + 1
  /\ \A j \in 0 .. a - 1 : f[p + j] = Bulk(i, k + j)

ReadsOn(f, p, i, k, a, b) ==
  /\ Reads(f)[p + a][b] = Fails => Reads(f)[p][a + b] = Fails
  /\ \A w, r : IsSeq(w) /\ Reads(f)[p + a][b] = Value(w, r) =>
       Reads(f)[p][a + b] = Value(Texts(i, k, a) \o w, r)

LEMMA BulksRead ==
  ASSUME NEW f \in Seq(Tokens), NEW i, NEW k \in Nat, NEW a \in Nat, NEW b \in Nat, NEW p,
         Bulks(f, p, i, k, a)
  PROVE  ReadsOn(f, p, i, k, a, b)
<1> DEFINE g == Reads(f)
           e == g[p + a][b]
           Good(c) ==
             /\ e = Fails => g[p + a - c][c + b] = Fails
             /\ \A w, r : IsSeq(w) /\ e = Value(w, r) =>
                  g[p + a - c][c + b] = Value(Texts(i, k + a - c, c) \o w, r)
           S == {c \in Nat : c <= a => Good(c)}
<1>0. /\ Len(f) \in Nat /\ p \in 1 .. Len(f) + 1 /\ p + a <= Len(f) + 1
      /\ \A j \in 0 .. a - 1 : f[p + j] = Bulk(i, k + j)
  BY DEF Bulks
<1>1. Good(0)
  <2>1. p + a - 0 = p + a /\ 0 + b = b /\ k + a - 0 = k + a
    BY <1>0
  <2>2. Texts(i, k + a, 0) = << >>
    BY DEF Texts
  <2> HIDE DEF g
  <2>3. ASSUME NEW w, IsSeq(w) PROVE Texts(i, k + a - 0, 0) \o w = w
    BY <2>1, <2>2, <2>3, SeqFacts
  <2> QED
    BY <2>1, <2>3
<1>2. ASSUME NEW c \in Nat, c + 1 <= a, Good(c) PROVE Good(c + 1)
  <2> DEFINE q == p + a - (c + 1)
             m == k + a - (c + 1)
             y == Text(<<i, m>>)
             n == c + 1 + b
  <2>1. /\ q \in 1 .. Len(f) /\ q \in 1 .. Len(f) + 1 /\ m \in Nat
        /\ q + 1 = p + a - c /\ m + 1 = k + a - c /\ ~(q > Len(f))
        /\ n \in Nat \ {0} /\ n - 1 = c + b
    BY <1>0, <1>2
  <2>2. f[q] = Bulk(i, m)
    <3> DEFINE j == a - (c + 1)
    <3>1. j \in 0 .. a - 1 /\ p + j = q /\ k + j = m
      BY <1>0, <1>2
    <3> HIDE DEF j, q, m
    <3> QED
      BY <1>0, <3>1
  <2> HIDE DEF q, m, n
  <2>3. Decode(f, g, q) = Value(y, q + 1)
    BY <2>1, <2>2, DecodeBulk
  <2>4. /\ g[q + 1][n - 1] = Fails => g[q][n] = Fails
        /\ \A w, r : g[q + 1][n - 1] = Value(w, r) => g[q][n] = Value(<<y>> \o w, r)
    BY <2>1, <2>3, ReadTurns
  <2>4a. ASSUME NEW z \in Nat
         PROVE IsSeq(Texts(i, z + 1, c)) /\ Texts(i, z, c + 1) = <<Text(<<i, z>>)>> \o Texts(i, z + 1, c)
    BY TextsGrow
  <2>4b. IsSeq(Texts(i, m + 1, c)) /\ Texts(i, m, c + 1) = <<y>> \o Texts(i, m + 1, c)
    BY <2>1, <2>4a
  <2> HIDE DEF g, e, y
  <2>5. e = Fails => g[q][n] = Fails
    BY <1>2, <2>1, <2>4
  <2>6. ASSUME NEW w, NEW r, IsSeq(w), e = Value(w, r)
        PROVE  g[q][n] = Value(Texts(i, m, c + 1) \o w, r)
    <3> DEFINE t == Texts(i, m + 1, c)
    <3>1. g[q + 1][n - 1] = Value(t \o w, r)
      BY <1>2, <2>1, <2>6
    <3>2. IsSeq(t) /\ Texts(i, m, c + 1) = <<y>> \o t
      BY <2>4b
    <3> HIDE DEF t
    <3>3. (<<y>> \o t) \o w = <<y>> \o (t \o w)
      BY <2>6, <3>2, OneIsSeq, ConcatAssociates
    <3> QED
      BY <2>4, <3>1, <3>2, <3>3
  <2> QED
    BY <2>5, <2>6 DEF q, m, n
<1>3. Good(a)
  <2> HIDE DEF Good
  <2>1. 0 \in S /\ \A c \in Nat : c \in S => c + 1 \in S
    BY <1>1, <1>2
  <2>2. a \in S
    <3> HIDE DEF S
    <3> QED
      BY <2>1, Induction
  <2> QED
    BY <2>2
<1>4. p + a - a = p /\ k + a - a = k
  BY <1>0
<1> QED
  BY <1>3, <1>4 DEF ReadsOn

-----------------------------------------------------------------------------
(* Stretches of what was sent.                                             *)
Sending(a, b) == SubSeq(Sent, a, b)

LEMMA SendingIs ==
  ASSUME LogOK, NEW a \in Nat \ {0}, NEW b \in Nat, b <= Len(log)
  PROVE  /\ IsSeq(Sending(a, b))
         /\ a > b => Sending(a, b) = << >>
         /\ a <= b => Sending(a, b) = <<Command(a)>> \o Sending(a + 1, b)
<1> DEFINE N == Len(log)
           W(x) == [j \in 1 .. b + 1 - x |-> Sent[x + j - 1]]
<1>1. N \in Nat /\ DOMAIN log = 1 .. N
  BY DEF LogOK
<1>2. Sent = [i \in 1 .. N |-> Command(i)]
  BY <1>1 DEF Sent
<1>3. \A i \in 1 .. N : Sent[i] = Command(i)
  BY <1>2
<1>4. IsSeq(Sent) /\ Len(Sent) = N
  <2>1. Sent = [i \in 1 .. N |-> Sent[i]]
    BY <1>2, <1>3
  <2> QED
    BY <1>1, <2>1, FunctionIsSeq
<1> HIDE DEF N
<1>5. ASSUME NEW x \in Nat \ {0}
      PROVE  Sending(x, b) = W(x)
  BY <1>1, <1>4 DEF Sending, IsSeq
<1>6. ASSUME NEW x \in Nat \ {0}
      PROVE  /\ IsSeq(Sending(x, b))
             /\ x <= b => Len(Sending(x, b)) = b + 1 - x
             /\ x > b => Sending(x, b) = << >>
  <2> DEFINE w == W(x)
  <2>1. CASE x > b
    <3>1. \A j \in 1 .. b + 1 - x : FALSE
      BY <2>1
    <3>2. w = << >>
      BY <3>1
    <3>3. Sending(x, b) = << >>
      BY <1>5, <3>2
    <3>4. ~(x <= b)
      BY <2>1
    <3>5. IsSeq(<< >>)
      BY OneIsSeq
    <3> QED
      BY <3>3, <3>4, <3>5
  <2>2. CASE ~(x > b)
    <3>1. b + 1 - x \in Nat
      BY <2>2
    <3>2. w = [j \in 1 .. b + 1 - x |-> w[j]]
      OBVIOUS
    <3>3. IsSeq(w) /\ Len(w) = b + 1 - x
      <4> HIDE DEF w
      <4> QED
        BY <3>1, <3>2, FunctionIsSeq
    <3> QED
      BY <1>5, <2>2, <3>3
  <2> QED
    BY <2>1, <2>2
<1>7. ASSUME a <= b PROVE Sending(a, b) = <<Command(a)>> \o Sending(a + 1, b)
  <2> DEFINE h == <<Command(a)>>
             t == Sending(a + 1, b)
             u == Sending(a, b)
             n == b - a
  <2>1. IsSeq(h) /\ Len(h) = 1 /\ h[1] = Command(a)
    BY OneIsSeq
  <2>2. n \in Nat /\ a + 1 \in Nat \ {0} /\ b + 1 - (a + 1) = n /\ b + 1 - a = n + 1
    BY <1>7
  <2>3. IsSeq(t) /\ Len(t) = n
    <3>1. CASE a + 1 <= b
      BY <1>6, <2>2, <3>1
    <3>2. CASE a + 1 > b
      <4>1. n = 0 /\ Len(<< >>) = 0
        BY <1>7, <3>2
      <4> QED
        BY <1>6, <2>2, <3>2, <4>1
    <3> QED
      BY <2>2, <3>1, <3>2
  <2>4. IsSeq(u) /\ Len(u) = n + 1
    BY <1>6, <1>7, <2>2
  <2>5. \A j \in 1 .. n : t[j] = Sent[a + j]
    <3> SUFFICES ASSUME NEW j \in 1 .. n PROVE t[j] = Sent[a + j]
      OBVIOUS
    <3>1. t = W(a + 1)
      BY <1>5, <2>2
    <3>2. j \in 1 .. b + 1 - (a + 1) /\ a + 1 + j - 1 = a + j
      BY <2>2
    <3> HIDE DEF t
    <3>3. t[j] = Sent[a + 1 + j - 1]
      BY <3>1, <3>2
    <3> QED
      BY <3>2, <3>3
  <2>6. \A j \in 1 .. n + 1 : u[j] = Sent[a + j - 1]
    <3> SUFFICES ASSUME NEW j \in 1 .. n + 1 PROVE u[j] = Sent[a + j - 1]
      OBVIOUS
    <3>1. u = W(a)
      BY <1>5
    <3>2. j \in 1 .. b + 1 - a
      BY <2>2
    <3> HIDE DEF u
    <3> QED
      BY <3>1, <3>2
  <2> HIDE DEF h, t, u, n
  <2>7. /\ IsSeq(h \o t) /\ Len(h \o t) = Len(h) + Len(t)
        /\ \A j \in 1 .. Len(h) : (h \o t)[j] = h[j]
        /\ \A j \in 1 .. Len(t) : (h \o t)[Len(h) + j] = t[j]
    <3>1. IsSeq(h) /\ IsSeq(t)
      BY <2>1, <2>3
    <3> QED
      BY <3>1, ConcatFacts
  <2>8. ASSUME NEW j \in 1 .. n + 1 PROVE u[j] = (h \o t)[j]
    <3>1. CASE j = 1
      <4>1. a + j - 1 = a /\ a \in 1 .. N /\ 1 \in 1 .. 1
        BY <1>1, <1>7, <3>1 DEF N
      <4>2. u[j] = Sent[a]
        BY <2>6, <4>1
      <4>3. (h \o t)[1] = Command(a)
        BY <2>1, <2>7, <4>1
      <4> QED
        BY <1>3, <3>1, <4>1, <4>2, <4>3
    <3>2. CASE j # 1
      <4>1. j - 1 \in 1 .. n /\ 1 + (j - 1) = j /\ a + (j - 1) = a + j - 1
        BY <2>2, <3>2
      <4>2. (h \o t)[j] = t[j - 1]
        BY <2>1, <2>3, <2>7, <4>1
      <4>3. t[j - 1] = Sent[a + (j - 1)]
        BY <2>5, <4>1
      <4> QED
        BY <2>6, <4>1, <4>2, <4>3
    <3> QED
      BY <3>1, <3>2
  <2>9. Len(h \o t) = n + 1
    BY <2>1, <2>2, <2>3, <2>7
  <2>10. u = h \o t
    BY <2>4, <2>7, <2>8, <2>9, SeqsEqual
  <2> QED
    BY <2>10 DEF h, t, u
<1> QED
  BY <1>6, <1>7

-----------------------------------------------------------------------------
(* What is read and loaded at each record.                                 *)
At(p) == Decode(File, Reads(File), p)
Read(p, n) == Reads(File)[p][n]
From(p) == Loads(File)[p]

(* The same lemmas, for the file.                                          *)
LEMMA Turns ==
  ASSUME LogOK, NEW p \in 1 .. Len(File) + 1
  PROVE  /\ IsSeq(From(p))
         /\ At(p) = Fails => From(p) = << >>
         /\ \A v, q : At(p) = Value(v, q) =>
              From(p) = (IF Dispatches(v) THEN <<v.items>> ELSE << >>) \o From(q)
         /\ Read(p, 0) = Value(<< >>, p)
         /\ \A n \in Nat \ {0} : At(p) = Fails => Read(p, n) = Fails
         /\ \A n \in Nat \ {0} : \A v, q, w, r :
              At(p) = Value(v, q) /\ Read(q, n - 1) = Value(w, r) => Read(p, n) = Value(<<v>> \o w, r)
<1>1. File \in Seq(Tokens)
  BY FileIs
<1>2. IsSeq(From(p))
  BY <1>1, LoadsSeq DEF From
<1>3. /\ At(p) = Fails => From(p) = << >>
      /\ \A v, q : At(p) = Value(v, q) =>
           From(p) = (IF Dispatches(v) THEN <<v.items>> ELSE << >>) \o From(q)
  BY <1>1, LoadTurns DEF At, From
<1>4. /\ Read(p, 0) = Value(<< >>, p)
      /\ \A n \in Nat \ {0} : At(p) = Fails => Read(p, n) = Fails
  BY <1>1, ReadTurns DEF At, Read
<1>5. \A n \in Nat \ {0} : \A v, q, w, r :
        At(p) = Value(v, q) /\ Read(q, n - 1) = Value(w, r) => Read(p, n) = Value(<<v>> \o w, r)
  BY <1>1, ReadTurns DEF At, Read
<1> QED
  BY <1>2, <1>3, <1>4, <1>5, Zenon

(* A record that begins with its header and a items, and what is behind.   *)
Begins(p, i, a) ==
  /\ p \in Nat \ {0} /\ p + 1 + a <= Len(File) + 1
  /\ \A k \in 0 .. a : File[p + k] = Begun(i, a)[k + 1]

DependsOn(p, i, a, rest) ==
  /\ rest = Fails => At(p) = Fails
  /\ \A w, r : IsSeq(w) /\ rest = Value(w, r) =>
       At(p) = Value([t |-> "array", items |-> Texts(i, 1, a) \o w], r)

LEMMA BegunRead ==
  ASSUME LogOK, NEW i \in DOMAIN log, NEW a \in Nat, a <= log[i].size, NEW p, Begins(p, i, a)
  PROVE  DependsOn(p, i, a, Read(p + 1 + a, log[i].size - a))
<1> DEFINE n == log[i].size
           b == n - a
           x == Read(p + 1, n)
           rest == Read(p + 1 + a, b)
<1>0. /\ p \in Nat \ {0} /\ p + 1 + a <= Len(File) + 1
      /\ \A k \in 0 .. a : File[p + k] = Begun(i, a)[k + 1]
  BY DEF Begins
<1>1. File \in Seq(Tokens) /\ Len(File) \in Nat
  BY FileIs
<1>2. n \in Nat /\ b \in Nat /\ a + b = n
  BY RecordFacts
<1>3. ~(p > Len(File)) /\ p + 1 \in 1 .. Len(File) + 1
  BY <1>0, <1>1
<1>4. File[p] = Header(n)
  <2>1. 0 \in 0 .. a /\ p + 0 = p /\ 0 + 1 = 1
    BY <1>0
  <2>2. File[p + 0] = Begun(i, a)[0 + 1]
    BY <1>0, <2>1
  <2> QED
    BY <2>1, <2>2, BegunIs
<1>5. \A j \in 0 .. a - 1 : File[p + 1 + j] = Bulk(i, 1 + j)
  <2> SUFFICES ASSUME NEW j \in 0 .. a - 1 PROVE File[p + 1 + j] = Bulk(i, 1 + j)
    OBVIOUS
  <2>1. j + 1 \in 1 .. a /\ j + 1 \in 0 .. a /\ p + (j + 1) = p + 1 + j /\ 1 + j = j + 1
    BY <1>0
  <2>2. Begun(i, a)[(j + 1) + 1] = Bulk(i, j + 1)
    BY <2>1, BegunIs
  <2>3. File[p + (j + 1)] = Begun(i, a)[(j + 1) + 1]
    BY <1>0, <2>1
  <2> QED
    BY <2>1, <2>2, <2>3
<1> HIDE DEF n, b
<1>6. /\ rest = Fails => x = Fails
      /\ \A w, r : IsSeq(w) /\ rest = Value(w, r) => x = Value(Texts(i, 1, a) \o w, r)
  <2>1. Bulks(File, p + 1, i, 1, a)
    BY <1>0, <1>3, <1>5 DEF Bulks
  <2>2. 1 \in Nat
    OBVIOUS
  <2>3. ReadsOn(File, p + 1, i, 1, a, b)
    BY <1>1, <1>2, <2>1, <2>2, BulksRead
  <2> QED
    BY <1>2, <2>3 DEF ReadsOn, Read
<1>7. /\ x = Fails => At(p) = Fails
      /\ \A w, r : x = Value(w, r) => At(p) = Value([t |-> "array", items |-> w], r)
  BY <1>3, <1>4, DecodeHeader DEF Read, At
<1> HIDE DEF x, rest
<1>8. DependsOn(p, i, a, rest)
  BY <1>6, <1>7 DEF DependsOn
<1> QED
  BY <1>8 DEF rest, b, n

LEMMA CommandIs ==
  ASSUME LogOK, NEW i \in DOMAIN log
  PROVE  /\ IsSeq(Command(i)) /\ Command(i) = Texts(i, 1, log[i].size)
         /\ Dispatches([t |-> "array", items |-> Command(i)])
<1> DEFINE n == log[i].size
           c == Command(i)
<1>1. n \in Nat /\ n >= 1
  BY RecordFacts
<1> HIDE DEF n
<1>2. c = [k \in 1 .. n |-> Text(<<i, k>>)]
  BY DEF Command, n
<1>3. c = Texts(i, 1, n)
  <2>1. \A k \in 1 .. n : 1 + k - 1 = k
    BY <1>1
  <2> QED
    BY <1>2, <2>1 DEF Texts
<1>4. IsSeq(c) /\ Len(c) = n
  <2>1. c = [k \in 1 .. n |-> c[k]]
    BY <1>2
  <2> HIDE DEF c
  <2> QED
    BY <1>1, <2>1, FunctionIsSeq
<1>5. c # << >> /\ c[1].t = "bulk"
  <2>1. 1 \in 1 .. n
    BY <1>1
  <2>2. c[1] = Text(<<i, 1>>)
    BY <1>2, <2>1
  <2>3. Len(<< >>) = 0
    OBVIOUS
  <2> HIDE DEF c
  <2> QED
    BY <1>1, <1>4, <2>2, <2>3 DEF Text
<1> QED
  BY <1>3, <1>4, <1>5 DEF Dispatches, n

(* A whole record is read as the command that was sent, and loaded.        *)
LEMMA WholeRead ==
  ASSUME LogOK, NEW s, Lies(s), NEW i \in 1 .. Len(log), i \notin Torn
  PROVE  /\ At(s[i]) = Value([t |-> "array", items |-> Command(i)], s[i + 1])
         /\ From(s[i]) = <<Command(i)>> \o From(s[i + 1])
<1> DEFINE n == log[i].size
           p == s[i]
           e == s[i + 1]
<1>0. i \in DOMAIN log /\ i \in 1 .. Len(log) + 1 /\ i + 1 \in 1 .. Len(log) + 1
  BY DEF LogOK
<1>1. n \in Nat
  BY <1>0, RecordFacts
<1>2. Written(i) = Begun(i, n) /\ Len(Begun(i, n)) = n + 1
  BY <1>0, <1>1, WrittenIs, BegunIs
<1>3. /\ p \in 1 .. Len(File) + 1 /\ e \in 1 .. Len(File) + 1
      /\ e = p + (n + 1)
      /\ \A k \in 0 .. n : File[p + k] = Begun(i, n)[k + 1]
  <2>1. /\ p \in 1 .. Len(File) + 1 /\ e \in 1 .. Len(File) + 1
        /\ e = p + Len(Written(i))
        /\ \A k \in 0 .. Len(Written(i)) - 1 : File[p + k] = Written(i)[k + 1]
    BY <1>0 DEF Lies
  <2> HIDE DEF p, e, n
  <2>2. n + 1 - 1 = n
    BY <1>1
  <2>3. Len(Written(i)) = n + 1
    BY <1>2
  <2>4. Len(Written(i)) - 1 = n
    <3> DEFINE m == Len(Written(i))
    <3>1. m = n + 1
      BY <2>3
    <3> HIDE DEF m
    <3>2. m - 1 = n
      BY <1>1, <3>1
    <3> QED
      BY <3>2 DEF m
  <2> QED
    BY <1>2, <2>1, <2>3, <2>4
<1>4. Len(File) \in Nat
  BY FileIs
<1> HIDE DEF n, p, e
<1>5. p \in Nat \ {0} /\ p + 1 + n = e /\ e <= Len(File) + 1 /\ n - n = 0
  BY <1>1, <1>3, <1>4
<1>6. Read(e, 0) = Value(<< >>, e)
  BY <1>3, Turns
<1>7. At(p) = Value([t |-> "array", items |-> Texts(i, 1, n) \o << >>], e)
  <2>1. IsSeq(<< >>)
    BY OneIsSeq
  <2>2. Begins(p, i, n)
    BY <1>3, <1>5 DEF Begins
  <2>3. n <= log[i].size
    BY <1>1 DEF n
  <2>4. DependsOn(p, i, n, Read(p + 1 + n, log[i].size - n))
    BY <1>0, <1>1, <2>2, <2>3, BegunRead
  <2>5. log[i].size - n = 0
    BY <1>5 DEF n
  <2> QED
    BY <1>5, <1>6, <2>1, <2>4, <2>5 DEF DependsOn
<1>8. Texts(i, 1, n) \o << >> = Command(i)
  <2>1. IsSeq(Command(i)) /\ Command(i) = Texts(i, 1, n)
    BY <1>0, CommandIs DEF n
  <2> QED
    BY <2>1, SeqFacts
<1>9. At(p) = Value([t |-> "array", items |-> Command(i)], e)
  BY <1>7, <1>8
<1>10. From(p) = <<Command(i)>> \o From(e)
  <2> DEFINE v == [t |-> "array", items |-> Command(i)]
  <2>1. Dispatches(v) /\ v.items = Command(i)
    BY <1>0, CommandIs
  <2>2. From(p) = (IF Dispatches(v) THEN <<v.items>> ELSE << >>) \o From(e)
    BY <1>3, <1>9, Turns
  <2> HIDE DEF v
  <2> QED
    BY <2>1, <2>2
<1> QED
  BY <1>9, <1>10 DEF p, e

LEMMA LogFacts ==
  ASSUME LogOK, NEW s, Lies(s)
  PROVE  /\ Len(log) \in Nat /\ DOMAIN log = 1 .. Len(log) /\ Len(File) \in Nat
         /\ \A i \in 1 .. Len(log) + 1 : s[i] \in 1 .. Len(File) + 1 /\ IsSeq(From(s[i]))
         /\ s[1] = 1 /\ s[Len(log) + 1] = Len(File) + 1
         /\ From(s[Len(log) + 1]) = << >>
<1>1. Len(log) \in Nat /\ DOMAIN log = 1 .. Len(log)
  BY DEF LogOK
<1>2. Len(File) \in Nat
  BY FileIs
<1>3. \A i \in 1 .. Len(log) + 1 : s[i] \in 1 .. Len(File) + 1
  BY DEF Lies
<1>4. \A i \in 1 .. Len(log) + 1 : IsSeq(From(s[i]))
  BY <1>3, Turns
<1>5. s[1] = 1 /\ s[Len(log) + 1] = Len(File) + 1
  BY DEF Lies
<1>6. At(Len(File) + 1) = Fails
  BY <1>2 DEF At, Decode
<1>7. From(Len(File) + 1) = << >>
  BY <1>2, <1>6, Turns
<1> QED
  BY <1>1, <1>2, <1>3, <1>4, <1>5, <1>7

(* Whole records a to b, one behind the other: all of them are loaded, and *)
(* each is one value.                                                      *)
AllWhole(a, b) ==
  /\ a \in Nat \ {0} /\ b \in Nat /\ b <= Len(log) /\ a <= b + 1
  /\ \A i \in a .. b : i \notin Torn

LEMMA RunLoads ==
  ASSUME LogOK, NEW s, Lies(s), NEW a, NEW b, AllWhole(a, b)
  PROVE  From(s[a]) = Sending(a, b) \o From(s[b + 1])
<1> DEFINE t == From(s[b + 1])
           Good(x) == From(s[x]) = Sending(x, b) \o t
           S == {c \in Nat : c <= b + 1 - a => Good(b + 1 - c)}
<1>0. /\ a \in Nat \ {0} /\ b \in Nat /\ b <= Len(log) /\ a <= b + 1 /\ Len(log) \in Nat
      /\ b + 1 \in 1 .. Len(log) + 1
  BY LogFacts DEF AllWhole
<1>1. Good(b + 1)
  <2>1. Sending(b + 1, b) = << >>
    <3> DEFINE m == b + 1
    <3>1. m \in Nat \ {0} /\ m > b
      BY <1>0
    <3> HIDE DEF m
    <3>2. Sending(m, b) = << >>
      BY <1>0, <3>1, SendingIs
    <3> QED
      BY <3>2 DEF m
  <2>2. IsSeq(t)
    BY <1>0, LogFacts
  <2> HIDE DEF t
  <2>3. << >> \o t = t
    BY <2>2, SeqFacts
  <2> QED
    BY <2>1, <2>3 DEF t
<1>2. ASSUME NEW x \in a .. b, Good(x + 1) PROVE Good(x)
  <2>1. x \in 1 .. Len(log) /\ x \in Nat \ {0} /\ x + 1 \in Nat \ {0} /\ x <= b
    BY <1>0
  <2>2. x \notin Torn
    BY DEF AllWhole
  <2>3. From(s[x]) = <<Command(x)>> \o From(s[x + 1])
    BY <2>1, <2>2, WholeRead
  <2>4. Sending(x, b) = <<Command(x)>> \o Sending(x + 1, b) /\ IsSeq(Sending(x + 1, b))
    BY <1>0, <2>1, SendingIs
  <2>5. IsSeq(<<Command(x)>>) /\ IsSeq(t)
    BY <1>0, OneIsSeq, LogFacts
  <2> DEFINE c == <<Command(x)>>
             u == Sending(x + 1, b)
  <2> HIDE DEF t, c, u
  <2>6. (c \o u) \o t = c \o (u \o t)
    <3>1. IsSeq(c) /\ IsSeq(u) /\ IsSeq(t)
      BY <2>4, <2>5 DEF c, u
    <3> QED
      BY <3>1, ConcatAssociates
  <2>7. From(s[x + 1]) = u \o t
    BY <1>2 DEF u
  <2> QED
    BY <2>3, <2>4, <2>6, <2>7 DEF c, u
<1>3. Good(a)
  <2> HIDE DEF Good
  <2>1. 0 \in S
    <3>1. b + 1 - 0 = b + 1
      BY <1>0
    <3> QED
      BY <1>1, <3>1
  <2>2. ASSUME NEW c \in Nat, c \in S PROVE c + 1 \in S
    <3> SUFFICES ASSUME c + 1 <= b + 1 - a PROVE Good(b + 1 - (c + 1))
      OBVIOUS
    <3> DEFINE x == b + 1 - (c + 1)
    <3>1. x \in a .. b /\ x + 1 = b + 1 - c /\ c <= b + 1 - a
      BY <1>0
    <3>2. Good(b + 1 - c)
      BY <2>2, <3>1
    <3> HIDE DEF x
    <3>3. Good(x)
      BY <1>2, <3>1, <3>2
    <3> QED
      BY <3>3 DEF x
  <2>3. b + 1 - a \in Nat /\ b + 1 - (b + 1 - a) = a
    BY <1>0
  <2>4. b + 1 - a \in S
    <3> HIDE DEF S
    <3> QED
      BY <2>1, <2>2, <2>3, Induction
  <2>5. Good(b + 1 - (b + 1 - a))
    BY <2>3, <2>4
  <2> QED
    BY <2>3, <2>5
<1> QED
  BY <1>3

LEMMA RunReads ==
  ASSUME LogOK, NEW s, Lies(s), NEW a, NEW b, AllWhole(a, b)
  PROVE  \E w : IsSeq(w) /\ Read(s[a], b + 1 - a) = Value(w, s[b + 1])
<1> DEFINE e == s[b + 1]
           Good(x) == \E w : IsSeq(w) /\ Read(s[x], b + 1 - x) = Value(w, e)
           S == {c \in Nat : c <= b + 1 - a => Good(b + 1 - c)}
<1>0. /\ a \in Nat \ {0} /\ b \in Nat /\ b <= Len(log) /\ a <= b + 1 /\ Len(log) \in Nat
      /\ b + 1 \in 1 .. Len(log) + 1
  BY LogFacts DEF AllWhole
<1>1. Good(b + 1)
  <2>1. b + 1 - (b + 1) = 0
    BY <1>0
  <2>2. e \in 1 .. Len(File) + 1
    BY <1>0, LogFacts
  <2>3. Read(e, 0) = Value(<< >>, e) /\ IsSeq(<< >>)
    BY <2>2, Turns, OneIsSeq
  <2> QED
    BY <2>1, <2>3
<1>2. ASSUME NEW x \in a .. b, Good(x + 1) PROVE Good(x)
  <2>1. x \in 1 .. Len(log) /\ x \in 1 .. Len(log) + 1
    BY <1>0
  <2>2. x \notin Torn
    BY DEF AllWhole
  <2> DEFINE v == [t |-> "array", items |-> Command(x)]
             n == b + 1 - x
             p == s[x]
             q == s[x + 1]
  <2>3. At(p) = Value(v, q)
    BY <2>1, <2>2, WholeRead
  <2>4. n \in Nat \ {0} /\ b + 1 - (x + 1) = n - 1
    BY <1>0
  <2>5. p \in 1 .. Len(File) + 1
    BY <2>1, LogFacts
  <2> HIDE DEF v, n, p, q, e
  <2>6. PICK w : IsSeq(w) /\ Read(q, n - 1) = Value(w, e)
    BY <1>2, <2>4 DEF q
  <2>7. Read(p, n) = Value(<<v>> \o w, e)
    BY <2>3, <2>4, <2>5, <2>6, Turns
  <2>8. IsSeq(<<v>> \o w)
    BY <2>6, OneIsSeq, ConcatFacts
  <2> QED
    BY <2>7, <2>8 DEF n, p
<1>3. Good(a)
  <2> HIDE DEF Good
  <2>1. 0 \in S
    <3>1. b + 1 - 0 = b + 1
      BY <1>0
    <3> QED
      BY <1>1, <3>1
  <2>2. ASSUME NEW c \in Nat, c \in S PROVE c + 1 \in S
    <3> SUFFICES ASSUME c + 1 <= b + 1 - a PROVE Good(b + 1 - (c + 1))
      OBVIOUS
    <3> DEFINE x == b + 1 - (c + 1)
    <3>1. x \in a .. b /\ x + 1 = b + 1 - c /\ c <= b + 1 - a
      BY <1>0
    <3>2. Good(b + 1 - c)
      BY <2>2, <3>1
    <3> HIDE DEF x
    <3>3. Good(x)
      BY <1>2, <3>1, <3>2
    <3> QED
      BY <3>3 DEF x
  <2>3. b + 1 - a \in Nat /\ b + 1 - (b + 1 - a) = a
    BY <1>0
  <2>4. b + 1 - a \in S
    <3> HIDE DEF S
    <3> QED
      BY <2>1, <2>2, <2>3, Induction
  <2>5. Good(b + 1 - (b + 1 - a))
    BY <2>3, <2>4
  <2> QED
    BY <2>3, <2>5
<1> QED
  BY <1>3

-----------------------------------------------------------------------------
(* Records that were cut short.                                            *)
LEMMA ScrapFacts ==
  ASSUME NEW scrap \in Scraps
  PROVE  IsSeq(scrap) /\ Len(scrap) \in 0 .. 1 /\ (scrap # << >> => Len(scrap) = 1)
<1>1. CASE scrap = << >>
  <2>1. IsSeq(scrap) /\ Len(scrap) = 0
    BY <1>1, OneIsSeq
  <2> QED
    BY <1>1, <2>1
<1>2. ASSUME NEW x, scrap = <<x>> PROVE IsSeq(scrap) /\ Len(scrap) = 1
  BY <1>2, OneIsSeq
<1>3. scrap = << >> \/ (\E x : scrap = <<x>>)
  BY DEF Scraps
<1>4. ASSUME scrap # << >> PROVE IsSeq(scrap) /\ Len(scrap) = 1
  BY <1>2, <1>3, <1>4
<1> QED
  BY <1>1, <1>4

LEMMA NoneWritten ==
  ASSUME LogOK, NEW i \in DOMAIN log, i \in Torn, log[i].cut.tokens = 0
  PROVE  /\ Written(i) = log[i].cut.scrap /\ log[i].cut.scrap \in {<< >>, <<Line>>}
         /\ log[i].cut.scrap \in Scraps
<1> DEFINE k == log[i].cut.tokens
           n == log[i].size
           scrap == log[i].cut.scrap
<1>1. Written(i) = scrap
  BY WrittenIs
<1>2. (k = 0 /\ scrap \in {<< >>, <<Line>>}) \/ (k \in 1 .. n /\ scrap \in Scraps)
  BY RecordFacts
<1>3. k = 0 /\ n \in Nat
  BY RecordFacts
<1> HIDE DEF k, n, scrap
<1>4. scrap \in {<< >>, <<Line>>}
  BY <1>2, <1>3
<1>5. scrap \in Scraps
  BY <1>4 DEF Scraps
<1> QED
  BY <1>1, <1>4, <1>5 DEF scrap

(* Nothing is read at what is left of one when nothing is behind it.       *)
LEMMA ScrapFails ==
  ASSUME LogOK, NEW scrap \in Scraps, NEW p \in Nat \ {0}, p + Len(scrap) = Len(File) + 1,
         scrap # << >> => File[p] = scrap[1]
  PROVE  At(p) = Fails
<1>0. Len(File) \in Nat
  BY FileIs
<1>1. CASE scrap = << >>
  <2>1. p > Len(File)
    BY <1>0, <1>1
  <2> QED
    BY <2>1 DEF At, Decode
<1>2. CASE scrap # << >>
  <2>1. PICK x : scrap = <<x>> /\ (x = Line \/ (\E g \in Skips : x = Gap(g)))
    BY <1>2 DEF Scraps
  <2>2. Len(scrap) = 1 /\ scrap[1] = x
    BY <2>1, OneIsSeq
  <2>3. File[p] = x /\ p = Len(File) /\ ~(p > Len(File))
    BY <1>0, <1>2, <2>2
  <2>4. CASE x = Line
    <3>1. File[p].t = "line"
      BY <2>3, <2>4, TokenFacts
    <3> QED
      BY <2>3, <3>1, DecodeCases DEF At
  <2>5. ASSUME NEW g \in Skips, x = Gap(g) PROVE At(p) = Fails
    <3>1. File[p].t = "gap" /\ File[p].skip = g
      BY <2>3, <2>5, TokenFacts
    <3>4. ReadGap(File, p) = Fails
      BY <2>3, <3>1 DEF ReadGap
    <3> QED
      BY <2>3, <3>1, <3>4, DecodeCases DEF At
  <2> QED
    BY <2>1, <2>4, <2>5
<1> QED
  BY <1>1, <1>2

(* Of a record cut short the header and the items written lie in the file, *)
(* then the scrap.                                                         *)
LEMMA CutLies ==
  ASSUME LogOK, NEW s, Lies(s), NEW i \in 1 .. Len(log), i \in Torn, log[i].cut.tokens # 0
  PROVE  /\ log[i].cut.tokens \in 1 .. log[i].size /\ log[i].cut.scrap \in Scraps
         /\ Begins(s[i], i, log[i].cut.tokens - 1)
         /\ s[i + 1] = s[i] + log[i].cut.tokens + Len(log[i].cut.scrap)
         /\ log[i].cut.scrap # << >> => File[s[i] + log[i].cut.tokens] = log[i].cut.scrap[1]
<1> DEFINE k == log[i].cut.tokens
           scrap == log[i].cut.scrap
           b == Begun(i, k - 1)
           p == s[i]
           w == Written(i)
<1>0. i \in DOMAIN log /\ i \in 1 .. Len(log) + 1 /\ i + 1 \in 1 .. Len(log) + 1
  BY DEF LogOK
<1>1. k \in 1 .. log[i].size /\ scrap \in Scraps /\ log[i].size \in Nat
  BY <1>0, RecordFacts
<1>2. w = b \o scrap
  BY <1>0, WrittenIs
<1>3. Len(File) \in Nat /\ p \in 1 .. Len(File) + 1 /\ s[i + 1] \in 1 .. Len(File) + 1
  BY <1>0, LogFacts
<1>4. /\ s[i + 1] = p + Len(w)
      /\ \A j \in 0 .. Len(w) - 1 : File[p + j] = w[j + 1]
  BY DEF Lies
<1> HIDE DEF k, scrap, p, w
<1>5. k - 1 \in Nat /\ k \in Nat
  BY <1>1
<1>6. IsSeq(b) /\ Len(b) = k
  <2>1. b \in Seq(Tokens) /\ Len(b) = k - 1 + 1
    BY <1>0, <1>5, BegunIs
  <2>2. k - 1 + 1 = k
    BY <1>5
  <2> QED
    BY <2>1, <2>2 DEF IsSeq
<1>7. IsSeq(scrap) /\ Len(scrap) \in 0 .. 1 /\ (scrap # << >> => Len(scrap) = 1)
  BY <1>1, ScrapFacts
<1> HIDE DEF b
<1>8. /\ Len(w) = k + Len(scrap)
      /\ \A j \in 1 .. k : w[j] = b[j]
      /\ \A j \in 1 .. Len(scrap) : w[k + j] = scrap[j]
  <2>1. IsSeq(b) /\ IsSeq(scrap)
    BY <1>6, <1>7
  <2>2. /\ Len(b \o scrap) = Len(b) + Len(scrap)
        /\ \A j \in 1 .. Len(b) : (b \o scrap)[j] = b[j]
        /\ \A j \in 1 .. Len(scrap) : (b \o scrap)[Len(b) + j] = scrap[j]
    BY <2>1, ConcatFacts
  <2> QED
    BY <1>2, <1>6, <2>2
<1>9. s[i + 1] = p + k + Len(scrap)
  BY <1>3, <1>4, <1>5, <1>7, <1>8
<1>10. ASSUME scrap # << >> PROVE File[p + k] = scrap[1]
  <2>1. k \in 0 .. Len(w) - 1 /\ 1 \in 1 .. Len(scrap)
    BY <1>5, <1>7, <1>8, <1>10
  <2> QED
    BY <1>4, <1>8, <2>1
<1>11. Begins(p, i, k - 1)
  <2>1. p \in Nat \ {0} /\ p + 1 + (k - 1) <= Len(File) + 1
    BY <1>3, <1>5, <1>7, <1>9
  <2>2. ASSUME NEW j \in 0 .. k - 1 PROVE File[p + j] = b[j + 1]
    <3>1. j \in 0 .. Len(w) - 1 /\ j + 1 \in 1 .. k
      BY <1>5, <1>7, <1>8
    <3> QED
      BY <1>4, <1>8, <3>1
  <2> QED
    BY <2>1, <2>2 DEF Begins, b
<1> QED
  BY <1>1, <1>9, <1>10, <1>11 DEF k, scrap, p

(* The last record, cut short: nothing is loaded of it.                    *)
LEMMA LastCutFails ==
  ASSUME LogOK, NEW s, Lies(s), Len(log) \in Torn
  PROVE  From(s[Len(log)]) = << >>
<1> DEFINE N == Len(log)
           k == log[N].cut.tokens
           n == log[N].size
           scrap == log[N].cut.scrap
           p == s[N]
<1>0. N \in DOMAIN log /\ N \in 1 .. N /\ N \in 1 .. N + 1 /\ N + 1 \in 1 .. N + 1
  <2>1. N \in DOMAIN log
    BY DEF Torn
  <2>2. N \in Nat /\ DOMAIN log = 1 .. N
    BY LogFacts
  <2> QED
    BY <2>1, <2>2
<1>0a. N \in Torn
  OBVIOUS
<1>1. Len(File) \in Nat /\ s[N + 1] = Len(File) + 1 /\ p \in 1 .. Len(File) + 1
  BY <1>0, LogFacts
<1>2. At(p) = Fails
  <2>1. CASE k = 0
    <3>1. Written(N) = scrap
      <4> HIDE DEF N
      <4> QED
        BY <1>0, <1>0a, <2>1, NoneWritten
    <3>2. scrap \in Scraps
      <4> HIDE DEF N
      <4> QED
        BY <1>0, <1>0a, <2>1, NoneWritten
    <3>3. /\ s[N + 1] = p + Len(Written(N))
          /\ \A j \in 0 .. Len(Written(N)) - 1 : File[p + j] = Written(N)[j + 1]
      BY <1>0 DEF Lies
    <3>4. p + Len(scrap) = Len(File) + 1
      BY <1>1, <3>1, <3>3
    <3>5. p \in Nat \ {0}
      BY <1>1
    <3> HIDE DEF scrap, p, N
    <3>6. ASSUME scrap # << >> PROVE File[p] = scrap[1]
      <4>1. Len(scrap) = 1
        BY <3>2, <3>6, ScrapFacts
      <4>2. 0 \in 0 .. Len(Written(N)) - 1 /\ p + 0 = p /\ 0 + 1 = 1
        BY <3>1, <3>5, <4>1
      <4>3. File[p + 0] = Written(N)[0 + 1]
        BY <3>3, <4>2
      <4> QED
        BY <3>1, <4>2, <4>3
    <3> QED
      BY <3>2, <3>4, <3>5, <3>6, ScrapFails
  <2>2. CASE k # 0
    <3> DEFINE q == p + k
               m == n - (k - 1)
    <3>1. /\ k \in 1 .. n /\ scrap \in Scraps /\ Begins(p, N, k - 1)
          /\ s[N + 1] = p + k + Len(scrap)
          /\ scrap # << >> => File[p + k] = scrap[1]
      BY <1>0, <2>2, CutLies
    <3>2. n \in Nat
      BY <1>0, RecordFacts
    <3>2a. Len(scrap) \in Nat
      BY <3>1, ScrapFacts
    <3> HIDE DEF scrap, p, k, n, N
    <3>3. q \in Nat \ {0} /\ q + Len(scrap) = Len(File) + 1 /\ q \in 1 .. Len(File) + 1
      BY <1>1, <3>1, <3>2, <3>2a
    <3>4. m \in Nat \ {0} /\ k - 1 \in Nat /\ k - 1 <= n /\ p + 1 + (k - 1) = q
      BY <1>1, <3>1, <3>2
    <3>5. At(q) = Fails
      <4> HIDE DEF q
      <4>1. scrap # << >> => File[q] = scrap[1]
        BY <3>1 DEF q
      <4> QED
        BY <3>1, <3>3, <4>1, ScrapFails
    <3> HIDE DEF q, m
    <3>6. Read(q, m) = Fails
      BY <3>3, <3>4, <3>5, Turns
    <3>7. DependsOn(p, N, k - 1, Read(p + 1 + (k - 1), n - (k - 1)))
      BY <1>0, <3>1, <3>4, BegunRead DEF n
    <3> QED
      BY <3>4, <3>6, <3>7 DEF DependsOn, m
  <2> QED
    BY <2>1, <2>2
<1> QED
  BY <1>1, <1>2, Turns

-----------------------------------------------------------------------------
LEMMA LoadedIs ==
  ASSUME LogOK, NEW s, Lies(s), NEW n \in 0 .. Len(log), Torn \cap (1 .. n) = {}
  PROVE  /\ IsSeq(Sending(1, n)) /\ IsSeq(From(s[n + 1]))
         /\ Loaded = Sending(1, n) \o From(s[n + 1])
<1>1. Len(log) \in Nat /\ s[1] = 1
  BY LogFacts
<1>2. n \in Nat /\ n <= Len(log) /\ n + 1 \in 1 .. Len(log) + 1 /\ 1 <= n + 1 /\ 1 \in Nat \ {0}
  BY <1>1
<1>3. \A i \in 1 .. n : i \notin Torn
  OBVIOUS
<1>4. AllWhole(1, n)
  BY <1>2, <1>3 DEF AllWhole
<1>5. From(s[1]) = Sending(1, n) \o From(s[n + 1])
  BY <1>4, RunLoads
<1>6. IsSeq(Sending(1, n)) /\ IsSeq(From(s[n + 1]))
  BY <1>2, SendingIs, LogFacts
<1>7. Loaded = From(1)
  BY DEF Loaded, From
<1> QED
  BY <1>1, <1>5, <1>6, <1>7

(* Whatever was cut short when, what is loaded begins with the records     *)
(* before the first cut; and the last record cut short costs nothing else  *)
(* (aof.go:38-94, resp.go:30-146).                                         *)
THEOREM CutsLoad == Spec => []CutLoads
<1>1. LogOK => CutLoads
  <2> SUFFICES ASSUME LogOK, NEW n \in 0 .. Len(log), Torn \cap (1 .. n) = {}
               PROVE  /\ IsPrefix(SubSeq(Sent, 1, n), Loaded)
                      /\ Torn = n + 1 .. Len(log) /\ n + 1 >= Len(log) =>
                           Loaded = SubSeq(Sent, 1, n)
    BY DEF CutLoads
  <2>1. PICK s : Lies(s)
    BY FileIs
  <2> DEFINE u == Sending(1, n)
             t == From(s[n + 1])
  <2>2. IsSeq(u) /\ IsSeq(t) /\ Loaded = u \o t
    BY <2>1, LoadedIs
  <2> HIDE DEF u, t
  <2>3. IsPrefix(u, Loaded)
    BY <2>2, FrontIsPrefix
  <2>4. ASSUME Torn = n + 1 .. Len(log), n + 1 >= Len(log) PROVE Loaded = u
    <3>1. Len(log) \in Nat /\ From(s[Len(log) + 1]) = << >>
      BY <2>1, LogFacts
    <3>2. t = << >>
      <4>1. CASE n = Len(log)
        BY <3>1, <4>1 DEF t
      <4>2. CASE n # Len(log)
        <5>1. n + 1 = Len(log) /\ Len(log) \in n + 1 .. Len(log)
          BY <2>4, <3>1, <4>2
        <5>2. Len(log) \in Torn
          BY <2>4, <5>1
        <5> QED
          BY <2>1, <5>1, <5>2, LastCutFails DEF t
      <4> QED
        BY <4>1, <4>2
    <3> QED
      BY <2>2, <3>2, SeqFacts
  <2> QED
    BY <2>3, <2>4 DEF u, Sending
<1> QED
  BY <1>1, LogAlways, PTL

(* A write that ended between two items takes as many records behind it as *)
(* items are missing; what is loaded ends with all the others, in order    *)
(* (aof.go:73-91, resp.go:116-138).                                        *)
THEOREM LossIsBounded == Spec => []LossBounded
<1>1. LogOK => LossBounded
  <2> SUFFICES ASSUME LogOK, NEW i \in Torn, Torn = {i}, log[i].cut.scrap = << >>
               PROVE  LET missing == IF log[i].cut.tokens = 0 THEN 0
                                     ELSE log[i].size + 1 - log[i].cut.tokens
                      IN  IsSuffix(SubSeq(Sent, i + missing + 1, Len(log)), Loaded)
    BY DEF LossBounded
  <2> DEFINE k == log[i].cut.tokens
             n == log[i].size
             N == Len(log)
             missing == IF k = 0 THEN 0 ELSE n + 1 - k
             x == i + missing + 1
  <2>1. PICK s : Lies(s)
    BY FileIs
  <2>2. i \in DOMAIN log /\ i \in 1 .. N /\ i \in Nat /\ N \in Nat
    <3>1. i \in DOMAIN log
      BY DEF Torn
    <3>2. N \in Nat /\ DOMAIN log = 1 .. N
      BY <2>1, LogFacts
    <3> QED
      BY <3>1, <3>2
  <2>3. n \in Nat /\ (k # 0 => k \in 1 .. n /\ Begins(s[i], i, k - 1))
    BY <2>1, <2>2, RecordFacts, CutLies
  <2>3a. s[i + 1] = s[i] + k
    <3>1. Len(<< >>) = 0
      OBVIOUS
    <3>2. s[i] \in Nat
      BY <2>1, <2>2, LogFacts
    <3>3. CASE k = 0
      <4>1. Written(i) = << >>
        BY <2>2, <3>3, NoneWritten
      <4>2. s[i + 1] = s[i] + Len(Written(i))
        BY <2>1, <2>2 DEF Lies
      <4> HIDE DEF k
      <4> QED
        BY <3>1, <3>2, <3>3, <4>1, <4>2
    <3>4. CASE k # 0
      <4>1. s[i + 1] = s[i] + k + Len(<< >>)
        BY <2>1, <2>2, <3>4, CutLies
      <4> HIDE DEF k
      <4> QED
        BY <2>3, <3>1, <3>2, <3>4, <4>1
    <3> QED
      BY <3>3, <3>4
  <2>4. missing \in Nat /\ x \in Nat \ {0} /\ i + 1 <= x /\ i + 1 \in Nat \ {0}
    <3> HIDE DEF k, n, N
    <3> QED
      BY <2>2, <2>3
  <2>5. \A j \in 1 .. N : j # i => j \notin Torn
    OBVIOUS
  <2> DEFINE h == Sending(1, i - 1)
             t == Sending(x, N)
  <2>6. IsSeq(h) /\ IsSeq(From(s[i])) /\ Loaded = h \o From(s[i])
    <3>1. i - 1 \in 0 .. N /\ i - 1 + 1 = i
      BY <2>2
    <3>2. Torn \cap (1 .. i - 1) = {}
      BY <2>2
    <3> DEFINE m == i - 1
    <3> HIDE DEF m
    <3>3. m \in 0 .. Len(log) /\ Torn \cap (1 .. m) = {} /\ m + 1 = i
      BY <3>1, <3>2 DEF m
    <3>4. /\ IsSeq(Sending(1, m)) /\ IsSeq(From(s[m + 1]))
          /\ Loaded = Sending(1, m) \o From(s[m + 1])
      BY <2>1, <3>3, LoadedIs
    <3> QED
      BY <3>3, <3>4 DEF m
  <2>7. IsSeq(t) /\ (x > N => t = << >>)
    <3> HIDE DEF x
    <3>1. N \in Nat /\ N <= Len(log)
      BY <2>2
    <3> QED
      BY <2>4, <3>1, SendingIs
  <2>8. CASE x > N
    <3>1. IsSeq(Loaded)
      BY <2>6, ConcatFacts
    <3>2. Loaded \o << >> = Loaded
      BY <3>1, SeqFacts
    <3>3. IsSuffix(<< >>, Loaded)
      BY <3>1, <3>2, OneIsSeq, BackIsSuffix
    <3> HIDE DEF t
    <3>4. t = << >>
      BY <2>7, <2>8
    <3> QED
      BY <3>3, <3>4 DEF t, Sending
  <2>9. CASE ~(x > N)
    <3>0. x \in 1 .. N + 1 /\ x <= N /\ x - 1 \in Nat /\ x - 1 <= N /\ i + 1 <= x - 1 + 1 /\ x - 1 + 1 = x
      BY <2>2, <2>4, <2>9
    <3>1. From(s[x]) = t
      <4>1. AllWhole(x, N)
        <5>1. \A j \in x .. N : j \in 1 .. N /\ j # i
          BY <2>2, <2>4
        <5> HIDE DEF x
        <5> QED
          BY <2>2, <2>4, <2>5, <3>0, <5>1 DEF AllWhole
      <4> HIDE DEF x
      <4>2. From(s[x]) = Sending(x, N) \o From(s[N + 1])
        BY <2>1, <4>1, RunLoads
      <4>3. From(s[N + 1]) = << >>
        BY <2>1, LogFacts
      <4> QED
        BY <2>7, <4>2, <4>3, SeqFacts
    <3>2. \E u : IsSeq(u) /\ From(s[i]) = u \o From(s[x])
      <4>1. CASE k = 0
        <5>1. x = i + 1 /\ s[i + 1] = s[i]
          <6>1. s[i] \in Nat
            BY <2>1, <2>2, LogFacts
          <6> HIDE DEF k
          <6> QED
            BY <2>2, <2>3a, <4>1, <6>1
        <5>2. From(s[i]) = << >> \o From(s[x])
          BY <2>6, <5>1, SeqFacts
        <5> QED
          BY <5>2, OneIsSeq
      <4>2. CASE k # 0
        <5> DEFINE p == s[i]
                   q == s[x]
                   m == n - (k - 1)
                   y == x - 1
        <5>1. p \in 1 .. Len(File) + 1 /\ Len(File) \in Nat
          BY <2>1, <2>2, LogFacts
        <5>2. AllWhole(i + 1, y) /\ y + 1 = x /\ y + 1 - (i + 1) = m
          <6>1. y + 1 = x /\ y + 1 - (i + 1) = m /\ y \in Nat /\ y <= N /\ i + 1 <= y + 1
            <7>1. x = i + (n + 1 - k) + 1
              BY <4>2
            <7>2. k \in 1 .. n /\ n \in Nat
              BY <2>3, <4>2
            <7> HIDE DEF k, n, N, x
            <7> QED
              BY <2>2, <3>0, <7>1, <7>2
          <6>2. \A j \in i + 1 .. y : j \in 1 .. N /\ j # i
            <7> HIDE DEF y
            <7> QED
              BY <2>2, <6>1
          <6> HIDE DEF y, m
          <6> QED
            BY <2>4, <2>5, <6>1, <6>2 DEF AllWhole
        <5>3. PICK w : IsSeq(w) /\ Read(s[i + 1], m) = Value(w, q)
          <6> HIDE DEF y, m, x
          <6>1. \E w : IsSeq(w) /\ Read(s[i + 1], y + 1 - (i + 1)) = Value(w, s[y + 1])
            BY <2>1, <5>2, RunReads
          <6> QED
            BY <5>2, <6>1
        <5>4. p + 1 + (k - 1) = s[i + 1] /\ k - 1 \in Nat /\ k - 1 <= n
          <6> HIDE DEF p, k, n
          <6> QED
            BY <2>3, <2>3a, <4>2, <5>1 DEF p
        <5>5. DependsOn(p, i, k - 1, Read(p + 1 + (k - 1), n - (k - 1)))
          BY <2>2, <2>3, <4>2, <5>4, BegunRead
        <5> DEFINE v == [t |-> "array", items |-> Texts(i, 1, k - 1) \o w]
        <5> HIDE DEF p, q, m, y, k, n, x
        <5>6. At(p) = Value(v, q)
          BY <5>3, <5>4, <5>5 DEF DependsOn, m
        <5> HIDE DEF v
        <5>7. From(p) = (IF Dispatches(v) THEN <<v.items>> ELSE << >>) \o From(q)
          BY <5>1, <5>6, Turns
        <5>8. IsSeq(IF Dispatches(v) THEN <<v.items>> ELSE << >>)
          BY OneIsSeq
        <5> QED
          BY <5>7, <5>8 DEF p, q
      <4> QED
        BY <4>1, <4>2
    <3>3. PICK u : IsSeq(u) /\ From(s[i]) = u \o t
      BY <3>1, <3>2
    <3> HIDE DEF h, t
    <3>4. Loaded = (h \o u) \o t
      <4>1. IsSeq(h) /\ IsSeq(u) /\ IsSeq(t)
        BY <2>6, <2>7, <3>3
      <4>2. (h \o u) \o t = h \o (u \o t)
        BY <4>1, ConcatAssociates
      <4> QED
        BY <2>6, <3>3, <4>2
    <3>5. IsSeq(h \o u)
      BY <2>6, <3>3, ConcatFacts
    <3>6. IsSuffix(t, Loaded)
      BY <2>7, <3>4, <3>5, BackIsSuffix
    <3> QED
      BY <3>6 DEF t, Sending
  <2> QED
    BY <2>8, <2>9
<1> QED
  BY <1>1, LogAlways, PTL
=============================================================================

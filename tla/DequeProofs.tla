---------------------------- MODULE DequeProofs ----------------------------
(***************************************************************************)
(* Theorems about Deque, for every element set, initial capacity and bound *)
(* on the size: the type invariant and the coherence of the ring, where a  *)
(* panic can come from, and that the ring implements AbstractDeque.        *)
(***************************************************************************)
EXTENDS Deque, TLAPS, SequenceTheorems, FunctionTheorems

-----------------------------------------------------------------------------
(* Indices are reduced modulo the capacity from at most one turn away.     *)
LEMMA ModInRange ==
  ASSUME NEW c \in Nat \ {0}, NEW a \in 0 .. c - 1
  PROVE  a % c = a
  OBVIOUS

LEMMA ModOneTurn ==
  ASSUME NEW c \in Nat \ {0}, NEW a \in c .. 2 * c - 1
  PROVE  a % c = a - c
  OBVIOUS

(* The index arithmetic of a ring, without the modulus.                    *)
LEMMA RingIndices ==
  ASSUME NEW d, IsRing(d)
  PROVE  /\ \A i \in 0 .. d.capacity - 1 :
              Slot(d, i) = d.items[IF d.head + i < d.capacity
                                   THEN d.head + i ELSE d.head + i - d.capacity]
         /\ ShiftLeft(d, d.head) =
              IF d.head = 0 THEN d.capacity - 1 ELSE d.head - 1
         /\ ShiftLeft(d, d.tail) =
              IF d.tail = 0 THEN d.capacity - 1 ELSE d.tail - 1
         /\ ShiftRight(d, d.head) =
              IF d.head = d.capacity - 1 THEN 0 ELSE d.head + 1
         /\ d.tail < d.capacity =>
              ShiftRight(d, d.tail) =
                IF d.tail = d.capacity - 1 THEN 0 ELSE d.tail + 1
<1> DEFINE c == d.capacity
<1>0. /\ c \in Nat \ {0}
      /\ d.head \in 0 .. c - 1
      /\ d.tail \in 0 .. c
  BY DEF IsRing
<1>1. ASSUME NEW i \in 0 .. c - 1
      PROVE  (d.head + i) % c = IF d.head + i < c THEN d.head + i
                                ELSE d.head + i - c
  <2>1. CASE d.head + i < c
    <3>1. d.head + i \in 0 .. c - 1
      BY <1>0, <2>1
    <3> QED
      BY <1>0, <2>1, <3>1, ModInRange
  <2>2. CASE ~(d.head + i < c)
    <3>1. d.head + i \in c .. 2 * c - 1
      BY <1>0, <2>2
    <3> QED
      BY <1>0, <2>2, <3>1, ModOneTurn
  <2> QED
    BY <2>1, <2>2
<1>2. ASSUME NEW p \in 0 .. c
      PROVE  (p - 1 + c) % c = IF p = 0 THEN c - 1 ELSE p - 1
  <2>1. CASE p = 0
    <3>1. p - 1 + c \in 0 .. c - 1
      BY <1>0, <2>1
    <3> QED
      BY <1>0, <2>1, <3>1, ModInRange
  <2>2. CASE p # 0
    <3>1. p - 1 + c \in c .. 2 * c - 1
      BY <1>0, <2>2
    <3> QED
      BY <1>0, <2>2, <3>1, ModOneTurn
  <2> QED
    BY <2>1, <2>2
<1>3. ASSUME NEW p \in 0 .. c - 1
      PROVE  (p + 1) % c = IF p = c - 1 THEN 0 ELSE p + 1
  <2>1. CASE p = c - 1
    <3>1. p + 1 \in c .. 2 * c - 1
      BY <1>0, <2>1
    <3> QED
      BY <1>0, <2>1, <3>1, ModOneTurn
  <2>2. CASE p # c - 1
    <3>1. p + 1 \in 0 .. c - 1
      BY <1>0, <2>2
    <3> QED
      BY <1>0, <2>2, <3>1, ModInRange
  <2> QED
    BY <2>1, <2>2
<1>4. d.tail < c => d.tail \in 0 .. c - 1
  BY <1>0
<1>5. d.head \in 0 .. c
  BY <1>0
<1> QED
  BY <1>0, <1>1, <1>2, <1>3, <1>4, <1>5 DEF Slot, ShiftLeft, ShiftRight

LEMMA SlotAt ==
  ASSUME NEW d, IsRing(d), NEW i \in Int, NEW k \in 0 .. d.capacity - 1,
         i >= 0, i < d.capacity,
         k = d.head + i \/ k = d.head + i - d.capacity
  PROVE  Slot(d, i) = d.items[k]
<1>1. d.capacity \in Nat /\ d.head \in Nat
  BY DEF IsRing
<1>2. i \in 0 .. d.capacity - 1
  BY <1>1
<1>3. CASE k = d.head + i
  <2>1. d.head + i < d.capacity
    BY <1>1, <1>3
  <2> QED
    BY <1>2, <1>3, <2>1, RingIndices
<1>4. CASE k = d.head + i - d.capacity
  <2>1. ~(d.head + i < d.capacity)
    BY <1>1, <1>4
  <2> QED
    BY <1>2, <1>4, <2>1, RingIndices
<1> QED
  BY <1>3, <1>4

-----------------------------------------------------------------------------
(* What each operator does to a ring and to its contents.                  *)
Good(d) == IsRing(d) /\ Coherent(d)

LEMMA ContentsSeq ==
  ASSUME NEW d, Good(d)
  PROVE  /\ Contents(d) \in Seq(Value)
         /\ Len(Contents(d)) = d.size
         /\ \A i \in 1 .. d.size : Contents(d)[i] = Slot(d, i - 1)
<1>1. d.size \in Nat /\ \A i \in 1 .. d.size : Slot(d, i - 1) \in Value
  BY DEF Good, IsRing, Coherent
<1>2. Contents(d) = [i \in 1 .. d.size |-> Slot(d, i - 1)]
  BY DEF Contents
<1>3. Contents(d) \in [1 .. d.size -> Value]
  BY <1>1, <1>2
<1> QED
  BY <1>1, <1>2, <1>3

LEMMA NewDequeGood == Good(NewDeque) /\ Contents(NewDeque) = << >>
<1>1. /\ NewDeque.capacity = InitialCapacity
      /\ NewDeque.head = 0 /\ NewDeque.tail = 0 /\ NewDeque.size = 0
      /\ NewDeque.items = [i \in 0 .. InitialCapacity - 1 |-> NoItem]
      /\ DOMAIN NewDeque = {"items", "head", "tail", "size", "capacity"}
  BY DEF NewDeque
<1>2. IsRing(NewDeque)
  BY <1>1, CapacityAssumption DEF IsRing
<1>3. Coherent(NewDeque)
  BY <1>1, CapacityAssumption DEF Coherent
<1>4. Contents(NewDeque) = << >>
  BY <1>1 DEF Contents
<1> QED
  BY <1>2, <1>3, <1>4 DEF Good

LEMMA ResizedGood ==
  ASSUME NEW d, Good(d), d.size = d.capacity
  PROVE  /\ Good(Resized(d))
         /\ Contents(Resized(d)) = Contents(d)
         /\ Resized(d).size = d.size
         /\ Resized(d).size < Resized(d).capacity
         /\ Resized(d).tail < Resized(d).capacity
<1> DEFINE r == Resized(d)
<1>0. /\ d.capacity \in Nat \ {0}
      /\ d.items \in [0 .. d.capacity - 1 -> Value \cup {NoItem}]
      /\ \A i \in 0 .. d.size - 1 : Slot(d, i) \in Value
  BY DEF Good, IsRing, Coherent
<1>1. /\ r.capacity = 2 * d.capacity
      /\ r.head = 0 /\ r.tail = d.size /\ r.size = d.size
      /\ r.items = [i \in 0 .. 2 * d.capacity - 1 |->
                      IF i < d.size THEN Slot(d, i) ELSE NoItem]
      /\ DOMAIN r = {"items", "head", "tail", "size", "capacity"}
  BY DEF Resized
<1>2. r.items \in [0 .. r.capacity - 1 -> Value \cup {NoItem}]
  BY <1>0, <1>1
<1>3. IsRing(r)
  BY <1>0, <1>1, <1>2 DEF IsRing
<1>4. \A i \in 0 .. d.size - 1 : Slot(r, i) = Slot(d, i)
  <2>1. ASSUME NEW i \in 0 .. d.size - 1 PROVE Slot(r, i) = Slot(d, i)
    <3>1. Slot(r, i) = r.items[i]
      BY <1>0, <1>1, <1>3, RingIndices
    <3> QED
      BY <1>0, <1>1, <3>1
  <2> QED
    BY <2>1
<1>5. Coherent(r)
  BY <1>0, <1>1, <1>4 DEF Coherent
<1>6. Contents(r) = Contents(d)
  BY <1>0, <1>1, <1>4 DEF Contents
<1> QED
  BY <1>0, <1>1, <1>3, <1>5, <1>6 DEF Good

LEMMA WithRoomGood ==
  ASSUME NEW d, Good(d)
  PROVE  /\ Good(WithRoom(d))
         /\ Contents(WithRoom(d)) = Contents(d)
         /\ WithRoom(d).size = d.size
         /\ WithRoom(d).size < WithRoom(d).capacity
         /\ \/ WithRoom(d) = d
            \/ WithRoom(d).tail < WithRoom(d).capacity
<1>1. CASE d.size = d.capacity
  BY <1>1, ResizedGood DEF WithRoom
<1>2. CASE d.size # d.capacity
  BY <1>2 DEF WithRoom, Good, IsRing
<1> QED
  BY <1>1, <1>2

LEMMA PushedFrontGood ==
  ASSUME NEW d, Good(d), NEW v \in Value
  PROVE  /\ Good(PushedFront(d, v))
         /\ Contents(PushedFront(d, v)) = <<v>> \o Contents(d)
         /\ \/ PushedFront(d, v).tail < PushedFront(d, v).capacity
            \/ PushedFront(d, v).tail = d.tail
<1> DEFINE r == WithRoom(d)
           h == ShiftLeft(r, r.head)
           q == PushedFront(d, v)
<1>0. /\ Good(r) /\ Contents(r) = Contents(d) /\ r.size = d.size
      /\ r.size < r.capacity
      /\ r = d \/ r.tail < r.capacity
  BY WithRoomGood
<1>a. /\ r.capacity \in Nat \ {0}
      /\ r.items \in [0 .. r.capacity - 1 -> Value \cup {NoItem}]
      /\ r.head \in 0 .. r.capacity - 1
      /\ r.tail \in 0 .. r.capacity
      /\ r.size \in 0 .. r.capacity
      /\ DOMAIN r = {"items", "head", "tail", "size", "capacity"}
      /\ IsRing(r)
  BY <1>0 DEF Good, IsRing
<1>b. /\ \/ r.tail = r.head + r.size - r.capacity
         \/ r.tail = r.head + r.size
         \/ r.tail = r.head + r.size + r.capacity
      /\ \A i \in 0 .. r.size - 1 : Slot(r, i) \in Value
  BY <1>0 DEF Good, Coherent
<1>h. /\ h = IF r.head = 0 THEN r.capacity - 1 ELSE r.head - 1
      /\ h \in 0 .. r.capacity - 1
  BY <1>a, RingIndices
<1>1. /\ q.items = [r.items EXCEPT ![h] = v]
      /\ q.head = h /\ q.tail = r.tail /\ q.size = r.size + 1
      /\ q.capacity = r.capacity
      /\ DOMAIN q = {"items", "head", "tail", "size", "capacity"}
  BY <1>a DEF PushedFront
<1> HIDE DEF r, h, q
<1>c. /\ r.capacity \in Nat /\ r.head \in Nat /\ r.tail \in Nat /\ r.size \in Nat
      /\ r.head < r.capacity /\ r.size < r.capacity /\ r.tail <= r.capacity
      /\ h \in Nat
      /\ \/ r.head = 0 /\ h = r.capacity - 1
         \/ r.head > 0 /\ h = r.head - 1
      /\ q.head = h /\ q.tail = r.tail /\ q.size = r.size + 1
      /\ q.capacity = r.capacity
  BY <1>0, <1>a, <1>h, <1>1
<1>2. IsRing(q)
  BY <1>0, <1>a, <1>h, <1>1 DEF IsRing
<1>3. Slot(q, 0) = v
  <2>1. Slot(q, 0) = q.items[h]
    BY <1>c, <1>2, SlotAt
  <2> QED
    BY <2>1, <1>1, <1>a, <1>c
<1>4. \A i \in 1 .. q.size - 1 : Slot(q, i) = Slot(r, i - 1)
  <2>1. ASSUME NEW i \in 1 .. q.size - 1 PROVE Slot(q, i) = Slot(r, i - 1)
    <3>1. PICK k \in 0 .. r.capacity - 1 :
             /\ k # h
             /\ k = h + i \/ k = h + i - r.capacity
             /\ k = r.head + (i - 1) \/ k = r.head + (i - 1) - r.capacity
      BY <1>c
    <3>2. Slot(q, i) = q.items[k]
      BY <3>1, <1>c, <1>2, SlotAt
    <3>3. Slot(r, i - 1) = r.items[k]
      <4>1. i - 1 \in Int /\ i - 1 >= 0 /\ i - 1 < r.capacity
        BY <1>c
      <4> QED
        BY <3>1, <4>1, <1>a, SlotAt
    <3> QED
      BY <1>a, <1>1, <3>1, <3>2, <3>3
  <2> QED
    BY <2>1
<1>5. \A i \in 0 .. q.size - 1 : Slot(q, i) \in Value
  <2>1. ASSUME NEW i \in 0 .. q.size - 1 PROVE Slot(q, i) \in Value
    <3>1. CASE i = 0
      BY <3>1, <1>3
    <3>2. CASE i # 0
      <4>1. i \in 1 .. q.size - 1 /\ i - 1 \in 0 .. r.size - 1
        BY <3>2, <1>a, <1>1
      <4> QED
        BY <4>1, <1>4, <1>b
    <3> QED
      BY <3>1, <3>2
  <2> QED
    BY <2>1
<1>6. \/ q.tail = q.head + q.size - q.capacity
      \/ q.tail = q.head + q.size
      \/ q.tail = q.head + q.size + q.capacity
  BY <1>b, <1>c
<1>7. Contents(q) = <<v>> \o Contents(d)
  <2>1. /\ Contents(q) \in Seq(Value) /\ Len(Contents(q)) = r.size + 1
        /\ \A i \in 1 .. r.size + 1 : Contents(q)[i] = Slot(q, i - 1)
    BY <1>1, <1>2, <1>5, <1>6, ContentsSeq DEF Good, Coherent
  <2>2. /\ Contents(r) \in Seq(Value) /\ Len(Contents(r)) = r.size
        /\ \A i \in 1 .. r.size : Contents(r)[i] = Slot(r, i - 1)
    BY <1>0, ContentsSeq
  <2>3. /\ <<v>> \o Contents(r) \in Seq(Value)
        /\ Len(<<v>> \o Contents(r)) = r.size + 1
        /\ \A i \in 1 .. r.size + 1 :
             (<<v>> \o Contents(r))[i] = IF i <= 1 THEN <<v>>[i]
                                         ELSE Contents(r)[i - 1]
    <3>1. <<v>> \in Seq(Value) /\ Len(<<v>>) = 1
      OBVIOUS
    <3>2. Len(<<v>>) + Len(Contents(r)) = r.size + 1
      BY <3>1, <2>2, <1>a
    <3> QED
      BY <3>1, <3>2, <2>2, ConcatProperties
  <2>4. ASSUME NEW i \in 1 .. r.size + 1
        PROVE  Contents(q)[i] = (<<v>> \o Contents(r))[i]
    <3>1. CASE i = 1
      BY <3>1, <2>1, <2>3, <1>3, <1>a
    <3>2. CASE i # 1
      <4>1. i - 1 \in 1 .. q.size - 1 /\ i - 1 \in 1 .. r.size
        BY <3>2, <1>1, <1>a
      <4>2. Slot(q, i - 1) = Slot(r, (i - 1) - 1)
        BY <4>1, <1>4
      <4> QED
        BY <4>1, <4>2, <3>2, <2>1, <2>2, <2>3
    <3> QED
      BY <3>1, <3>2
  <2>5. Contents(q) = <<v>> \o Contents(r)
    BY <2>1, <2>3, <2>4, SeqEqual
  <2> QED
    BY <2>5, <1>0
<1> QED
  <2>1. Good(q)
    BY <1>2, <1>5, <1>6 DEF Good, Coherent
  <2>2. q.tail < q.capacity \/ q.tail = d.tail
    BY <1>0, <1>1 
  <2> QED
    BY <2>1, <2>2, <1>7 DEF q

LEMMA PushedBackGood ==
  ASSUME NEW d, Good(d), ~PushBackPanics(d), NEW v \in Value
  PROVE  /\ Good(PushedBack(d, v))
         /\ Contents(PushedBack(d, v)) = Append(Contents(d), v)
         /\ PushedBack(d, v).tail < PushedBack(d, v).capacity
<1> DEFINE r == WithRoom(d)
           q == PushedBack(d, v)
<1>0. /\ Good(r) /\ Contents(r) = Contents(d)
      /\ r.size < r.capacity
  BY WithRoomGood
<1>a. /\ r.items \in [0 .. r.capacity - 1 -> Value \cup {NoItem}]
      /\ DOMAIN r = {"items", "head", "tail", "size", "capacity"}
      /\ IsRing(r)
      /\ \A i \in 0 .. r.size - 1 : Slot(r, i) \in Value
  BY <1>0 DEF Good, IsRing, Coherent
<1>b. /\ \/ r.tail = r.head + r.size - r.capacity
         \/ r.tail = r.head + r.size
         \/ r.tail = r.head + r.size + r.capacity
  BY <1>0 DEF Good, Coherent
<1>t. r.tail < r.capacity
  BY <1>0 DEF PushBackPanics, Good, IsRing
<1>1. /\ q.items = [r.items EXCEPT ![r.tail] = v]
      /\ q.head = r.head /\ q.tail = ShiftRight(r, r.tail)
      /\ q.size = r.size + 1 /\ q.capacity = r.capacity
      /\ DOMAIN q = {"items", "head", "tail", "size", "capacity"}
  BY <1>a DEF PushedBack
<1> HIDE DEF r, q
<1>c. /\ r.capacity \in Nat /\ r.head \in Nat /\ r.tail \in Nat /\ r.size \in Nat
      /\ r.capacity > 0
      /\ r.head < r.capacity /\ r.size < r.capacity /\ r.tail < r.capacity
      /\ q.tail \in Nat
      /\ \/ r.tail = r.capacity - 1 /\ q.tail = 0
         \/ r.tail < r.capacity - 1 /\ q.tail = r.tail + 1
      /\ q.head = r.head /\ q.size = r.size + 1 /\ q.capacity = r.capacity
  <2>1. /\ r.capacity \in Nat \ {0} /\ r.head \in 0 .. r.capacity - 1
        /\ r.tail \in 0 .. r.capacity /\ r.size \in 0 .. r.capacity
    BY <1>a DEF IsRing
  <2>2. q.tail = IF r.tail = r.capacity - 1 THEN 0 ELSE r.tail + 1
    BY <1>a, <1>t, <1>1, RingIndices
  <2> QED
    BY <1>0, <1>1, <1>t, <2>1, <2>2
<1>2. IsRing(q)
  <2>1. q.items \in [0 .. q.capacity - 1 -> Value \cup {NoItem}]
    BY <1>a, <1>c, <1>1
  <2> QED
    BY <2>1, <1>1, <1>c DEF IsRing
<1>3. Slot(q, r.size) = v
  <2>1. Slot(q, r.size) = q.items[r.tail]
    BY <1>b, <1>c, <1>2, SlotAt
  <2> QED
    BY <2>1, <1>1, <1>a, <1>c
<1>4. \A i \in 0 .. r.size - 1 : Slot(q, i) = Slot(r, i)
  <2>1. ASSUME NEW i \in 0 .. r.size - 1 PROVE Slot(q, i) = Slot(r, i)
    <3>1. PICK k \in 0 .. r.capacity - 1 :
             /\ k # r.tail
             /\ k = r.head + i \/ k = r.head + i - r.capacity
      BY <1>b, <1>c
    <3>2. Slot(q, i) = q.items[k]
      BY <3>1, <1>c, <1>2, SlotAt
    <3>3. Slot(r, i) = r.items[k]
      BY <3>1, <1>c, <1>a, SlotAt
    <3> QED
      BY <1>a, <1>1, <3>1, <3>2, <3>3
  <2> QED
    BY <2>1
<1>5. \A i \in 0 .. q.size - 1 : Slot(q, i) \in Value
  <2>1. ASSUME NEW i \in 0 .. q.size - 1 PROVE Slot(q, i) \in Value
    <3>1. CASE i = r.size
      BY <3>1, <1>3
    <3>2. CASE i # r.size
      <4>1. i \in 0 .. r.size - 1
        BY <3>2, <1>c
      <4> QED
        BY <4>1, <1>4, <1>a
    <3> QED
      BY <3>1, <3>2
  <2> QED
    BY <2>1
<1>6. \/ q.tail = q.head + q.size - q.capacity
      \/ q.tail = q.head + q.size
      \/ q.tail = q.head + q.size + q.capacity
  BY <1>b, <1>c
<1>g. Good(q)
  BY <1>2, <1>5, <1>6 DEF Good, Coherent
<1>7. Contents(q) = Append(Contents(d), v)
  <2>1. /\ Contents(q) \in Seq(Value) /\ Len(Contents(q)) = r.size + 1
        /\ \A i \in 1 .. r.size + 1 : Contents(q)[i] = Slot(q, i - 1)
    BY <1>c, <1>g, ContentsSeq
  <2>2. /\ Contents(r) \in Seq(Value) /\ Len(Contents(r)) = r.size
        /\ \A i \in 1 .. r.size : Contents(r)[i] = Slot(r, i - 1)
    BY <1>0, ContentsSeq
  <2>3. /\ Append(Contents(r), v) \in Seq(Value)
        /\ Len(Append(Contents(r), v)) = r.size + 1
        /\ \A i \in 1 .. r.size : Append(Contents(r), v)[i] = Contents(r)[i]
        /\ Append(Contents(r), v)[r.size + 1] = v
    BY <2>2, AppendProperties
  <2>4. ASSUME NEW i \in 1 .. r.size + 1
        PROVE  Contents(q)[i] = Append(Contents(r), v)[i]
    <3>1. CASE i = r.size + 1
      <4>1. i - 1 = r.size
        BY <3>1, <1>c
      <4> QED
        BY <3>1, <4>1, <2>1, <2>3, <1>3
    <3>2. CASE i # r.size + 1
      <4>1. i \in 1 .. r.size /\ i - 1 \in 0 .. r.size - 1
        BY <3>2, <1>c
      <4> QED
        BY <4>1, <2>1, <2>2, <2>3, <1>4
    <3> QED
      BY <3>1, <3>2
  <2>5. Contents(q) = Append(Contents(r), v)
    BY <2>1, <2>3, <2>4, SeqEqual
  <2> QED
    BY <2>5, <1>0
<1>8. q.tail < q.capacity
  BY <1>c
<1> QED
  BY <1>g, <1>7, <1>8 DEF q

LEMMA PoppedFrontGood ==
  ASSUME NEW d, Good(d), d.size > 0
  PROVE  /\ Good(PoppedFront(d))
         /\ Contents(PoppedFront(d)) = Tail(Contents(d))
         /\ d.items[d.head] = Head(Contents(d))
         /\ Contents(d) # << >>
         /\ PoppedFront(d).tail = d.tail
         /\ PoppedFront(d).capacity = d.capacity
<1> DEFINE q == PoppedFront(d)
<1>a. /\ d.items \in [0 .. d.capacity - 1 -> Value \cup {NoItem}]
      /\ DOMAIN d = {"items", "head", "tail", "size", "capacity"}
      /\ IsRing(d)
      /\ \A i \in 0 .. d.size - 1 : Slot(d, i) \in Value
  BY DEF Good, IsRing, Coherent
<1>b. /\ \/ d.tail = d.head + d.size - d.capacity
         \/ d.tail = d.head + d.size
         \/ d.tail = d.head + d.size + d.capacity
  BY DEF Good, Coherent
<1>1. /\ q.items = [d.items EXCEPT ![d.head] = NoItem]
      /\ q.head = ShiftRight(d, d.head) /\ q.tail = d.tail
      /\ q.size = d.size - 1 /\ q.capacity = d.capacity
      /\ DOMAIN q = {"items", "head", "tail", "size", "capacity"}
  BY <1>a DEF PoppedFront
<1> HIDE DEF q
<1>c. /\ d.capacity \in Nat /\ d.head \in Nat /\ d.tail \in Nat /\ d.size \in Nat
      /\ d.capacity > 0 /\ d.size > 0
      /\ d.head < d.capacity /\ d.size <= d.capacity /\ d.tail <= d.capacity
      /\ q.head \in Nat
      /\ \/ d.head = d.capacity - 1 /\ q.head = 0
         \/ d.head < d.capacity - 1 /\ q.head = d.head + 1
      /\ q.tail = d.tail /\ q.size = d.size - 1 /\ q.capacity = d.capacity
  <2>1. /\ d.capacity \in Nat \ {0} /\ d.head \in 0 .. d.capacity - 1
        /\ d.tail \in 0 .. d.capacity /\ d.size \in 0 .. d.capacity
    BY <1>a DEF IsRing
  <2>2. q.head = IF d.head = d.capacity - 1 THEN 0 ELSE d.head + 1
    BY <1>a, <1>1, RingIndices
  <2> QED
    BY <1>1, <2>1, <2>2
<1>2. IsRing(q)
  <2>1. q.items \in [0 .. q.capacity - 1 -> Value \cup {NoItem}]
    BY <1>a, <1>c, <1>1
  <2> QED
    BY <2>1, <1>1, <1>c DEF IsRing
<1>3. Slot(d, 0) = d.items[d.head]
  BY <1>a, <1>c, SlotAt
<1>4. \A i \in 0 .. q.size - 1 : Slot(q, i) = Slot(d, i + 1)
  <2>1. ASSUME NEW i \in 0 .. q.size - 1 PROVE Slot(q, i) = Slot(d, i + 1)
    <3>1. PICK k \in 0 .. d.capacity - 1 :
             /\ k # d.head
             /\ k = q.head + i \/ k = q.head + i - d.capacity
             /\ k = d.head + (i + 1) \/ k = d.head + (i + 1) - d.capacity
      BY <1>c
    <3>2. Slot(q, i) = q.items[k]
      BY <3>1, <1>c, <1>2, SlotAt
    <3>3. Slot(d, i + 1) = d.items[k]
      <4>1. i + 1 \in Int /\ i + 1 >= 0 /\ i + 1 < d.capacity
        BY <1>c
      <4> QED
        BY <3>1, <4>1, <1>a, SlotAt
    <3> QED
      BY <1>a, <1>1, <3>1, <3>2, <3>3
  <2> QED
    BY <2>1
<1>5. \A i \in 0 .. q.size - 1 : Slot(q, i) \in Value
  <2>1. \A i \in 0 .. q.size - 1 : i + 1 \in 0 .. d.size - 1
    BY <1>c
  <2> QED
    BY <2>1, <1>4, <1>a
<1>6. \/ q.tail = q.head + q.size - q.capacity
      \/ q.tail = q.head + q.size
      \/ q.tail = q.head + q.size + q.capacity
  BY <1>b, <1>c
<1>g. Good(q)
  BY <1>2, <1>5, <1>6 DEF Good, Coherent
<1>s. /\ Contents(d) \in Seq(Value) /\ Len(Contents(d)) = d.size
      /\ \A i \in 1 .. d.size : Contents(d)[i] = Slot(d, i - 1)
  BY ContentsSeq
<1>n. Contents(d) # << >>
  BY <1>s, <1>c
<1>h. Head(Contents(d)) = d.items[d.head]
  <2>1. 1 \in 1 .. d.size /\ 1 - 1 = 0
    BY <1>c
  <2>2. Contents(d)[1] = Slot(d, 0)
    BY <2>1, <1>s
  <2> QED
    BY <2>2, <1>3, <1>s, <1>n
<1>7. Contents(q) = Tail(Contents(d))
  <2>1. /\ Contents(q) \in Seq(Value) /\ Len(Contents(q)) = d.size - 1
        /\ \A i \in 1 .. d.size - 1 : Contents(q)[i] = Slot(q, i - 1)
    BY <1>c, <1>g, ContentsSeq
  <2>3. /\ Tail(Contents(d)) \in Seq(Value)
        /\ Len(Tail(Contents(d))) = d.size - 1
        /\ \A i \in 1 .. d.size - 1 : Tail(Contents(d))[i] = Contents(d)[i + 1]
    BY <1>s, <1>n, HeadTailProperties
  <2>4. ASSUME NEW i \in 1 .. d.size - 1
        PROVE  Contents(q)[i] = Tail(Contents(d))[i]
    <3>1. /\ i + 1 \in 1 .. d.size /\ i - 1 \in 0 .. q.size - 1
          /\ (i + 1) - 1 = i /\ (i - 1) + 1 = i
      BY <1>c
    <3>2. Slot(q, i - 1) = Slot(d, i)
      BY <3>1, <1>4
    <3>3. Contents(d)[i + 1] = Slot(d, i)
      BY <3>1, <1>s
    <3> QED
      BY <3>2, <3>3, <2>1, <2>3
  <2> QED
    BY <2>1, <2>3, <2>4, SeqEqual
<1> QED
  BY <1>g, <1>n, <1>h, <1>7, <1>c DEF q

LEMMA PoppedBackGood ==
  ASSUME NEW d, Good(d), d.size > 0
  PROVE  /\ Good(PoppedBack(d))
         /\ Contents(PoppedBack(d)) =
              SubSeq(Contents(d), 1, Len(Contents(d)) - 1)
         /\ d.items[ShiftLeft(d, d.tail)] = Contents(d)[Len(Contents(d))]
         /\ Contents(d) # << >>
         /\ PoppedBack(d).tail < PoppedBack(d).capacity
<1> DEFINE q == PoppedBack(d)
           t == ShiftLeft(d, d.tail)
<1>a. /\ d.items \in [0 .. d.capacity - 1 -> Value \cup {NoItem}]
      /\ DOMAIN d = {"items", "head", "tail", "size", "capacity"}
      /\ IsRing(d)
      /\ \A i \in 0 .. d.size - 1 : Slot(d, i) \in Value
  BY DEF Good, IsRing, Coherent
<1>b. /\ \/ d.tail = d.head + d.size - d.capacity
         \/ d.tail = d.head + d.size
         \/ d.tail = d.head + d.size + d.capacity
  BY DEF Good, Coherent
<1>1. /\ q.items = [d.items EXCEPT ![t] = NoItem]
      /\ q.head = d.head /\ q.tail = t
      /\ q.size = d.size - 1 /\ q.capacity = d.capacity
      /\ DOMAIN q = {"items", "head", "tail", "size", "capacity"}
  BY <1>a DEF PoppedBack
<1>t. t = IF d.tail = 0 THEN d.capacity - 1 ELSE d.tail - 1
  BY <1>a, RingIndices
<1> HIDE DEF q, t
<1>c. /\ d.capacity \in Nat /\ d.head \in Nat /\ d.tail \in Nat /\ d.size \in Nat
      /\ d.capacity > 0 /\ d.size > 0
      /\ d.head < d.capacity /\ d.size <= d.capacity /\ d.tail <= d.capacity
      /\ t \in Nat /\ t < d.capacity
      /\ \/ d.tail = 0 /\ t = d.capacity - 1
         \/ d.tail > 0 /\ t = d.tail - 1
      /\ q.head = d.head /\ q.tail = t
      /\ q.size = d.size - 1 /\ q.capacity = d.capacity
  <2>1. /\ d.capacity \in Nat \ {0} /\ d.head \in 0 .. d.capacity - 1
        /\ d.tail \in 0 .. d.capacity /\ d.size \in 0 .. d.capacity
    BY <1>a DEF IsRing
  <2> QED
    BY <1>1, <2>1, <1>t
<1>2. IsRing(q)
  <2>1. q.items \in [0 .. q.capacity - 1 -> Value \cup {NoItem}]
    BY <1>a, <1>c, <1>1
  <2> QED
    BY <2>1, <1>1, <1>c DEF IsRing
<1>3. Slot(d, d.size - 1) = d.items[t]
  <2>1. /\ d.size - 1 \in Int /\ d.size - 1 >= 0 /\ d.size - 1 < d.capacity
        /\ t \in 0 .. d.capacity - 1
        /\ t = d.head + (d.size - 1) \/ t = d.head + (d.size - 1) - d.capacity
    BY <1>b, <1>c
  <2> QED
    BY <2>1, <1>a, SlotAt
<1>4. \A i \in 0 .. q.size - 1 : Slot(q, i) = Slot(d, i)
  <2>1. ASSUME NEW i \in 0 .. q.size - 1 PROVE Slot(q, i) = Slot(d, i)
    <3>1. PICK k \in 0 .. d.capacity - 1 :
             /\ k # t
             /\ k = d.head + i \/ k = d.head + i - d.capacity
      BY <1>b, <1>c
    <3>2. Slot(q, i) = q.items[k]
      BY <3>1, <1>c, <1>2, SlotAt
    <3>3. Slot(d, i) = d.items[k]
      <4>1. i \in Int /\ i >= 0 /\ i < d.capacity
        BY <1>c
      <4> QED
        BY <3>1, <4>1, <1>a, SlotAt
    <3> QED
      BY <1>a, <1>1, <3>1, <3>2, <3>3
  <2> QED
    BY <2>1
<1>5. \A i \in 0 .. q.size - 1 : Slot(q, i) \in Value
  <2>1. \A i \in 0 .. q.size - 1 : i \in 0 .. d.size - 1
    BY <1>c
  <2> QED
    BY <2>1, <1>4, <1>a
<1>6. \/ q.tail = q.head + q.size - q.capacity
      \/ q.tail = q.head + q.size
      \/ q.tail = q.head + q.size + q.capacity
  <2>1. d.tail # d.head + d.size + d.capacity
    BY <1>c
  <2>2. CASE d.tail = d.head + d.size - d.capacity
    BY <1>c, <2>2
  <2>3. CASE d.tail = d.head + d.size
    BY <1>c, <2>3
  <2> QED
    BY <1>b, <2>1, <2>2, <2>3
<1>g. Good(q)
  BY <1>2, <1>5, <1>6 DEF Good, Coherent
<1>s. /\ Contents(d) \in Seq(Value) /\ Len(Contents(d)) = d.size
      /\ \A i \in 1 .. d.size : Contents(d)[i] = Slot(d, i - 1)
  BY ContentsSeq
<1>n. Contents(d) # << >>
  BY <1>s, <1>c
<1>h. Contents(d)[Len(Contents(d))] = d.items[t]
  BY <1>3, <1>s, <1>c
<1>7. Contents(q) = SubSeq(Contents(d), 1, Len(Contents(d)) - 1)
  <2>1. /\ Contents(q) \in Seq(Value) /\ Len(Contents(q)) = d.size - 1
        /\ \A i \in 1 .. d.size - 1 : Contents(q)[i] = Slot(q, i - 1)
    BY <1>c, <1>g, ContentsSeq
  <2> DEFINE u == SubSeq(Contents(d), 1, d.size - 1)
  <2>2. /\ u \in Seq(Value)
        /\ Len(u) = d.size - 1
        /\ \A i \in 1 .. d.size - 1 : u[i] = Contents(d)[i]
    <3>1. \A i \in 1 .. d.size - 1 : Contents(d)[i] \in Value
      BY <1>s, <1>c, ElementOfSeq
    <3>2. /\ u \in Seq(Value)
          /\ Len(u) = IF 1 <= d.size - 1 THEN (d.size - 1) - 1 + 1 ELSE 0
          /\ \A i \in 1 .. (d.size - 1) - 1 + 1 :
               u[i] = Contents(d)[1 + i - 1]
      BY <3>1, <1>c, SubSeqProperties
    <3>3. (d.size - 1) - 1 + 1 = d.size - 1 /\ \A i \in Int : 1 + i - 1 = i
      BY <1>c
    <3> HIDE DEF u
    <3> QED
      BY <3>2, <3>3, <1>c
  <2> HIDE DEF u
  <2>4. ASSUME NEW i \in 1 .. d.size - 1
        PROVE  Contents(q)[i] = u[i]
    <3>1. i \in 1 .. d.size /\ i - 1 \in 0 .. q.size - 1
      BY <1>c
    <3>2. Slot(q, i - 1) = Slot(d, i - 1)
      BY <3>1, <1>4
    <3>3. Contents(d)[i] = Slot(d, i - 1)
      BY <3>1, <1>s
    <3> QED
      BY <3>2, <3>3, <2>1, <2>2
  <2>5. Contents(q) = u
    BY <2>1, <2>2, <2>4, SeqEqual
  <2> QED
    BY <2>5, <1>s DEF u
<1> QED
  BY <1>g, <1>n, <1>h, <1>7, <1>c DEF q, t

LEMMA SortedIntoGood ==
  ASSUME NEW d, Good(d), NEW asc, NEW t \in Sortings(Contents(d), asc)
  PROVE  /\ Good(SortedInto(d, t))
         /\ Contents(SortedInto(d, t)) = t
         /\ SortedInto(d, t).tail = d.size
         /\ SortedInto(d, t).capacity = d.capacity
<1> DEFINE q == SortedInto(d, t)
<1>a. /\ d.items \in [0 .. d.capacity - 1 -> Value \cup {NoItem}]
      /\ DOMAIN d = {"items", "head", "tail", "size", "capacity"}
      /\ d.capacity \in Nat \ {0} /\ d.size \in 0 .. d.capacity
  BY DEF Good, IsRing
<1>1. /\ q.items = [i \in 0 .. d.capacity - 1 |->
                      IF i < d.size THEN t[i + 1] ELSE d.items[i]]
      /\ q.head = 0 /\ q.tail = d.size
      /\ q.size = d.size /\ q.capacity = d.capacity
      /\ DOMAIN q = {"items", "head", "tail", "size", "capacity"}
  BY <1>a DEF SortedInto
<1> HIDE DEF q
<1>t. t \in [1 .. d.size -> Value]
  <2>1. /\ Contents(d) \in Seq(Value) /\ Len(Contents(d)) = d.size
    BY ContentsSeq
  <2>2. DOMAIN Contents(d) = 1 .. d.size
    BY <2>1
  <2>3. \A i \in 1 .. d.size : Contents(d)[i] \in Value
    BY <2>1, ElementOfSeq
  <2>4. t \in [1 .. d.size -> {Contents(d)[i] : i \in 1 .. d.size}]
    BY <2>2 DEF Sortings
  <2>5. {Contents(d)[i] : i \in 1 .. d.size} \subseteq Value
    BY <2>3
  <2> QED
    BY <2>4, <2>5
<1>2. IsRing(q)
  <2>1. \A i \in 0 .. d.capacity - 1 : i < d.size => i + 1 \in 1 .. d.size
    BY <1>a
  <2>2. q.items \in [0 .. q.capacity - 1 -> Value \cup {NoItem}]
    BY <2>1, <1>a, <1>1, <1>t
  <2> QED
    BY <2>2, <1>1, <1>a DEF IsRing
<1>3. \A i \in 0 .. d.size - 1 : Slot(q, i) = t[i + 1]
  <2>1. ASSUME NEW i \in 0 .. d.size - 1 PROVE Slot(q, i) = t[i + 1]
    <3>1. /\ i \in Int /\ i >= 0 /\ i < q.capacity
          /\ i \in 0 .. q.capacity - 1 /\ i = q.head + i
      BY <1>1, <1>a
    <3>2. Slot(q, i) = q.items[i]
      BY <3>1, <1>2, SlotAt
    <3> QED
      BY <3>1, <3>2, <1>1, <1>a
  <2> QED
    BY <2>1
<1>4. \A i \in 0 .. q.size - 1 : Slot(q, i) \in Value
  <2>1. \A i \in 0 .. d.size - 1 : i + 1 \in 1 .. d.size
    BY <1>a
  <2> QED
    BY <2>1, <1>1, <1>3, <1>t
<1>g. Good(q)
  BY <1>1, <1>a, <1>2, <1>4 DEF Good, Coherent
<1>5. Contents(q) = t
  <2>1. Contents(q) = [i \in 1 .. d.size |-> Slot(q, i - 1)]
    BY <1>1 DEF Contents
  <2>2. \A i \in 1 .. d.size : i - 1 \in 0 .. d.size - 1 /\ (i - 1) + 1 = i
    BY <1>a
  <2>3. \A i \in 1 .. d.size : Slot(q, i - 1) = t[i]
    BY <2>2, <1>3
  <2> QED
    BY <2>1, <2>3, <1>t
<1> QED
  BY <1>g, <1>1, <1>5 DEF q

-----------------------------------------------------------------------------
(* The inductive invariant: the ring is well formed and coherent.          *)
IInv == TypeOK /\ RingCoherent

LEMMA InvGood == IInv => Good(deque)
  BY DEF IInv, TypeOK, RingCoherent, Good

LEMMA InitIInv == Init => IInv
  BY NewDequeGood DEF Init, IInv, TypeOK, RingCoherent, Good

(* An element of the ring is what a pop answers.                           *)
LEMMA Answers ==
  ASSUME NEW d, Good(d), d.size > 0
  PROVE  /\ d.items[d.head] \in Value
         /\ d.items[ShiftLeft(d, d.tail)] \in Value
<1>1. /\ Contents(d) \in Seq(Value) /\ Len(Contents(d)) = d.size
      /\ d.size \in Nat
  BY ContentsSeq DEF Good, IsRing
<1>2. Head(Contents(d)) \in Value
  BY <1>1, PoppedFrontGood, HeadTailProperties
<1>3. Contents(d)[Len(Contents(d))] \in Value
  BY <1>1, ElementOfSeq
<1> QED
  BY <1>2, <1>3, PoppedFrontGood, PoppedBackGood

LEMMA NextIInv == IInv /\ [Next]_vars => IInv'
<1> SUFFICES ASSUME IInv, [Next]_vars PROVE IInv'
  OBVIOUS
<1>0. Good(deque) /\ popped \in Value \cup {NoItem} /\ panicked \in BOOLEAN
  BY InvGood DEF IInv, TypeOK
<1>q. ASSUME Good(deque'), popped' \in Value \cup {NoItem}, panicked' \in BOOLEAN
      PROVE  IInv'
  BY <1>q DEF Good, IInv, TypeOK, RingCoherent
<1>1. ASSUME NEW v \in Value, PushFront(v) PROVE IInv'
  BY <1>0, <1>1, <1>q, PushedFrontGood DEF PushFront
<1>2. ASSUME NEW v \in Value, PushBack(v) PROVE IInv'
  BY <1>0, <1>2, <1>q, PushedBackGood DEF PushBack
<1>3. CASE PushBackOutOfRange
  BY <1>0, <1>3, <1>q DEF PushBackOutOfRange
<1>4. CASE PopEmpty
  BY <1>0, <1>4, <1>q DEF PopEmpty
<1>5. CASE PopFront
  BY <1>0, <1>5, <1>q, PoppedFrontGood, Answers DEF PopFront
<1>6. CASE PopBack
  BY <1>0, <1>6, <1>q, PoppedBackGood, Answers DEF PopBack
<1>7. ASSUME NEW asc \in BOOLEAN, Sort(asc) PROVE IInv'
  <2>1. PICK t \in Sortings(Contents(deque), asc) : deque' = SortedInto(deque, t)
    BY <1>7 DEF Sort
  <2> QED
    BY <2>1, <1>0, <1>7, <1>q, SortedIntoGood DEF Sort
<1>8. CASE UNCHANGED vars
  BY <1>0, <1>8, <1>q DEF vars
<1> QED
  BY <1>1, <1>2, <1>3, <1>4, <1>5, <1>6, <1>7, <1>8 DEF Next

LEMMA SpecIInv == Spec => []IInv
  BY InitIInv, NextIInv, PTL DEF Spec

(* The struct's fields stay in range in every execution (deque.go:5-11).   *)
THEOREM TypeCorrect == Spec => []TypeOK
  BY SpecIInv, PTL DEF IInv

(* The live slots hold elements and tail agrees with head and size, for    *)
(* every capacity and every sequence of calls (deque.go:44-121).           *)
THEOREM RingStaysCoherent == Spec => []RingCoherent
  BY SpecIInv, PTL DEF IInv

-----------------------------------------------------------------------------
(* LRANGE: the positions asked for are those from Start to Stop.           *)
LEMMA Asked ==
  ASSUME NEW d, Good(d), NEW start \in Int, NEW stop \in Int
  PROVE  /\ Start(d, start) \in Nat /\ Stop(d, stop) \in Int
         /\ Stop(d, stop) < d.size /\ d.size \in Nat
         /\ \A i \in 1 .. d.size :
              /\ i - 1 >= FromEnd(d, start) <=> i - 1 >= Start(d, start)
              /\ ~(i - 2 >= FromEnd(d, stop)) <=> i - 1 <= Stop(d, stop)
<1>1. d.size \in Nat
  BY DEF Good, IsRing
<1>2. FromEnd(d, start) \in Int /\ FromEnd(d, stop) \in Int
  BY <1>1 DEF FromEnd
<1> QED
  BY <1>1, <1>2 DEF Start, Stop

Slice(c, asked) ==
  IF asked = {} THEN << >>
  ELSE SubSeq(c, CHOOSE i \in asked : \A j \in asked : i <= j,
              CHOOSE i \in asked : \A j \in asked : i >= j)

LEMMA SliceOf ==
  ASSUME NEW d, Good(d), NEW start \in Int, NEW stop \in Int, NEW asked,
         asked = {i \in 1 .. d.size : /\ i - 1 >= FromEnd(d, start)
                                      /\ ~(i - 2 >= FromEnd(d, stop))}
  PROVE  Lrange(d, start, stop) = Slice(Contents(d), asked)
<1> DEFINE s == Start(d, start)
           t == Stop(d, stop)
           n == t - s + 1
<1>1. s \in Nat /\ t \in Int /\ t < d.size /\ d.size \in Nat
  BY Asked
<1>2. asked = {i \in 1 .. d.size : i - 1 >= s /\ i - 1 <= t}
  BY Asked
<1>3. Lrange(d, start, stop) = [i \in 1 .. n |-> Slot(d, s + i - 1)]
  BY DEF Lrange
<1> HIDE DEF s, t
<1>4. asked = s + 1 .. t + 1
  BY <1>1, <1>2
<1>4a. \A i : i \in asked <=> i \in Int /\ s + 1 <= i /\ i <= t + 1
  BY <1>1, <1>4
<1>5. CASE asked = {}
  <2>1. ~(s + 1 <= t + 1)
    BY <1>1, <1>4, <1>5
  <2>2. 1 .. n = {}
    BY <1>1, <2>1
  <2>3. [i \in 1 .. n |-> Slot(d, s + i - 1)] = << >>
    BY <2>2
  <2> QED
    BY <1>3, <1>5, <2>3 DEF Slice
<1>6. CASE asked # {}
  <2>1. s + 1 <= t + 1
    BY <1>1, <1>4, <1>6
  <2> DEFINE first == CHOOSE i \in asked : \A j \in asked : i <= j
             last  == CHOOSE i \in asked : \A j \in asked : i >= j
  <2>2. first = s + 1
    <3>1. s + 1 \in asked /\ \A j \in asked : s + 1 <= j
      BY <1>1, <1>4a, <2>1
    <3>2. first \in asked /\ \A j \in asked : first <= j
      BY <3>1
    <3> HIDE DEF first
    <3>3. first \in Int /\ first <= s + 1 /\ s + 1 <= first
      BY <1>1, <1>4, <3>1, <3>2
    <3> QED
      BY <1>1, <3>3
  <2>3. last = t + 1
    <3>a. t + 1 \in Int /\ t + 1 <= t + 1
      BY <1>1
    <3>b. t + 1 \in asked
      BY <1>4a, <2>1, <3>a
    <3>0. t + 1 \in asked /\ \A j \in asked : j \in Int /\ j <= t + 1
      BY <1>4a, <3>b
    <3>1. t + 1 \in asked /\ \A j \in asked : t + 1 >= j
      BY <1>1, <3>0
    <3>2. last \in asked /\ \A j \in asked : last >= j
      BY <3>1
    <3> HIDE DEF last
    <3>3. last \in Int /\ last >= t + 1 /\ t + 1 >= last
      BY <1>1, <1>4, <3>1, <3>2
    <3> QED
      BY <1>1, <3>3
  <2> HIDE DEF first, last
  <2>4. SubSeq(Contents(d), s + 1, t + 1) =
          [i \in 1 .. n |-> Contents(d)[i + s]]
    BY <1>1, <2>1, ContentsSeq
  <2>5. \A i \in 1 .. n : Contents(d)[i + s] = Slot(d, s + i - 1)
    <3> SUFFICES ASSUME NEW i \in 1 .. n PROVE Contents(d)[i + s] = Slot(d, s + i - 1)
      OBVIOUS
    <3>1. i + s \in 1 .. d.size /\ (i + s) - 1 = s + i - 1
      BY <1>1, <2>1
    <3> QED
      BY <3>1, ContentsSeq
  <2>6. [i \in 1 .. n |-> Contents(d)[i + s]] = [i \in 1 .. n |-> Slot(d, s + i - 1)]
    BY <2>5
  <2>7. Lrange(d, start, stop) = SubSeq(Contents(d), first, last)
    BY <1>3, <2>2, <2>3, <2>4, <2>6
  <2> QED
    BY <1>6, <2>7 DEF first, last, Slice
<1> QED
  BY <1>5, <1>6

(* LRANGE gives the slice that is asked for, wherever the elements lie in  *)
(* the array, for lists of any size and any two positions (list.go:106-137) *)
THEOREM RangesAreSlices == Spec => []LrangeIsSlice
<1>1. IInv => LrangeIsSlice
  <2> SUFFICES ASSUME IInv, NEW start \in -(MaxSize + 1) .. MaxSize + 1,
                      NEW stop \in -(MaxSize + 1) .. MaxSize + 1
               PROVE  LET c == Contents(deque)
                          Reaches(i, j) == IF j >= 0 THEN i - 1 >= j ELSE i - 1 - deque.size >= j
                          In(i) == Reaches(i, start) /\ ~Reaches(i - 1, stop)
                          asked == {i \in DOMAIN c : In(i)}
                      IN  Lrange(deque, start, stop) =
                            IF asked = {} THEN << >>
                            ELSE SubSeq(c, CHOOSE i \in asked : \A j \in asked : i <= j,
                                           CHOOSE i \in asked : \A j \in asked : i >= j)
    BY DEF LrangeIsSlice
  <2> DEFINE c == Contents(deque)
             Reaches(i, j) == IF j >= 0 THEN i - 1 >= j ELSE i - 1 - deque.size >= j
             In(i) == Reaches(i, start) /\ ~Reaches(i - 1, stop)
             asked == {i \in DOMAIN c : In(i)}
  <2>1. Good(deque) /\ start \in Int /\ stop \in Int /\ deque.size \in Nat
    BY InvGood, MaxSizeAssumption DEF Good, IsRing
  <2>2. DOMAIN c = 1 .. deque.size
    BY DEF Contents
  <2>3. \A i \in 1 .. deque.size :
          In(i) <=> i - 1 >= FromEnd(deque, start) /\ ~(i - 2 >= FromEnd(deque, stop))
    <3>1. \A i, j \in Int : Reaches(i, j) <=> i - 1 >= FromEnd(deque, j)
      BY <2>1 DEF FromEnd
    <3>2. \A i \in Int : (i - 1) - 1 = i - 2 /\ i - 1 \in Int
      OBVIOUS
    <3> HIDE DEF Reaches
    <3> QED
      BY <2>1, <3>1, <3>2
  <2> HIDE DEF In
  <2>4. asked = {i \in 1 .. deque.size : /\ i - 1 >= FromEnd(deque, start)
                                         /\ ~(i - 2 >= FromEnd(deque, stop))}
    BY <2>2, <2>3
  <2> HIDE DEF asked, c
  <2>5. Lrange(deque, start, stop) = Slice(c, asked)
    BY <2>1, <2>4, SliceOf DEF c
  <2> QED
    BY <2>5 DEF asked, c, In, Slice
<1> QED
  BY <1>1, SpecIInv, PTL

-----------------------------------------------------------------------------
(* Tail leaves the array only when SORT runs on a list that fills it: the  *)
(* one source of the panic of PushBack (deque.go:116-117).                 *)
THEOREM OnlySortStrandsTail == Spec => OnlyFullSortStrandsTail
<1> DEFINE A == deque.tail < deque.capacity /\ deque'.tail = deque'.capacity
                  => deque.size = deque.capacity /\ \E asc \in BOOLEAN : Sort(asc)
<1>1. IInv /\ [Next]_vars => [A]_vars
  <2> SUFFICES ASSUME IInv, [Next]_vars,
                      deque.tail < deque.capacity, deque'.tail = deque'.capacity,
                      ~UNCHANGED vars
               PROVE  deque.size = deque.capacity /\ \E asc \in BOOLEAN : Sort(asc)
    OBVIOUS
  <2>0. /\ Good(deque) /\ IsRing(deque')
        /\ deque.tail \in Nat /\ deque.capacity \in Nat
        /\ deque'.tail \in Nat /\ deque'.capacity \in Nat
    BY InvGood, NextIInv DEF IInv, TypeOK, IsRing
  <2>f. ~(deque'.tail < deque'.capacity)
    BY <2>0
  <2>1. ASSUME NEW v \in Value, PushFront(v) PROVE FALSE
    <3>1. deque'.tail = deque.tail /\ ~(PushedFront(deque, v).tail
                                        < PushedFront(deque, v).capacity)
      BY <2>0, <2>1, <2>f, PushedFrontGood DEF PushFront
    <3> DEFINE r == WithRoom(deque)
               q == PushedFront(deque, v)
    <3>2. q.tail = r.tail /\ q.capacity = r.capacity
      <4>1. DOMAIN r = {"items", "head", "tail", "size", "capacity"}
        BY <2>0, WithRoomGood DEF Good, IsRing
      <4> QED
        BY <4>1 DEF PushedFront
    <3>3. r = deque \/ r.tail < r.capacity
      BY <2>0, WithRoomGood
    <3> HIDE DEF r, q
    <3> QED
      BY <3>1, <3>2, <3>3, <2>0 DEF q
  <2>2. ASSUME NEW v \in Value, PushBack(v) PROVE FALSE
    BY <2>0, <2>2, <2>f, PushedBackGood DEF PushBack
  <2>3. CASE PushBackOutOfRange \/ PopEmpty
    BY <2>0, <2>3 DEF PushBackOutOfRange, PopEmpty
  <2>4. CASE PopFront
    BY <2>0, <2>4, PoppedFrontGood DEF PopFront
  <2>5. CASE PopBack
    BY <2>0, <2>5, <2>f, PoppedBackGood DEF PopBack
  <2>6. ASSUME NEW asc \in BOOLEAN, Sort(asc)
        PROVE  deque.size = deque.capacity
    <3>1. PICK t \in Sortings(Contents(deque), asc) : deque' = SortedInto(deque, t)
      BY <2>6 DEF Sort
    <3> QED
      BY <3>1, <2>0, SortedIntoGood
  <2> QED
    BY <2>1, <2>2, <2>3, <2>4, <2>5, <2>6 DEF Next
<1> QED
  BY <1>1, SpecIInv, PTL DEF Spec, OnlyFullSortStrandsTail

-----------------------------------------------------------------------------
(* Every step of the ring is a step of the sequence, or changes nothing a  *)
(* caller sees.                                                            *)
LEMMA StepRefines ==
  ASSUME IInv, [Next]_vars
  PROVE  [Abstract!Next]_<<Contents(deque), popped>>
<1> USE DEF Abstract!Next
<1>0. /\ Good(deque)
      /\ Len(Contents(deque)) = deque.size
      /\ deque.size \in Nat
      /\ Contents(deque) \in Seq(Value)
      /\ (Contents(deque) = << >>) <=> (deque.size = 0)
  BY InvGood, ContentsSeq DEF Good, IsRing
<1>1. ASSUME NEW v \in Value, PushFront(v) PROVE Abstract!PushFront(v)
  BY <1>0, <1>1, PushedFrontGood DEF PushFront, Abstract!PushFront
<1>2. ASSUME NEW v \in Value, PushBack(v) PROVE Abstract!PushBack(v)
  BY <1>0, <1>2, PushedBackGood DEF PushBack, Abstract!PushBack
<1>3. CASE PushBackOutOfRange
  BY <1>3 DEF PushBackOutOfRange
<1>4. CASE PopEmpty
  <2>1. Abstract!PopFront
    BY <1>0, <1>4 DEF PopEmpty, Abstract!PopFront
  <2> QED
    BY <2>1
<1>5. CASE PopFront
  <2>1. Abstract!PopFront
    BY <1>0, <1>5, PoppedFrontGood DEF PopFront, Abstract!PopFront
  <2> QED
    BY <2>1
<1>6. CASE PopBack
  <2>1. Abstract!PopBack
    BY <1>0, <1>6, PoppedBackGood DEF PopBack, Abstract!PopBack
  <2> QED
    BY <2>1
<1>7. ASSUME NEW asc \in BOOLEAN, Sort(asc) PROVE Abstract!Sort(asc)
  <2>1. PICK t \in Sortings(Contents(deque), asc) : deque' = SortedInto(deque, t)
    BY <1>7 DEF Sort
  <2>2. Contents(deque)' = t
    BY <2>1, <1>0, SortedIntoGood
  <2>3. t \in Abstract!Sortings(Contents(deque), asc)
    <3>1. \A S : Cardinality(S) = Abstract!Cardinality(S)
      BY DEF Cardinality, Abstract!Cardinality, IsFiniteSet, Abstract!IsFiniteSet
    <3>2. \A s, v : Occurrences(s, v) = Abstract!Occurrences(s, v)
      BY <3>1 DEF Occurrences, Abstract!Occurrences
    <3> QED
      BY <2>1, <3>2 DEF Sortings, Ordered, Abstract!Sortings, Abstract!Ordered
  <2> QED
    BY <2>2, <2>3, <1>7 DEF Sort, Abstract!Sort
<1>8. CASE UNCHANGED vars
  BY <1>8 DEF vars
<1> QED
  BY <1>1, <1>2, <1>3, <1>4, <1>5, <1>6, <1>7, <1>8 DEF Next

(* Deque semantics: the ring implements the sequence, for every element    *)
(* set, initial capacity and bound on the size (deque.go, list.go:19-93).  *)
THEOREM RingImplementsSequence == Spec => DequeSemantics
<1>1. Init => Abstract!Init
  BY NewDequeGood DEF Init, Abstract!Init
<1>2. IInv /\ [Next]_vars => [Abstract!Next]_<<Contents(deque), popped>>
  BY StepRefines
<1> QED
  BY <1>1, <1>2, SpecIInv, PTL DEF Spec, DequeSemantics, Abstract!Spec
=============================================================================

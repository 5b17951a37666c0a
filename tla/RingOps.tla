------------------------------ MODULE RingOps ------------------------------
(***************************************************************************)
(* The circular buffer of internal/datastructure/deque.go as pure          *)
(* operators.  A deque d is the Go struct: an array of d.capacity slots    *)
(* indexed from 0, the index d.head of the first element, the index        *)
(* d.tail one past the last one, and the element count d.size.             *)
(***************************************************************************)
EXTENDS Integers, Sequences, Ordering

CONSTANTS
  Value,           \* what a list element can be, compared by SORT as integers
  NoItem,          \* the zero Item that make and the pops leave in a slot
  InitialCapacity  \* slots of a fresh deque; 4 in the code

ASSUME ValueAssumption    == Value \subseteq Int /\ NoItem \notin Value
ASSUME CapacityAssumption == InitialCapacity \in Nat \ {0}

NewDeque ==
  [items    |-> [i \in 0 .. InitialCapacity - 1 |-> NoItem],
   head     |-> 0,
   tail     |-> 0,
   size     |-> 0,
   capacity |-> InitialCapacity]

ShiftLeft(d, pos)  == (pos - 1 + d.capacity) % d.capacity
ShiftRight(d, pos) == (pos + 1) % d.capacity

(* The ranges of the struct's fields.  tail may equal capacity, which is   *)
(* not an index: Sort leaves it there.                                     *)
IsRing(d) ==
  /\ DOMAIN d = {"items", "head", "tail", "size", "capacity"}
  /\ d.capacity \in Nat \ {0}
  /\ d.items \in [0 .. d.capacity - 1 -> Value \cup {NoItem}]
  /\ d.head \in 0 .. d.capacity - 1
  /\ d.tail \in 0 .. d.capacity
  /\ d.size \in 0 .. d.capacity

(* The i-th element counted from the head, i from 0: what resize, Sort,    *)
(* LRANGE and Dump read.                                                   *)
Slot(d, i)  == d.items[(d.head + i) % d.capacity]
Contents(d) == [i \in 1 .. d.size |-> Slot(d, i - 1)]

(* LRANGE: negative positions count from the end; start is clamped below,  *)
(* stop above.                                                             *)
FromEnd(d, i) == IF i < 0 THEN i + d.size ELSE i
Start(d, i)   == IF FromEnd(d, i) < 0 THEN 0 ELSE FromEnd(d, i)

(* Mutant of Stop: stop may be the size.                                   *)
StopAtSize(d, i) == IF FromEnd(d, i) > d.size THEN d.size - 1 ELSE FromEnd(d, i)

Stop(d, i) == IF FromEnd(d, i) >= d.size THEN d.size - 1 ELSE FromEnd(d, i)

Lrange(d, start, stop) ==
  [i \in 1 .. Stop(d, stop) - Start(d, start) + 1 |-> Slot(d, Start(d, start) + i - 1)]

(* Mutant of Resized: the array is copied without turning it round.        *)
ResizedUnrotated(d) ==
  [items    |-> [i \in 0 .. 2 * d.capacity - 1 |->
                   IF i < d.size THEN d.items[i] ELSE NoItem],
   head     |-> 0,
   tail     |-> d.size,
   size     |-> d.size,
   capacity |-> 2 * d.capacity]

Resized(d) ==
  [items    |-> [i \in 0 .. 2 * d.capacity - 1 |->
                   IF i < d.size THEN Slot(d, i) ELSE NoItem],
   head     |-> 0,
   tail     |-> d.size,
   size     |-> d.size,
   capacity |-> 2 * d.capacity]

(* Both pushes first double a full array.                                  *)
WithRoom(d) == IF d.size = d.capacity THEN Resized(d) ELSE d

PushedFront(d, v) ==
  LET r == WithRoom(d)
      h == ShiftLeft(r, r.head)
  IN  [r EXCEPT !.items = [@ EXCEPT ![h] = v], !.head = h, !.size = @ + 1]

(* PushBack writes items[tail] before it wraps tail: Go panics when tail   *)
(* is not an index of the array.                                           *)
PushBackPanics(d) == WithRoom(d).tail >= WithRoom(d).capacity

(* Mutant of PushedBack: tail is not wrapped.                              *)
PushedBackUnwrapped(d, v) ==
  LET r == WithRoom(d)
  IN  [r EXCEPT !.items = [@ EXCEPT ![r.tail] = v],
                !.tail  = @ + 1,
                !.size  = @ + 1]

PushedBack(d, v) ==
  LET r == WithRoom(d)
  IN  [r EXCEPT !.items = [@ EXCEPT ![r.tail] = v],
                !.tail  = ShiftRight(r, r.tail),
                !.size  = @ + 1]

(* Mutant of PoppedFront: head is not wrapped.                             *)
PoppedFrontUnwrapped(d) ==
  [d EXCEPT !.items = [@ EXCEPT ![d.head] = NoItem],
            !.head  = d.head + 1,
            !.size  = @ - 1]

PoppedFront(d) ==
  [d EXCEPT !.items = [@ EXCEPT ![d.head] = NoItem],
            !.head  = ShiftRight(d, d.head),
            !.size  = @ - 1]

PoppedBack(d) ==
  LET t == ShiftLeft(d, d.tail)
  IN  [d EXCEPT !.items = [@ EXCEPT ![t] = NoItem], !.tail = t, !.size = @ - 1]

(* The size slots from head on are in use, and tail is head plus size up   *)
(* to one turn of the ring.                                                *)
Coherent(d) ==
  /\ d.tail \in {d.head + d.size - d.capacity,
                d.head + d.size,
                d.head + d.size + d.capacity}
  /\ \A i \in 0 .. d.size - 1 : Slot(d, i) \in Value

-----------------------------------------------------------------------------
(* Mutant of SortedInto: tail is not reset.                                *)
SortedKeepingTail(d, t) ==
  [d EXCEPT !.items = [i \in 0 .. d.capacity - 1 |->
                         IF i < d.size THEN t[i + 1] ELSE d.items[i]],
            !.head = 0]

(* Sort copies the ordered elements to the front of the array, points head *)
(* at 0 and tail at size, and leaves every other slot as it was.           *)
SortedInto(d, t) ==
  [d EXCEPT !.items = [i \in 0 .. d.capacity - 1 |->
                         IF i < d.size THEN t[i + 1] ELSE d.items[i]],
            !.head = 0,
            !.tail = d.size]
=============================================================================

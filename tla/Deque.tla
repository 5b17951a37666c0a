------------------------------- MODULE Deque -------------------------------
(***************************************************************************)
(* One list of datastructure.List: a deque object and the calls that List  *)
(* makes on it while it holds its lock, one element at a time.             *)
(***************************************************************************)
EXTENDS RingOps

CONSTANT MaxSize  \* bound: pushes stop at this many elements

ASSUME MaxSizeAssumption == MaxSize \in Nat

VARIABLES
  deque,    \* the Go struct
  popped,   \* result of the last pop: an element, or NoItem for (zero, false)
  panicked  \* an index was out of range: the process is gone

vars == <<deque, popped, panicked>>

Init ==
  /\ deque    = NewDeque
  /\ popped   = NoItem
  /\ panicked = FALSE

PushFront(v) ==
  /\ ~panicked
  /\ deque.size < MaxSize
  /\ deque' = PushedFront(deque, v)
  /\ UNCHANGED <<popped, panicked>>

PushBack(v) ==
  /\ ~panicked
  /\ deque.size < MaxSize
  /\ ~PushBackPanics(deque)
  /\ deque' = PushedBack(deque, v)
  /\ UNCHANGED <<popped, panicked>>

PushBackOutOfRange ==
  /\ ~panicked
  /\ deque.size < MaxSize
  /\ PushBackPanics(deque)
  /\ panicked' = TRUE
  /\ UNCHANGED <<deque, popped>>

PopEmpty ==
  /\ ~panicked
  /\ deque.size = 0
  /\ popped' = NoItem
  /\ UNCHANGED <<deque, panicked>>

PopFront ==
  /\ ~panicked
  /\ deque.size > 0
  /\ popped' = deque.items[deque.head]
  /\ deque' = PoppedFront(deque)
  /\ UNCHANGED panicked

PopBack ==
  /\ ~panicked
  /\ deque.size > 0
  /\ popped' = deque.items[ShiftLeft(deque, deque.tail)]
  /\ deque' = PoppedBack(deque)
  /\ UNCHANGED panicked

Sort(asc) ==
  /\ ~panicked
  /\ deque.size > 0
  /\ \E t \in Sortings(Contents(deque), asc) : deque' = SortedInto(deque, t)
  /\ UNCHANGED <<popped, panicked>>

Next ==
  \/ \E v \in Value : PushFront(v)
  \/ \E v \in Value : PushBack(v)
  \/ PushBackOutOfRange
  \/ PopEmpty
  \/ PopFront
  \/ PopBack
  \/ \E asc \in BOOLEAN : Sort(asc)

Spec == Init /\ [][Next]_vars

-----------------------------------------------------------------------------
(* Type invariant: the struct's fields are in range (deque.go:5-11).       *)
TypeOK ==
  /\ IsRing(deque)
  /\ popped \in Value \cup {NoItem}
  /\ panicked \in BOOLEAN

(* The redundant fields agree and no live slot is empty: whatever sequence *)
(* of pushes, pops, doublings and sorts ran, tail is head plus size up to  *)
(* one turn of the ring, and the size slots from head on hold elements     *)
(* (the bookkeeping of PushFront/PushBack/PopFront/PopBack/resize/Sort,    *)
(* deque.go:44-121).                                                       *)
RingCoherent == Coherent(deque)

(* LRANGE gives the elements from start to stop, inclusive, in order, for   *)
(* any two positions, negative ones counted from the end and those beyond   *)
(* either end allowed, wherever the elements lie in the ring                *)
(* (list.go:106-137).                                                       *)
LrangeIsSlice ==
  \A start, stop \in -(MaxSize + 1) .. MaxSize + 1 :
    LET c == Contents(deque)
        Reaches(i, j) == IF j >= 0 THEN i - 1 >= j ELSE i - 1 - deque.size >= j
        In(i) == Reaches(i, start) /\ ~Reaches(i - 1, stop)
        asked == {i \in DOMAIN c : In(i)}
    IN  Lrange(deque, start, stop) =
          IF asked = {} THEN << >>
          ELSE SubSeq(c, CHOOSE i \in asked : \A j \in asked : i <= j,
                         CHOOSE i \in asked : \A j \in asked : i >= j)

(* Every index PushBack may write is an index of the array: no legal       *)
(* sequence of list commands stops the process (deque.go:67-74).           *)
NeverPanics == ~panicked

(* What can strand tail outside the array, and so make a later PushBack    *)
(* panic: only sorting a list that fills its array exactly (tail = size,   *)
(* deque.go:116-117); no push, pop or doubling ever does.                  *)
OnlyFullSortStrandsTail ==
  [][deque.tail < deque.capacity /\ deque'.tail = deque'.capacity
       => deque.size = deque.capacity /\ \E asc \in BOOLEAN : Sort(asc)]_vars

Abstract == INSTANCE AbstractDeque WITH list <- Contents(deque)

(* Deque semantics: until a panic, the ring behaves as the sequence of     *)
(* AbstractDeque, answers of the pops included (list.go:19-93, 139-165).   *)
DequeSemantics == Abstract!Spec
=============================================================================

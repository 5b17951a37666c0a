--------------------------- MODULE AbstractDeque ---------------------------
(***************************************************************************)
(* What a list promises its callers: a sequence that grows and shrinks at  *)
(* both ends and can be put in order.  Deque.tla is shown to implement it. *)
(***************************************************************************)
EXTENDS Integers, Sequences, Ordering

CONSTANTS Value, NoItem, MaxSize

VARIABLES
  list,   \* the elements, front first
  popped  \* the answer of the last pop: an element, or NoItem when empty

Init == list = << >> /\ popped = NoItem

PushFront(v) ==
  /\ Len(list) < MaxSize
  /\ list' = <<v>> \o list
  /\ UNCHANGED popped

PushBack(v) ==
  /\ Len(list) < MaxSize
  /\ list' = Append(list, v)
  /\ UNCHANGED popped

PopFront ==
  IF list = << >>
  THEN popped' = NoItem /\ UNCHANGED list
  ELSE popped' = Head(list) /\ list' = Tail(list)

PopBack ==
  IF list = << >>
  THEN popped' = NoItem /\ UNCHANGED list
  ELSE popped' = list[Len(list)] /\ list' = SubSeq(list, 1, Len(list) - 1)

Sort(asc) == list' \in Sortings(list, asc) /\ UNCHANGED popped

Next ==
  \/ \E v \in Value : PushFront(v) \/ PushBack(v)
  \/ PopFront
  \/ PopBack
  \/ \E asc \in BOOLEAN : Sort(asc)

Spec == Init /\ [][Next]_<<list, popped>>
=============================================================================

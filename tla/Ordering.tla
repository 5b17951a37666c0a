------------------------------ MODULE Ordering ------------------------------
(***************************************************************************)
(* What Go's sort.Slice promises Deque.Sort and List.Sort.                 *)
(***************************************************************************)
EXTENDS Integers, FiniteSets

(* sort.Slice returns a rearrangement of what it was given that is         *)
(* ordered by the comparison; equal elements cannot be told apart.         *)
Ordered(s, asc) ==
  \A i, j \in DOMAIN s :
    i < j => IF asc THEN s[i] <= s[j] ELSE s[j] <= s[i]

Occurrences(s, v) == Cardinality({i \in DOMAIN s : s[i] = v})

Sortings(s, asc) ==
  {t \in [DOMAIN s -> {s[i] : i \in DOMAIN s}] :
     /\ Ordered(t, asc)
     /\ \A i \in DOMAIN s : Occurrences(t, s[i]) = Occurrences(s, s[i])}
=============================================================================

------------------------------- MODULE MC_Set -------------------------------
(* Two clients.  Each has a key of its own, or both use one key.           *)
EXTENDS Set

CONSTANTS c1, c2, k1, k2

MCOwn    == [c \in {c1, c2} |-> IF c = c1 THEN {k1} ELSE {k2}]
MCShared == [c \in {c1, c2} |-> {k1}]
MCFew    == [c \in {c1, c2} |-> IF c = c1 THEN {{1}, {1, 2}} ELSE {{1}}]
MCTtls   == 0 .. 1
=============================================================================

------------------------------ MODULE MC_Dict ------------------------------
(* Two clients and two keys.  Each client has a key of its own (the case   *)
(* the theorems are about), or both use one key.                           *)
EXTENDS Dict

CONSTANTS c1, c2, k1, k2

MCOwn    == [c \in {c1, c2} |-> IF c = c1 THEN {k1} ELSE {k2}]
MCShared == [c \in {c1, c2} |-> {k1}]
MCTtls   == 0 .. 1
=============================================================================

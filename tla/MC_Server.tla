----------------------------- MODULE MC_Server -----------------------------
(* A client that monitors or subscribes and may go away, and one that      *)
(* writes, either of which has to give the password first.                 *)
EXTENDS Server

CONSTANTS m1, m2, a

MCMay == [c \in Conn |->
  IF c = a THEN {"AUTH", "SET"}
  ELSE IF c = m1 THEN {"AUTH", "MONITOR", "SUBSCRIBE", "LEAVE"}
  ELSE {"AUTH", "MONITOR"}]
MCSent  == [c \in Conn |-> IF c = a THEN 2 ELSE 1]
=============================================================================

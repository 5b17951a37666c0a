----------------------------- MODULE MC_Pubsub -----------------------------
(* Two subscribers of one topic or of two, and connections that publish    *)
(* or unsubscribe.                                                         *)
EXTENDS Pubsub

CONSTANTS s1, s2, p1, p2, t1, t2

MCMay == [c \in Conn |->
  CASE c = s1 -> {"SUBSCRIBE", "UNSUBSCRIBE"}
    [] c = s2 -> {"SUBSCRIBE", "UNSUBSCRIBE", "BARE SUBSCRIBE", "PUBLISH"}
    [] OTHER  -> {"PUBLISH"}]
MCOut == [c \in Conn |-> IF c = s1 THEN {"SUBSCRIBE"} ELSE {"UNSUBSCRIBE"}]
MCTwo == [c \in Conn |-> IF c \in {s1, s2} THEN {"SUBSCRIBE"} ELSE {"PUBLISH"}]
MCSent   == [c \in Conn |-> IF c = p1 THEN 2 ELSE 1]
MCSame   == [c \in Conn |-> t1]
MCDiffer == [c \in Conn |-> IF c = s2 THEN t2 ELSE t1]
=============================================================================

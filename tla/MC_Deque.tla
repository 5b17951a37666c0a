----------------------------- MODULE MC_Deque ------------------------------
(* Values for the constants of Deque: two element values so that SORT      *)
(* has something to order, arrays that double from 2 to 8 slots.           *)
EXTENDS Deque

MCValue == 1 .. 2
=============================================================================

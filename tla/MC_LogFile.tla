----------------------------- MODULE MC_LogFile -----------------------------
(* Commands of a name and one or two arguments.                            *)
EXTENDS LogFile
=============================================================================

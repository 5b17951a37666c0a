------------------------------- MODULE LogFile -------------------------------
(***************************************************************************)
(* The AOF as the RESP tokens in it, some of them cut short: what the      *)
(* encoder appends, what a write that ends early leaves, and what the      *)
(* decoder makes of it at the next start, with more records behind.        *)
(* A token is an array header, a whole bulk string, or the scrap of one:   *)
(* of a line ("line"), or of a text, whose missing bytes are taken from    *)
(* what follows ("gap").  skip is how many whole tokens that takes, or 0   *)
(* when it ends inside the next one: what is left of that is no value, for *)
(* texts are taken to have no line in them that looks like one.            *)
(***************************************************************************)
EXTENDS Integers, Sequences, SequencesExt, FiniteSets

CONSTANTS
  Sizes,       \* how many items, the name included, a command may have
  Skips,       \* how many tokens the missing bytes of a text may come to
  MaxRecords,  \* bound: records sent to the file
  MaxTears     \* bound: how many of them arrive cut short

ASSUME LogFileAssumption ==
  /\ Sizes \subseteq Nat \ {0} /\ Skips \subseteq Nat
  /\ MaxRecords \in Nat /\ MaxTears \in Nat

VARIABLES
  log  \* the appends so far: [size, cut], cut = Whole or what was written

vars == <<log>>

(* Tokens, and the record that append number i encodes.                    *)
Header(n)   == [t |-> "array", n |-> n]
Bulk(i, k)  == [t |-> "bulk", of |-> i, item |-> k]
Line        == [t |-> "line"]
Gap(s)      == [t |-> "gap", skip |-> s]
Encode(i, n) == <<Header(n)>> \o [k \in 1 .. n |-> Bulk(i, k)]

(* How a write may end: all tokens out, or the first `tokens` of them and  *)
(* a scrap of the next, if any.                                            *)
Whole == [tokens |-> 0, scrap |-> << >>, whole |-> TRUE]

Cuts(n) ==
  {[tokens |-> 0, scrap |-> << >>, whole |-> FALSE],
   [tokens |-> 0, scrap |-> <<Line>>, whole |-> FALSE]}
  \cup {[tokens |-> k, scrap |-> s, whole |-> FALSE] :
          k \in 1 .. n, s \in {<< >>, <<Line>>} \cup {<<Gap(g)>> : g \in Skips}}

Written(i) ==
  LET e == log[i] IN
  IF e.cut.whole THEN Encode(i, e.size)
  ELSE SubSeq(Encode(i, e.size), 1, e.cut.tokens) \o e.cut.scrap

File == FlattenSeq([i \in DOMAIN log |-> Written(i)])

-----------------------------------------------------------------------------
(* The decoder, from token p of file f: a value and where the next begins. *)
Fails == [ok |-> FALSE]
Value(v, p) == [ok |-> TRUE, val |-> v, next |-> p]

Text(v) == [t |-> "bulk", text |-> v]
Garbage == Text(<<0, 0>>)

(* Mutant of ReadGap: what there is of a text is taken for all of it.      *)
ReadGapShort(f, p) == Value(Garbage, IF p + f[p].skip > Len(f) THEN p + 1 ELSE p + 1 + f[p].skip)

(* io.ReadFull of a text that was cut short.  Where it ends inside a token *)
(* the next Decode fails, as it does at the end of the file.               *)
ReadGap(f, p) ==
  IF p = Len(f) \/ p + f[p].skip > Len(f) THEN Fails
  ELSE Value(Garbage, IF f[p].skip = 0 THEN Len(f) + 1 ELSE p + 1 + f[p].skip)

(* The value at token p; reads says what comes from later tokens.          *)
Decode(f, reads, p) ==
  IF p > Len(f) THEN Fails
  ELSE CASE f[p].t = "array" ->
              LET r == reads[p + 1][f[p].n]
              IN  IF r.ok THEN Value([t |-> "array", items |-> r.val], r.next) ELSE Fails
         [] f[p].t = "bulk"  -> Value(Text(<<f[p].of, f[p].item>>), p + 1)
         [] f[p].t = "line"  -> Fails
         [] f[p].t = "gap"   -> ReadGap(f, p)

(* readArray's loop: the next n values, one after another.                 *)
Items(f, reads, p, n) ==
  IF n = 0 THEN Value(<< >>, p)
  ELSE LET r == Decode(f, reads, p)
           rest == reads[r.next][n - 1]
       IN  IF r.ok /\ rest.ok THEN Value(<<r.val>> \o rest.val, rest.next) ELSE Fails

Reads(f) ==
  LET reads[p \in 1 .. Len(f) + 1] == [n \in Nat |-> Items(f, reads, p, n)] IN reads

Dispatches(v) == v.t = "array" /\ v.items # << >> /\ v.items[1].t = "bulk"

(* Mutant of LoadFrom: a value that is no command ends the load.           *)
LoadStops(f, loads, p) ==
  LET r == Decode(f, Reads(f), p) IN
  IF r.ok /\ Dispatches(r.val) THEN <<r.val.items>> \o loads[r.next] ELSE << >>

(* The loop of AOF.Load, from token p on: the commands dispatched.  A      *)
(* value that is no array, or has no name, is passed over; an error ends   *)
(* the load.                                                               *)
LoadFrom(f, loads, p) ==
  LET r == Decode(f, Reads(f), p) IN
  IF ~r.ok THEN << >>
  ELSE (IF Dispatches(r.val) THEN <<r.val.items>> ELSE << >>) \o loads[r.next]

Loads(f) ==
  LET loads[p \in 1 .. Len(f) + 1] == LoadFrom(f, loads, p) IN loads

Loaded == Loads(File)[1]

-----------------------------------------------------------------------------
Torn == {i \in DOMAIN log : ~log[i].cut.whole}

Init == log = << >>

(* Append, written and synced; the client is answered.                     *)
AppendWhole(n) ==
  /\ Len(log) < MaxRecords
  /\ log' = Append(log, [size |-> n, cut |-> Whole])

(* The process ends during the write and starts again, or the disk is full *)
(* and the error dropped; later records are written behind what is there.  *)
AppendCut(n, cut) ==
  /\ Len(log) < MaxRecords /\ Cardinality(Torn) < MaxTears
  /\ log' = Append(log, [size |-> n, cut |-> cut])

Next == \E n \in Sizes : AppendWhole(n) \/ \E cut \in Cuts(n) : AppendCut(n, cut)

Spec == Init /\ [][Next]_vars

-----------------------------------------------------------------------------
Command(i) == [k \in 1 .. log[i].size |-> Text(<<i, k>>)]
Sent == [i \in DOMAIN log |-> Command(i)]

(* Whatever was cut short when, the records before the first cut are       *)
(* loaded first, in order; and a start after a crash during an append      *)
(* loads every record that was answered and nothing of the one cut short   *)
(* (aof.go:38-94, resp.go:30-146).                                         *)
CutLoads ==
  \A n \in 0 .. Len(log) : Torn \cap (1 .. n) = {} =>
    /\ IsPrefix(SubSeq(Sent, 1, n), Loaded)
    /\ Torn = n + 1 .. Len(log) /\ n + 1 >= Len(log) => Loaded = SubSeq(Sent, 1, n)

(* A single write that ended between two items costs the records that are  *)
(* taken for the missing ones, and no more: all records behind those are   *)
(* loaded, and last (aof.go:73-91, resp.go:116-138).                       *)
LossBounded ==
  \A i \in Torn : Torn = {i} /\ log[i].cut.scrap = << >> =>
    LET missing == IF log[i].cut.tokens = 0 THEN 0 ELSE log[i].size + 1 - log[i].cut.tokens
    IN  IsSuffix(SubSeq(Sent, i + missing + 1, Len(log)), Loaded)

-----------------------------------------------------------------------------
(* What the documentation says, and the code does not do.                  *)

(* "AOF for durability": every record that was answered is loaded.         *)
AnsweredSurvive == \A i \in DOMAIN log \ Torn : Command(i) \in Range(Loaded)

(* A load runs nothing but commands that clients sent.                     *)
NothingGarbled == \A a \in DOMAIN Loaded : \E i \in DOMAIN log : Loaded[a] = Command(i)
=============================================================================

------------------------------ MODULE Database ------------------------------
(***************************************************************************)
(* The four stores of the server and the commands that change them, as     *)
(* pure operators: what a handler does to memory, what it appends to the   *)
(* AOF, and the commands that a rewritten AOF and an RDB load are made of. *)
(* Whether a deadline has passed is asked of the clock each time a command *)
(* runs: when a client sends it, and again when it is replayed.            *)
(***************************************************************************)
EXTENDS Integers, Sequences, SequencesExt, Ordering

CONSTANTS
  Key, Value, Field,
  Absent  \* no item under a key of the dict or of the set store; no snapshot

(* Types of what a key has in each store.  Elements are integers, so that  *)
(* SORT has something to compare; no set is empty: SREM deletes the key    *)
(* with the last member (set.go:71-75).                                    *)
DictItem == [value : Value, deadline : Nat]  \* 0: no deadline
SetItem  == [members : (SUBSET Value) \ {{}}, deadline : Nat]
HashItem == UNION {[F -> Value] : F \in SUBSET Field}

DBType ==
  [dict : [Key -> DictItem \cup {Absent}],
   set  : [Key -> SetItem \cup {Absent}],
   list : [Key -> Seq(Value)],
   hash : [Key -> HashItem]]

ASSUME DatabaseAssumption ==
  /\ IsFiniteSet(Key) /\ IsFiniteSet(Field)
  /\ Value \subseteq Int
  /\ Absent \notin DictItem \cup SetItem /\ Absent \notin DBType

EmptyDB ==
  [dict |-> [k \in Key |-> Absent],
   set  |-> [k \in Key |-> Absent],
   list |-> [k \in Key |-> << >>],
   hash |-> [k \in Key |-> << >>]]  \* a function from the fields present

-----------------------------------------------------------------------------
(* Commands, as the parser hands them to the handlers.  A ttl is a number  *)
(* of ticks of the clock: 0 is no TTL for SET, and for EXPIRE and SEXPIRE   *)
(* stands for any that is not positive.  Counts of pops are not negative.  *)
(* SEXPIREAT is no command: it is Set.ExpireAt, which only loadRDB calls.  *)
SET(k, v, ttl)  == [op |-> "SET", key |-> k, val |-> v, ttl |-> ttl]
DEL(ks)         == [op |-> "DEL", keys |-> ks]
EXPIRE(k, ttl)  == [op |-> "EXPIRE", key |-> k, ttl |-> ttl]
SEXPIRE(k, ttl) == [op |-> "SEXPIRE", key |-> k, ttl |-> ttl]
PEXPIREAT(k, at) == [op |-> "PEXPIREAT", key |-> k, at |-> at]
SADD(k, ms)     == [op |-> "SADD", key |-> k, members |-> ms]
SREM(k, ms)     == [op |-> "SREM", key |-> k, members |-> ms]
LPUSH(k, vs)    == [op |-> "LPUSH", key |-> k, vals |-> vs]
RPUSH(k, vs)    == [op |-> "RPUSH", key |-> k, vals |-> vs]
LPOP(k, n)      == [op |-> "LPOP", key |-> k, count |-> n]
RPOP(k, n)      == [op |-> "RPOP", key |-> k, count |-> n]
SORT(k, asc)    == [op |-> "SORT", key |-> k, asc |-> asc]
HSET(k, fv)     == [op |-> "HSET", key |-> k, pairs |-> fv]
HDEL(k, fs)     == [op |-> "HDEL", key |-> k, fields |-> fs]

(* All commands there can be.                                              *)
Command ==
  [op : {"SET"}, key : Key, val : Value, ttl : Nat]
    \cup [op : {"DEL"}, keys : SUBSET Key]
    \cup [op : {"EXPIRE", "SEXPIRE"}, key : Key, ttl : Nat]
    \cup [op : {"PEXPIREAT", "SEXPIREAT"}, key : Key, at : Nat \ {0}]
    \cup [op : {"SADD", "SREM"}, key : Key, members : (SUBSET Value) \ {{}}]
    \cup [op : {"LPUSH", "RPUSH"}, key : Key, vals : Seq(Value)]
    \cup [op : {"LPOP", "RPOP"}, key : Key, count : Nat]
    \cup [op : {"SORT"}, key : Key, asc : BOOLEAN]
    \cup [op : {"HSET"}, key : Key, pairs : HashItem]
    \cup [op : {"HDEL"}, key : Key, fields : SUBSET Field]

(* Those that clients send.                                                *)
Sendable == {c \in Command : c.op # "SEXPIREAT"}

KeysOf(c) == IF c.op = "DEL" THEN c.keys ELSE {c.key}

(* The clock reads now once the tick of that number has passed, and with   *)
(* it the deadlines of that tick.                                          *)
Past(at, now) == at <= now

(* Mutant of Redated: it takes every deadline as it comes.                 *)
RedatedUnseen(item, at, now) ==
  IF item = Absent THEN Absent ELSE [item EXCEPT !.deadline = at]

(* What each handler does to the store it works on.  EXPIRE finds an item  *)
(* past its own deadline as long as nobody has deleted it.                 *)
Redated(item, at, now) ==
  IF item = Absent \/ Past(at, now) THEN Absent ELSE [item EXCEPT !.deadline = at]

Sadd(item, ms) ==
  IF item = Absent THEN [members |-> ms, deadline |-> 0]
                   ELSE [item EXCEPT !.members = @ \cup ms]

(* Mutant of Srem: the emptied set stays under its key.                    *)
SremLeavesEmpty(item, ms) ==
  IF item = Absent THEN Absent ELSE [item EXCEPT !.members = @ \ ms]

Srem(item, ms) ==
  IF item = Absent \/ (item # Absent /\ item.members \subseteq ms)
  THEN Absent ELSE [item EXCEPT !.members = @ \ ms]

(* What sort.Slice makes of a list: equal elements cannot be told apart.   *)
Sorted(list, asc) == CHOOSE t \in Sortings(list, asc) : TRUE

Overwrite(hash, pairs) ==
  [f \in DOMAIN pairs \cup DOMAIN hash |-> IF f \in DOMAIN pairs THEN pairs[f] ELSE hash[f]]

Exec(db, c, now) ==
  CASE c.op = "SET"   -> [db EXCEPT !.dict[c.key] =
                            [value |-> c.val, deadline |-> IF c.ttl = 0 THEN 0 ELSE now + c.ttl]]
    [] c.op = "DEL"   -> [db EXCEPT !.dict = [k \in Key |->
                                      IF k \in c.keys THEN Absent ELSE @[k]]]
    [] c.op = "EXPIRE"    -> [db EXCEPT !.dict[c.key] = Redated(@, now + c.ttl, now)]
    [] c.op = "PEXPIREAT" -> [db EXCEPT !.dict[c.key] = Redated(@, c.at, now)]
    [] c.op = "SADD"  -> [db EXCEPT !.set[c.key] = Sadd(@, c.members)]
    [] c.op = "SREM"  -> [db EXCEPT !.set[c.key] = Srem(@, c.members)]
    [] c.op = "SEXPIRE"   -> [db EXCEPT !.set[c.key] = Redated(@, now + c.ttl, now)]
    [] c.op = "SEXPIREAT" -> [db EXCEPT !.set[c.key] = Redated(@, c.at, now)]
    [] c.op = "LPUSH" -> [db EXCEPT !.list[c.key] = Reverse(c.vals) \o @]
    [] c.op = "RPUSH" -> [db EXCEPT !.list[c.key] = @ \o c.vals]
    [] c.op = "LPOP"  -> [db EXCEPT !.list[c.key] = SubSeq(@, c.count + 1, Len(@))]
    [] c.op = "RPOP"  -> [db EXCEPT !.list[c.key] = SubSeq(@, 1, Len(@) - c.count)]
    [] c.op = "SORT"  -> [db EXCEPT !.list[c.key] = Sorted(@, c.asc)]
    [] c.op = "HSET"  -> [db EXCEPT !.hash[c.key] = Overwrite(@, c.pairs)]
    [] c.op = "HDEL"  -> [db EXCEPT !.hash[c.key] =
                            [f \in DOMAIN @ \ c.fields |-> @[f]]]

Members(item) == IF item = Absent THEN {} ELSE item.members

(* The counts that SADD, SREM, HSET and HDEL return, as far as whether     *)
(* they are more than 0.                                                   *)
AddsMember(item, ms) == ~(ms \subseteq Members(item))

(* Mutant of RemovesMember: all members must have been there.              *)
RemovesAll(item, ms) == ms \subseteq Members(item)

RemovesMember(item, ms) == ms \cap Members(item) # {}

(* Mutant of AddsField: all fields must be new.                            *)
AddsAll(hash, pairs) == DOMAIN pairs \cap DOMAIN hash = {}

AddsField(hash, pairs)     == ~(DOMAIN pairs \subseteq DOMAIN hash)
RemovesField(hash, fields) == fields \cap DOMAIN hash # {}

SetRecords(c, now) ==
  <<SET(c.key, c.val, 0)>>
    \o (IF c.ttl # 0 THEN <<PEXPIREAT(c.key, now + c.ttl)>> ELSE << >>)

(* Mutant of PushRecords: only the first value of a push is logged.        *)
FirstPushed(c) == <<[c EXCEPT !.vals = <<Head(@)>>]>>

PushRecords(c) == <<c>>

If(cond, records) == IF cond THEN records ELSE << >>

(* What the handler of c appends to the AOF, in order, when it ran on db:  *)
(* SET with a TTL makes two records, a count of 0 makes none, PEXPIREAT and *)
(* the pops never make one.  The record of a TTL is its deadline.          *)
Logged(db, c, now) ==
  CASE c.op = "SET"     -> SetRecords(c, now)
    [] c.op \in {"DEL", "SORT"} -> <<c>>
    [] c.op \in {"LPUSH", "RPUSH"} -> PushRecords(c)
    [] c.op = "EXPIRE"  -> If(db.dict[c.key] # Absent, <<PEXPIREAT(c.key, now + c.ttl)>>)
    [] c.op = "SEXPIRE" -> If(db.set[c.key] # Absent, <<PEXPIREAT(c.key, now + c.ttl)>>)
    [] c.op = "SADD"    -> If(AddsMember(db.set[c.key], c.members), <<c>>)
    [] c.op = "SREM"    -> If(RemovesMember(db.set[c.key], c.members), <<c>>)
    [] c.op = "HSET"    -> If(AddsField(db.hash[c.key], c.pairs), <<c>>)
    [] c.op = "HDEL"    -> If(RemovesField(db.hash[c.key], c.fields), <<c>>)
    [] c.op \in {"PEXPIREAT", "SEXPIREAT", "LPOP", "RPOP"} -> << >>

-----------------------------------------------------------------------------
(* The commands cmds[x] of every x, one x after the other in some order.   *)
InSomeOrder(cmds) ==
  LET s == SetToSeq(DOMAIN cmds) IN FlattenSeq([i \in DOMAIN s |-> cmds[s[i]]])

(* Mutant of Refill: the list comes back reversed.                         *)
RefillFront(k, vs) == LPUSH(k, vs)

Refill(k, vs) == RPUSH(k, vs)

(* The commands that build a dump up again from nothing, store by store;   *)
(* redate is the command that puts the deadline of a set back.             *)
Commands(d, redate) ==
  InSomeOrder([k \in {j \in Key : d.dict[j] # Absent} |->
    <<SET(k, d.dict[k].value, 0)>>
      \o If(d.dict[k].deadline # 0, <<PEXPIREAT(k, d.dict[k].deadline)>>)])
  \o
  InSomeOrder([k \in {j \in Key : Members(d.set[j]) # {}} |->
    <<SADD(k, d.set[k].members)>>
      \o If(d.set[k].deadline # 0, <<[op |-> redate, key |-> k, at |-> d.set[k].deadline]>>)])
  \o
  InSomeOrder([k \in {j \in Key : d.list[j] # << >>} |-> <<Refill(k, d.list[k])>>])
  \o
  InSomeOrder([k \in Key |-> InSomeOrder([f \in DOMAIN d.hash[k] |->
                               <<HSET(k, [g \in {f} |-> d.hash[k][f]])>>])])

(* What the clients can see of the stores, and what Dump takes of them:    *)
(* the items past their deadlines are left out (dict.go:190, set.go:173).  *)
Live(item, now) == item # Absent /\ (item.deadline # 0 => ~Past(item.deadline, now))

Alive(items, now) == [k \in Key |-> IF Live(items[k], now) THEN items[k] ELSE Absent]

Visible(db, now) == [db EXCEPT !.dict = Alive(@, now), !.set = Alive(@, now)]

(* The log replayed at a time that is now for all of it.  Replayed at time *)
(* 0, before every deadline, it deletes nothing but what DEL and SREM do.  *)
Replayed(db, log, now) == FoldLeft(LAMBDA d, c : Exec(d, c, now), db, log)

(* Mutant of LoadedRDB: deadlines of sets go where the rewrite puts them.  *)
LoadedAsRewritten(snapshot, now) ==
  IF snapshot = Absent THEN EmptyDB
  ELSE Replayed(EmptyDB, Commands(snapshot, "PEXPIREAT"), now)

(* loadRDB calls the stores: Set.ExpireAt for the deadline of a set.       *)
LoadedRDB(snapshot, now) ==
  IF snapshot = Absent THEN EmptyDB
  ELSE Replayed(EmptyDB, Commands(snapshot, "SEXPIREAT"), now)

(* RewriteWithLists writes PEXPIREAT for it, which replays on the dict.    *)
Rewritten(dump) == Commands(dump, "PEXPIREAT")

(* The database after a start at time now on these two files.              *)
Recovered(rdb, log, now) == Replayed(LoadedRDB(rdb, now), log, now)
=============================================================================

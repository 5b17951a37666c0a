-------------------------------- MODULE Set --------------------------------
(***************************************************************************)
(* datastructure.Set at the grain of its RWMutex.  An item holds a Go map: *)
(* copies of an item share it, so the map a reader walks after it released *)
(* the lock is the one that SADD and SREM change under the lock.  Go ends  *)
(* the process when it notices a map used by one goroutine while another   *)
(* writes it; when it does not, the reader sees some of the changes.       *)
(***************************************************************************)
EXTENDS Integers, Sequences, FiniteSets

CONSTANTS
  Client, Key, Member,
  MapId,         \* names for the maps a key has had that are still in use
  Absent,        \* no item under a key
  NoTtl,         \* the zero time.Time: the item never expires
  NoCall,        \* no call in progress
  NoResult,      \* no result fixed (for the refinement)
  Uses,          \* Uses[c]: the keys client c names in its commands
  Names,         \* Names[c]: the sets of members it names in SADD and SREM
  Ttls,          \* durations SEXPIRE may give
  MaxTime,       \* bound: the clock stops there
  SampleSize,    \* config MaxSampleSize
  SampleRounds   \* config MaxSampleRounds

ASSUME SetAssumption ==
  /\ IsFiniteSet(Key) /\ IsFiniteSet(Member)
  /\ IsFiniteSet(Client) /\ IsFiniteSet(MapId)
  /\ Cardinality(MapId) >= Cardinality(Client)
  /\ Uses \in [Client -> SUBSET Key]
  /\ Names \in [Client -> SUBSET ((SUBSET Member) \ {{}})]
  /\ Absent \notin [map : MapId, members : SUBSET Member, exp : Nat \cup {NoTtl}]
  /\ Absent \notin [members : SUBSET Member, exp : Nat \cup {NoTtl}]
  /\ NoTtl \notin Int
  /\ NoResult \notin {"n", "members"} \X (Nat \cup SUBSET Member)
  /\ Ttls \subseteq Int
  /\ MaxTime \in Nat \ {0}
  /\ SampleSize \in Nat /\ SampleRounds \in Nat

VARIABLES
  items,    \* items[k]: [map, members, exp] or Absent
  now,      \* time.Now()
  pc,       \* pc[c]: "idle", "check" (item read), "passive", "write", "walk"
  call,     \* call[c]: what c is executing: [op, key, arg], or NoCall
  read,     \* read[c]: the copy of the item c read, Absent when idle
  walk,     \* walk[c]: [sure, maybe]: members there all the time, or once
  answer,   \* the last answer given: <<client, result>>
  sweep,    \* the expiration loop: [at, round, keys, left, checked, expired]
  crashed   \* "fatal error: concurrent map read and map write"

client == <<pc, call, read, walk>>
vars   == <<items, now, client, answer, sweep, crashed>>

isExpired(item) == item # Absent /\ item.exp # NoTtl /\ now > item.exp

NoWalk   == [sure |-> {}, maybe |-> {}]
Asleep   == [at |-> "asleep", round |-> 0, keys |-> {}, left |-> 0,
             checked |-> 0, expired |-> 0]
LockFree == sweep.at = "asleep"

Init ==
  /\ items   = [k \in Key |-> Absent]
  /\ now     = 1
  /\ pc      = [c \in Client |-> "idle"]
  /\ call    = [c \in Client |-> NoCall]
  /\ read    = [c \in Client |-> Absent]
  /\ walk    = [c \in Client |-> NoWalk]
  /\ answer  = << >>
  /\ sweep   = Asleep
  /\ crashed = FALSE

(* The copies of k's item that share its map, and who is going through it. *)
Shares(c, k) == read[c] # Absent /\ call[c].key = k /\ read[c].map = items[k].map
Walks(c, k)  == pc[c] = "walk" /\ Shares(c, k)

(* The members in the map of k's item become ms, in every copy of it.      *)
(* SCARD's len(map) is the one use that the Go runtime does not check.     *)
Changes(k, ms) ==
  /\ read' = [c \in Client |->
       IF Shares(c, k) THEN [read[c] EXCEPT !.members = ms] ELSE read[c]]
  /\ walk' = [c \in Client |->
       IF Walks(c, k)
       THEN [sure |-> walk[c].sure \cap ms, maybe |-> walk[c].maybe \cup ms]
       ELSE walk[c]]
  /\ crashed' \in IF /\ ms # items[k].members
                     /\ \E c \in Client : Walks(c, k) /\ call[c].op # "scard"
                  THEN BOOLEAN ELSE {FALSE}

(* A map that no copy of an item of k refers to.                           *)
Fresh(k) ==
  CHOOSE i \in MapId :
    \A c \in Client : read[c] # Absent /\ call[c].key = k => read[c].map # i

Holds(c, op, k, arg, next) ==
  /\ items[k] # Absent
  /\ pc'   = [pc   EXCEPT ![c] = next]
  /\ call' = [call EXCEPT ![c] = [op |-> op, key |-> k, arg |-> arg]]
  /\ read' = [read EXCEPT ![c] = items[k]]
  /\ UNCHANGED <<walk, answer>>

Misses(k, result) == items[k] = Absent /\ answer' = result /\ UNCHANGED client

Returns(c, result) ==
  /\ pc'     = [pc   EXCEPT ![c] = "idle"]
  /\ call'   = [call EXCEPT ![c] = NoCall]
  /\ read'   = [read EXCEPT ![c] = Absent]
  /\ walk'   = [walk EXCEPT ![c] = NoWalk]
  /\ answer' = <<c>> \o result

-----------------------------------------------------------------------------
(* Calls of one critical section.  SADD extends whatever is under the key, *)
(* its deadline passed or not.                                             *)
Sadd(c, k, ms) ==
  /\ pc[c] = "idle" /\ LockFree
  /\ \/ /\ items[k] = Absent
        /\ items' = [items EXCEPT ![k] =
                       [map |-> Fresh(k), members |-> ms, exp |-> NoTtl]]
        /\ answer' = <<c, "n", Cardinality(ms)>>
        /\ UNCHANGED <<read, walk, crashed>>
     \/ /\ items[k] # Absent
        /\ items' = [items EXCEPT ![k].members = @ \cup ms]
        /\ answer' = <<c, "n", Cardinality(ms \ items[k].members)>>
        /\ Changes(k, items[k].members \cup ms)
  /\ UNCHANGED <<now, pc, call, sweep>>

Present    == {k \in Key : items[k] # Absent}
Content(k) == IF k \in Present THEN items[k].members ELSE {}

(* Mutant of Srem: the key stays when its last member goes.                *)
SremLeavesEmpty(c, k, ms) ==
  /\ pc[c] = "idle" /\ LockFree
  /\ IF Content(k) = {} THEN UNCHANGED <<items, read, walk, crashed>>
     ELSE /\ items' = [items EXCEPT ![k].members = @ \ ms]
          /\ Changes(k, Content(k) \ ms)
  /\ answer' = <<c, "n", Cardinality(ms \cap Content(k))>>
  /\ UNCHANGED <<now, pc, call, sweep>>

Srem(c, k, ms) ==
  /\ pc[c] = "idle" /\ LockFree
  /\ \/ /\ Content(k) = {}
        /\ UNCHANGED <<items, read, walk, crashed>>
     \/ LET left == Content(k) \ ms IN
        /\ Content(k) # {}
        /\ items' = [items EXCEPT ![k] = IF left = {} THEN Absent
                                         ELSE [items[k] EXCEPT !.members = left]]
        /\ Changes(k, left)
  /\ answer' = <<c, "n", Cardinality(ms \cap Content(k))>>
  /\ UNCHANGED <<now, pc, call, sweep>>

Dump(c) ==
  /\ pc[c] = "idle" /\ LockFree
  /\ answer' = <<c, "dump", [k \in {j \in Present : ~isExpired(items[j])} |->
                              [members |-> Content(k), exp |-> items[k].exp]]>>
  /\ UNCHANGED <<items, now, client, sweep, crashed>>

(* Calls that read first.                                                  *)
NothingFor(op) == CASE op = "smembers" -> <<"nil">>
                    [] op = "ttl"      -> <<"n", -2>>
                    [] OTHER           -> <<"n", 0>>

Looks(c, op, k, arg) ==
  /\ pc[c] = "idle" /\ LockFree
  /\ \/ Misses(k, <<c>> \o NothingFor(op))
     \/ Holds(c, op, k, arg, IF op = "expire" THEN "write" ELSE "check")
  /\ UNCHANGED <<items, now, sweep, crashed>>

Smembers(c, k)     == Looks(c, "smembers", k, 0)
Sismember(c, k, m) == Looks(c, "sismember", k, m)
Scard(c, k)        == Looks(c, "scard", k, 0)
TTL(c, k)          == Looks(c, "ttl", k, 0)
Expire(c, k, ttl)  == Looks(c, "expire", k, ttl)

(* No lock held from here on: the clock is looked at, then the map.        *)
CheckLive(c) ==
  /\ pc[c] = "check" /\ ~isExpired(read[c])
  /\ \/ /\ call[c].op = "ttl"
        /\ Returns(c, <<"n", IF read[c].exp = NoTtl THEN -1 ELSE read[c].exp - now>>)
     \/ /\ call[c].op # "ttl"
        /\ pc'   = [pc EXCEPT ![c] = "walk"]
        /\ walk' = [walk EXCEPT ![c] = [sure  |-> read[c].members,
                                        maybe |-> read[c].members]]
        /\ UNCHANGED <<call, read, answer>>
  /\ UNCHANGED <<items, now, sweep, crashed>>

(* What a read gives that came upon the members found.                     *)
Result(c, found) ==
  CASE call[c].op = "smembers"  -> <<"members", found>>
    [] call[c].op = "sismember" -> <<"n", IF call[c].arg \in found THEN 1 ELSE 0>>
    [] call[c].op = "scard"     -> <<"n", Cardinality(found)>>

WalkEnd(c) ==
  /\ pc[c] = "walk"
  /\ \E found \in SUBSET walk[c].maybe :
       /\ walk[c].sure \subseteq found
       /\ Returns(c, Result(c, found))
  /\ UNCHANGED <<items, now, sweep, crashed>>

(* Mutant of CheckExpired: any deadline counts as passed.                  *)
CheckAnyDeadline(c) ==
  /\ pc[c] = "check" /\ read[c].exp # NoTtl
  /\ pc' = [pc EXCEPT ![c] = "passive"]
  /\ UNCHANGED <<items, now, call, read, walk, answer, sweep, crashed>>

CheckExpired(c) ==
  /\ pc[c] = "check" /\ isExpired(read[c])
  /\ pc' = [pc EXCEPT ![c] = "passive"]
  /\ UNCHANGED <<items, now, call, read, walk, answer, sweep, crashed>>

(* passiveExpire deletes whatever is under the key by now.                 *)
passiveExpire(c) ==
  /\ pc[c] = "passive" /\ LockFree
  /\ items' = [items EXCEPT ![call[c].key] = Absent]
  /\ Returns(c, NothingFor(call[c].op))
  /\ UNCHANGED <<now, sweep, crashed>>

(* Mutant of WriteBack: a ttl of 0 or less does not delete.                *)
WriteBackPast(c) ==
  /\ pc[c] = "write" /\ LockFree
  /\ items' = [items EXCEPT ![call[c].key] = [read[c] EXCEPT !.exp = now + call[c].arg]]
  /\ Returns(c, <<"n", 1>>)
  /\ UNCHANGED <<now, sweep, crashed>>

(* Expire writes back its copy, which shares the map, or deletes the key.  *)
WriteBack(c) ==
  /\ pc[c] = "write" /\ LockFree
  /\ items' = [items EXCEPT ![call[c].key] =
                 IF call[c].arg <= 0 THEN Absent
                 ELSE [read[c] EXCEPT !.exp = now + call[c].arg]]
  /\ Returns(c, <<"n", 1>>)
  /\ UNCHANGED <<now, sweep, crashed>>

-----------------------------------------------------------------------------
(* The expiration loop holds the lock from the emptiness test to its end.  *)
Round(n) ==
  [at |-> "sampling", round |-> n, keys |-> Present,
   left |-> IF Cardinality(Present) < SampleSize
            THEN Cardinality(Present) ELSE SampleSize,
   checked |-> 0, expired |-> 0]

SweepStart ==
  /\ sweep.at = "asleep"
  /\ Present # {} /\ SampleRounds > 0
  /\ sweep' = Round(1)
  /\ UNCHANGED <<items, now, client, answer, crashed>>

(* Mutant of Evicted: every key with a deadline goes.                      *)
EvictedEarly(k) ==
  /\ items' = IF items[k] # Absent /\ items[k].exp # NoTtl
              THEN [items EXCEPT ![k] = Absent] ELSE items
  /\ UNCHANGED <<read, walk, crashed>>

Evicted(k) ==
  /\ items' = IF isExpired(items[k]) THEN [items EXCEPT ![k] = Absent] ELSE items
  /\ UNCHANGED <<read, walk, crashed>>

(* Mutant of SweepSample: a key that is gone counts as expired.            *)
SampleCountsGone(k) ==
  /\ sweep.at = "sampling" /\ sweep.left > 0 /\ k \in sweep.keys
  /\ sweep' = [sweep EXCEPT
                 !.left    = @ - 1,
                 !.checked = IF items[k] = Absent THEN @ ELSE @ + 1,
                 !.expired = IF items[k] = Absent \/ isExpired(items[k])
                             THEN @ + 1 ELSE @]
  /\ Evicted(k)
  /\ UNCHANGED <<now, pc, call, answer>>

SweepSample(k) ==
  /\ sweep.at = "sampling" /\ sweep.left > 0 /\ k \in sweep.keys
  /\ sweep' = [sweep EXCEPT
                 !.left    = @ - 1,
                 !.checked = IF items[k] = Absent THEN @ ELSE @ + 1,
                 !.expired = IF isExpired(items[k]) THEN @ + 1 ELSE @]
  /\ Evicted(k)
  /\ UNCHANGED <<now, pc, call, answer>>

FewExpired == sweep.checked = 0 \/ sweep.expired * 4 < sweep.checked

SweepRoundEnd ==
  /\ sweep.at = "sampling" /\ sweep.left = 0
  /\ sweep' = IF FewExpired \/ sweep.round >= SampleRounds
              THEN Asleep ELSE Round(sweep.round + 1)
  /\ UNCHANGED <<items, now, client, answer, crashed>>

Sweep == SweepStart \/ (\E k \in Key : SweepSample(k)) \/ SweepRoundEnd

Tick ==
  /\ now < MaxTime
  /\ now' = now + 1
  /\ UNCHANGED <<items, client, answer, sweep, crashed>>

Command(c) ==
  \/ \E k \in Uses[c] :
       \/ \E ms \in Names[c] : Sadd(c, k, ms)
       \/ \E ms \in Names[c] : Srem(c, k, ms)
       \/ Smembers(c, k)
       \/ \E m \in UNION Names[c] : Sismember(c, k, m)
       \/ Scard(c, k)
       \/ TTL(c, k)
       \/ \E ttl \in Ttls : Expire(c, k, ttl)
  \/ Dump(c)

Continue(c) ==
  CheckLive(c) \/ WalkEnd(c) \/ CheckExpired(c) \/ passiveExpire(c) \/ WriteBack(c)

Next ==
  /\ ~crashed
  /\ \/ \E c \in Client : Command(c)
     \/ \E c \in Client : Continue(c)
     \/ Sweep
     \/ Tick

Spec == Init /\ [][Next]_vars

-----------------------------------------------------------------------------
(* Type invariant: shapes of items, calls in progress and the loop.        *)
Item == [map : MapId, members : SUBSET Member, exp : Nat \cup {NoTtl}]

Idling(c) ==
  pc[c] = "idle" /\ call[c] = NoCall /\ read[c] = Absent /\ walk[c] = NoWalk

Calling(c) ==
  /\ pc[c] # "idle"
  /\ read[c] \in Item
  /\ call[c].key \in Uses[c]
  /\ call[c].op \in CASE pc[c] = "write" -> {"expire"}
                      [] pc[c] = "walk"  -> {"smembers", "sismember", "scard"}
                      [] OTHER -> {"smembers", "sismember", "scard", "ttl"}
  /\ walk[c] \in [sure : SUBSET Member, maybe : SUBSET Member]

SweepOK ==
  /\ sweep \in [at : {"asleep", "sampling"}, round : Nat, keys : SUBSET Key,
                left : 0 .. SampleSize, checked : Nat, expired : Nat]
  /\ sweep.expired <= sweep.checked
  /\ sweep.checked + sweep.left <= SampleSize

TypeOK ==
  /\ items \in [Key -> Item \cup {Absent}]
  /\ now \in 1 .. MaxTime
  /\ pc \in [Client -> {"idle", "check", "passive", "write", "walk"}]
  /\ \A c \in Client : Idling(c) \/ Calling(c)
  /\ SweepOK
  /\ crashed \in BOOLEAN

(* No two clients name the same key.                                       *)
ExclusiveKeys == \A c, d \in Client : c # d => Uses[c] \cap Uses[d] = {}

(* SREM takes the key away with the last member, and nothing brings an     *)
(* empty set back (set.go:71-75, 120-133).                                 *)
NoEmptySet == \A k \in Present : Content(k) # {}

(* SMEMBERS, SISMEMBER, SCARD and STTL delete only what has expired        *)
(* (set.go:27-35, 79-118, 152-166).                                        *)
PassiveTargetsExpired ==
  \A c \in Client :
    pc[c] = "passive" => LET i == items[call[c].key] IN i = Absent \/ isExpired(i)

(* No call works on an outdated copy: the item a call read is still the    *)
(* one under its key, or the loop took it away expired (set.go:79-166).    *)
CopiesCurrent ==
  \A c \in Client :
    pc[c] \in {"check", "write", "walk"} =>
      LET i == items[call[c].key]
      IN  i = read[c] \/ (i = Absent /\ isExpired(read[c]))

(* The process does not end because a member map is read while it is       *)
(* written (set.go:88-91, 103).                                            *)
NeverCrashes == ~crashed

(* What SMEMBERS and SISMEMBER answer is what one state of the set holds,  *)
(* nothing of a change half seen (set.go:79-105).                          *)
WalksExact == \A c \in Client : pc[c] = "walk" => walk[c].sure = walk[c].maybe

(* The store implements TTLSets.  A read's result is fixed when it has     *)
(* found the deadline not passed; between the halves of a SEXPIRE the key  *)
(* stands for the copy that will be written back.                          *)
Writer(k) == {c \in Client : pc[c] = "write" /\ call[c].key = k}

Store == [k \in Key |->
  LET item == IF Writer(k) # {} THEN read[CHOOSE c \in Writer(k) : TRUE] ELSE items[k]
  IN  IF item = Absent THEN Absent ELSE [members |-> item.members, exp |-> item.exp]]

Due == [c \in Client |-> IF pc[c] = "walk" THEN Result(c, walk[c].sure) ELSE NoResult]

Atomic == INSTANCE TTLSets WITH store <- Store, due <- Due

(* Each command takes effect at one instant (set.go:37-184).               *)
CommandsAtomic == Atomic!Spec

(* What SADD was told it added is there to be read: an answer of n > 0     *)
(* leaves the set alive.                                                   *)
AddedIsReadable ==
  [][\A c \in Client, k \in Key : \A ms \in Names[c] :
       Sadd(c, k, ms) => ~isExpired(items'[k])]_vars
=============================================================================

-------------------------------- MODULE Dict --------------------------------
(***************************************************************************)
(* datastructure.Dict: the string dictionary, at the grain of its RWMutex. *)
(* A call that takes the lock once is one step.  Get, TTL, Expire and      *)
(* ExpireAt read the item under the read lock, release it, and act on the  *)
(* copy later: the clock, the other clients and the expiration loop run in *)
(* between.  The loop keeps the write lock for a whole activeExpire, of    *)
(* which every sample is a step: the clock advances meanwhile.             *)
(***************************************************************************)
EXTENDS Integers, FiniteSets

CONSTANTS
  Client, Key, Value,
  Absent,        \* no item under a key
  NoTtl,         \* the zero time.Time: the item never expires
  NoCall,        \* no call in progress
  Uses,          \* Uses[c]: the keys client c names in its commands
  Ttls,          \* durations a command may give; <= 0 means none or past
  MaxTime,       \* bound: the clock stops there
  SampleSize,    \* config MaxSampleSize
  SampleRounds   \* config MaxSampleRounds

ASSUME DictAssumption ==
  /\ IsFiniteSet(Key)
  /\ Uses \in [Client -> SUBSET Key]
  /\ Absent \notin [value : Value, exp : Nat \cup {NoTtl}]
  /\ NoTtl \notin Int
  /\ Ttls \subseteq Int
  /\ MaxTime \in Nat \ {0}
  /\ SampleSize \in Nat /\ SampleRounds \in Nat

VARIABLES
  items,   \* items[k]: [value, exp] or Absent
  now,     \* time.Now()
  pc,      \* pc[c]: "idle", "check" (item read), "passive", "write"
  call,    \* call[c]: what c is executing: [op, key, arg], or NoCall
  read,    \* read[c]: the copy of the item c read, Absent when idle
  answer,  \* the last answer given: <<client, result>>
  sweep    \* the expiration loop: [at, round, keys, left, checked, expired]

client == <<pc, call, read>>
vars   == <<items, now, pc, call, read, answer, sweep>>

isExpired(item) == item # Absent /\ item.exp # NoTtl /\ now > item.exp

Asleep   == [at |-> "asleep", round |-> 0, keys |-> {}, left |-> 0,
             checked |-> 0, expired |-> 0]
LockFree == sweep.at # "sampling"

Init ==
  /\ items  = [k \in Key |-> Absent]
  /\ now    = 1
  /\ pc     = [c \in Client |-> "idle"]
  /\ call   = [c \in Client |-> NoCall]
  /\ read   = [c \in Client |-> Absent]
  /\ answer = << >>
  /\ sweep  = Asleep

(* getItem found the key: c goes on with a copy of the item.               *)
Holds(c, op, k, arg, next) ==
  /\ items[k] # Absent
  /\ pc'   = [pc   EXCEPT ![c] = next]
  /\ call' = [call EXCEPT ![c] = [op |-> op, key |-> k, arg |-> arg]]
  /\ read' = [read EXCEPT ![c] = items[k]]
  /\ UNCHANGED answer

(* getItem did not find it: the answer is given at once.                   *)
Misses(k, result) == items[k] = Absent /\ answer' = result /\ UNCHANGED client

Returns(c, result) ==
  /\ pc'     = [pc   EXCEPT ![c] = "idle"]
  /\ call'   = [call EXCEPT ![c] = NoCall]
  /\ read'   = [read EXCEPT ![c] = Absent]
  /\ answer' = result

-----------------------------------------------------------------------------
(* Calls of one critical section.                                          *)
Set(c, k, v, ttl) ==
  /\ pc[c] = "idle" /\ LockFree
  /\ items' = [items EXCEPT ![k] =
                 [value |-> v, exp |-> IF ttl > 0 THEN now + ttl ELSE NoTtl]]
  /\ answer' = <<c, "ok">>
  /\ UNCHANGED <<now, client, sweep>>

Delete(c, ks) ==
  /\ pc[c] = "idle" /\ LockFree
  /\ items' = [k \in Key |-> IF k \in ks THEN Absent ELSE items[k]]
  /\ answer' = <<c, "deleted", Cardinality({k \in ks : items[k] # Absent})>>
  /\ UNCHANGED <<now, client, sweep>>

Dump(c) ==
  /\ pc[c] = "idle" /\ LockFree
  /\ answer' = <<c, "dump",
       [k \in {j \in Key : items[j] # Absent /\ ~isExpired(items[j])} |-> items[k]]>>
  /\ UNCHANGED <<items, now, client, sweep>>

(* Calls that read first.                                                  *)
Get(c, k) ==
  /\ pc[c] = "idle" /\ LockFree
  /\ Misses(k, <<c, "nil">>) \/ Holds(c, "get", k, 0, "check")
  /\ UNCHANGED <<items, now, sweep>>

TTL(c, k) ==
  /\ pc[c] = "idle" /\ LockFree
  /\ Misses(k, <<c, "ttl", -2>>) \/ Holds(c, "ttl", k, 0, "check")
  /\ UNCHANGED <<items, now, sweep>>

Expire(c, k, ttl) ==
  /\ pc[c] = "idle" /\ LockFree
  /\ Misses(k, <<c, "redated", FALSE>>) \/ Holds(c, "expire", k, ttl, "write")
  /\ UNCHANGED <<items, now, sweep>>

ExpireAt(c, k, at) ==
  /\ pc[c] = "idle" /\ LockFree
  /\ Misses(k, <<c, "redated", FALSE>>) \/ Holds(c, "expireat", k, at, "write")
  /\ UNCHANGED <<items, now, sweep>>

(* Get and TTL look at the clock with no lock held.                        *)
CheckLive(c) ==
  /\ pc[c] = "check"
  /\ ~isExpired(read[c])
  /\ \/ /\ call[c].op = "get"
        /\ Returns(c, <<c, "value", read[c].value>>)
     \/ /\ call[c].op = "ttl" /\ read[c].exp = NoTtl
        /\ Returns(c, <<c, "ttl", -1>>)
     \/ /\ call[c].op = "ttl" /\ read[c].exp # NoTtl
        /\ Returns(c, <<c, "ttl", read[c].exp - now>>)
  /\ UNCHANGED <<items, now, sweep>>

(* Mutant of CheckExpired: any deadline counts as passed.                  *)
CheckAnyDeadline(c) ==
  /\ pc[c] = "check"
  /\ read[c].exp # NoTtl
  /\ pc' = [pc EXCEPT ![c] = "passive"]
  /\ UNCHANGED <<items, now, call, read, answer, sweep>>

CheckExpired(c) ==
  /\ pc[c] = "check"
  /\ isExpired(read[c])
  /\ pc' = [pc EXCEPT ![c] = "passive"]
  /\ UNCHANGED <<items, now, call, read, answer, sweep>>

(* passiveExpire deletes whatever is under the key by now.                 *)
passiveExpire(c) ==
  /\ pc[c] = "passive" /\ LockFree
  /\ items' = [items EXCEPT ![call[c].key] = Absent]
  /\ \/ call[c].op = "get" /\ Returns(c, <<c, "nil">>)
     \/ call[c].op = "ttl" /\ Returns(c, <<c, "ttl", -2>>)
  /\ UNCHANGED <<now, sweep>>

(* Expire and ExpireAt write the copy back, with its new deadline, or      *)
(* delete the key when the deadline has passed.                            *)
Deadline(c) == IF call[c].op = "expire" THEN now + call[c].arg ELSE call[c].arg
Past(c)     == IF call[c].op = "expire" THEN call[c].arg <= 0 ELSE call[c].arg < now

(* Mutant of WriteBack: a deadline in the past does not delete.            *)
WriteBackPast(c) ==
  /\ pc[c] = "write" /\ LockFree
  /\ items' = [items EXCEPT ![call[c].key] = [read[c] EXCEPT !.exp = Deadline(c)]]
  /\ Returns(c, <<c, "redated", TRUE>>)
  /\ UNCHANGED <<now, sweep>>

WriteBack(c) ==
  /\ pc[c] = "write" /\ LockFree
  /\ items' = [items EXCEPT ![call[c].key] =
                 IF Past(c) THEN Absent ELSE [read[c] EXCEPT !.exp = Deadline(c)]]
  /\ Returns(c, <<c, "redated", TRUE>>)
  /\ UNCHANGED <<now, sweep>>

-----------------------------------------------------------------------------
(* The expiration loop.  The emptiness test runs before the lock is taken. *)
Present == {k \in Key : items[k] # Absent}

Round(n) ==
  [at |-> "sampling", round |-> n, keys |-> Present,
   left |-> IF Cardinality(Present) < SampleSize
            THEN Cardinality(Present) ELSE SampleSize,
   checked |-> 0, expired |-> 0]

SweepWake ==
  /\ sweep.at = "asleep"
  /\ Present # {}
  /\ sweep' = [sweep EXCEPT !.at = "waking"]
  /\ UNCHANGED <<items, now, client, answer>>

SweepLock ==
  /\ sweep.at = "waking"
  /\ sweep' = IF SampleRounds > 0 THEN Round(1) ELSE Asleep
  /\ UNCHANGED <<items, now, client, answer>>

(* Mutants of SweepSample: a key that is gone counts as expired; every key *)
(* with a deadline is deleted; an expired key is counted but not deleted.  *)
SampleCountsGone(k) ==
  /\ sweep.at = "sampling" /\ sweep.left > 0
  /\ k \in sweep.keys
  /\ sweep' = [sweep EXCEPT
                 !.left    = @ - 1,
                 !.checked = IF items[k] = Absent THEN @ ELSE @ + 1,
                 !.expired = IF items[k] = Absent \/ isExpired(items[k])
                             THEN @ + 1 ELSE @]
  /\ items' = IF isExpired(items[k]) THEN [items EXCEPT ![k] = Absent] ELSE items
  /\ UNCHANGED <<now, client, answer>>

SampleDeletesDated(k) ==
  /\ sweep.at = "sampling" /\ sweep.left > 0
  /\ k \in sweep.keys
  /\ sweep' = [sweep EXCEPT
                 !.left    = @ - 1,
                 !.checked = IF items[k] = Absent THEN @ ELSE @ + 1,
                 !.expired = IF isExpired(items[k]) THEN @ + 1 ELSE @]
  /\ items' = IF items[k] # Absent /\ items[k].exp # NoTtl
              THEN [items EXCEPT ![k] = Absent] ELSE items
  /\ UNCHANGED <<now, client, answer>>

SampleKeeps(k) ==
  /\ sweep.at = "sampling" /\ sweep.left > 0
  /\ k \in sweep.keys
  /\ sweep' = [sweep EXCEPT
                 !.left    = @ - 1,
                 !.checked = IF items[k] = Absent THEN @ ELSE @ + 1,
                 !.expired = IF isExpired(items[k]) THEN @ + 1 ELSE @]
  /\ UNCHANGED <<items, now, client, answer>>

(* A key sampled twice may be gone the second time.                        *)
SweepSample(k) ==
  /\ sweep.at = "sampling" /\ sweep.left > 0
  /\ k \in sweep.keys
  /\ sweep' = [sweep EXCEPT
                 !.left    = @ - 1,
                 !.checked = IF items[k] = Absent THEN @ ELSE @ + 1,
                 !.expired = IF isExpired(items[k]) THEN @ + 1 ELSE @]
  /\ items' = IF isExpired(items[k]) THEN [items EXCEPT ![k] = Absent] ELSE items
  /\ UNCHANGED <<now, client, answer>>

FewExpired == sweep.checked = 0 \/ sweep.expired * 4 < sweep.checked

SweepRoundEnd ==
  /\ sweep.at = "sampling" /\ sweep.left = 0
  /\ sweep' = IF FewExpired \/ sweep.round >= SampleRounds
              THEN Asleep ELSE Round(sweep.round + 1)
  /\ UNCHANGED <<items, now, client, answer>>

Sweep == SweepWake \/ SweepLock \/ (\E k \in Key : SweepSample(k)) \/ SweepRoundEnd

Tick == now < MaxTime /\ now' = now + 1 /\ UNCHANGED <<items, client, answer, sweep>>

Command(c) ==
  \/ \E k \in Uses[c] :
       \/ \E v \in Value, ttl \in Ttls : Set(c, k, v, ttl)
       \/ Get(c, k)
       \/ TTL(c, k)
       \/ \E ttl \in Ttls : Expire(c, k, ttl)
       \/ \E at \in 1 .. MaxTime : ExpireAt(c, k, at)
  \/ \E ks \in SUBSET Uses[c] : Delete(c, ks)
  \/ Dump(c)

Continue(c) == CheckLive(c) \/ CheckExpired(c) \/ passiveExpire(c) \/ WriteBack(c)

Next ==
  \/ \E c \in Client : Command(c)
  \/ \E c \in Client : Continue(c)
  \/ Sweep
  \/ Tick

Spec == Init /\ [][Next]_vars

(* The ticker fires again and again and the lock is not withheld for ever  *)
(* (weak fairness); rand.IntN picks any key of a round with the same       *)
(* probability, so a key that is a candidate in infinitely many rounds is  *)
(* sampled in one of them with probability 1 (strong fairness).            *)
FairSpec ==
  /\ Spec
  /\ WF_vars(Sweep)
  /\ \A k \in Key : SF_vars(SweepSample(k))

-----------------------------------------------------------------------------
(* Type invariant: the shapes of items, calls in progress and the loop.    *)
Item == [value : Value, exp : Nat \cup {NoTtl}]

Idling(c) == pc[c] = "idle" /\ call[c] = NoCall /\ read[c] = Absent

Calling(c) ==
  /\ pc[c] # "idle"
  /\ read[c] \in Item
  /\ call[c].key \in Uses[c]
  /\ call[c].op \in IF pc[c] = "write" THEN {"expire", "expireat"} ELSE {"get", "ttl"}
  /\ call[c].op = "expire"   => call[c].arg \in Ttls
  /\ call[c].op = "expireat" => call[c].arg \in 1 .. MaxTime

ClientsOK ==
  /\ pc \in [Client -> {"idle", "check", "passive", "write"}]
  /\ DOMAIN call = Client /\ DOMAIN read = Client
  /\ \A c \in Client : Idling(c) \/ Calling(c)

SweepOK ==
  /\ sweep \in [at : {"asleep", "waking", "sampling"}, round : Nat,
                keys : SUBSET Key, left : 0 .. SampleSize,
                checked : Nat, expired : Nat]
  /\ sweep.expired <= sweep.checked
  /\ sweep.checked + sweep.left <= SampleSize

TypeOK ==
  /\ items \in [Key -> Item \cup {Absent}]
  /\ now \in 1 .. MaxTime
  /\ ClientsOK
  /\ SweepOK

ExclusiveKeys == \A c, d \in Client : c # d => Uses[c] \cap Uses[d] = {}

(* GET and TTL delete only what has expired: when passiveExpire is about   *)
(* to delete a key, the key is gone already or still past its deadline     *)
(* (dict.go:33-37, 54-56, 125-128).                                        *)
PassiveTargetsExpired ==
  \A c \in Client :
    pc[c] = "passive" => LET i == items[call[c].key] IN i = Absent \/ isExpired(i)

(* No call works on an outdated copy: what GET and TTL answer from, and    *)
(* what EXPIRE writes back, is still the item under the key, or the loop   *)
(* took it away expired (dict.go:49-59, 75-132).                           *)
CopiesCurrent ==
  \A c \in Client :
    pc[c] \in {"check", "write"} =>
      LET i == items[call[c].key]
      IN  i = read[c] \/ (i = Absent /\ isExpired(read[c]))

(* EXPIRE and PEXPIREAT change a key's deadline and never its value, what- *)
(* ever other commands run meanwhile (dict.go:75-113).                     *)
ExpireKeepsValue ==
  [][\A c \in Client :
       LET k == call[c].key
       IN  WriteBack(c) /\ items[k] # Absent /\ items'[k] # Absent
             => items'[k].value = items[k].value]_vars

(* A key that has expired is not readable again unless it is set: what the *)
(* README and TestDictExpire say of expiration.                            *)
ExpiredStaysGone ==
  [][\A k \in Key : isExpired(items[k]) /\ items'[k] # Absent
       => isExpired(items[k])' \/ \E c \in Client, v \in Value, ttl \in Ttls :
                                     Set(c, k, v, ttl)]_vars

(* Active expiration: an expired key does not stay for ever, whether or    *)
(* not anyone reads it (dict.go:134-181).                                  *)
ExpiredEventuallyGone ==
  \A k \in Key : isExpired(items[k]) ~> ~isExpired(items[k])

(* The dictionary implements TTLMap.  Between the two halves of an EXPIRE  *)
(* the key still stands for the copy that will be written back: the loop   *)
(* may evict the item meanwhile, and the write brings it back.             *)
Writer(k) == {c \in Client : pc[c] = "write" /\ call[c].key = k}

Store == [k \in Key |-> IF Writer(k) # {} THEN read[CHOOSE c \in Writer(k) : TRUE]
                        ELSE items[k]]

Atomic == INSTANCE TTLMap WITH store <- Store

(* Each command takes effect at one instant (dict.go:39-132, 183-196).     *)
CommandsAtomic == Atomic!Spec
=============================================================================

----------------------------- MODULE SetProofs -----------------------------
(***************************************************************************)
(* Theorems about Set, for every set of clients, keys and members and any  *)
(* sampling parameters: the type invariant; and, when no two clients name  *)
(* the same key, that the copies the calls work on are current, that only  *)
(* expired sets are deleted passively, that no set is empty, that no Go    *)
(* map is used by two goroutines at once, and that every command is        *)
(* atomic.                                                                 *)
(***************************************************************************)
EXTENDS Set, TLAPS, FiniteSetTheorems, SequenceTheorems

USE SetAssumption

-----------------------------------------------------------------------------
(* What a client in the middle of call a has in its variables, all of them *)
(* together; p is where it is.                                             *)
Pcs  == {"idle", "check", "passive", "write", "walk"}
Walk == [sure : SUBSET Member, maybe : SUBSET Member]
Ops(p) == CASE p = "write" -> {"expire"}
            [] p = "walk"  -> {"smembers", "sismember", "scard"}
            [] OTHER       -> {"smembers", "sismember", "scard", "ttl"}

CallOK(c, p, a, r, w) ==
  \/ p = "idle" /\ a = NoCall /\ r = Absent /\ w = NoWalk
  \/ /\ p \in Pcs \ {"idle"}
     /\ a.op \in Ops(p) /\ a.key \in Uses[c] /\ r \in Item
     /\ w \in Walk /\ (p # "walk" => w = NoWalk)
     /\ a.op = "expire" => a.arg \in Ttls
     /\ a.op = "sismember" => a.arg \in UNION Names[c]

ClientsOK ==
  /\ pc \in [Client -> Pcs] /\ DOMAIN call = Client
  /\ read \in [Client -> Item \cup {Absent}] /\ walk \in [Client -> Walk]
  /\ \A c \in Client : CallOK(c, pc[c], call[c], read[c], walk[c])

TypeInv ==
  /\ items \in [Key -> Item \cup {Absent}] /\ now \in 1 .. MaxTime
  /\ ClientsOK /\ SweepOK /\ crashed \in BOOLEAN

LEMMA ItemFacts ==
  /\ Absent \notin Item
  /\ \A i \in Item : i = [map |-> i.map, members |-> i.members, exp |-> i.exp]
                    /\ i.map \in MapId /\ i.members \in SUBSET Member /\ i.exp \in Nat \cup {NoTtl}
  /\ \A i \in Item, e \in Nat \cup {NoTtl} :
       /\ [i EXCEPT !.exp = e] \in Item
       /\ [i EXCEPT !.exp = e] = [map |-> i.map, members |-> i.members, exp |-> e]
  /\ \A i \in Item, ms \in SUBSET Member :
       /\ [i EXCEPT !.members = ms] \in Item
       /\ [i EXCEPT !.members = ms] = [map |-> i.map, members |-> ms, exp |-> i.exp]
  BY DEF Item

LEMMA WalkFacts ==
  /\ NoWalk \in Walk
  /\ \A s \in SUBSET Member, m \in SUBSET Member : [sure |-> s, maybe |-> m] \in Walk
  /\ \A w \in Walk : w.sure \in SUBSET Member /\ w.maybe \in SUBSET Member
                    /\ w = [sure |-> w.sure, maybe |-> w.maybe]
  BY DEF Walk, NoWalk

LEMMA TypesOK == TypeInv => TypeOK
<1> SUFFICES ASSUME TypeInv, NEW c \in Client PROVE Idling(c) \/ Calling(c)
  BY DEF TypeInv, TypeOK, ClientsOK, Pcs
<1>1. CallOK(c, pc[c], call[c], read[c], walk[c])
  BY DEF TypeInv, ClientsOK
<1> QED
  BY <1>1 DEF CallOK, Idling, Calling, Ops, Pcs, Walk

LEMMA UsesKeys == \A c \in Client : Uses[c] \subseteq Key
  OBVIOUS

(* One client moves, the others stay as they are.                          *)
Moves(c, p, a, r, w) ==
  /\ pc'[c] = p /\ call'[c] = a /\ read'[c] = r /\ walk'[c] = w
  /\ \A d \in Client \ {c} :
       pc'[d] = pc[d] /\ call'[d] = call[d] /\ read'[d] = read[d] /\ walk'[d] = walk[d]

LEMMA MovesOK ==
  ASSUME ClientsOK, NEW c \in Client, NEW p, NEW a, NEW r, NEW w, CallOK(c, p, a, r, w),
         pc' = [pc EXCEPT ![c] = p],
         call' = [call EXCEPT ![c] = a] \/ (call' = call /\ a = call[c]),
         read' = [read EXCEPT ![c] = r] \/ (read' = read /\ r = read[c]),
         walk' = [walk EXCEPT ![c] = w] \/ (walk' = walk /\ w = walk[c])
  PROVE  ClientsOK' /\ Moves(c, p, a, r, w)
<1>1. p \in Pcs /\ r \in Item \cup {Absent} /\ w \in Walk
  BY WalkFacts DEF CallOK, Pcs
<1>2. /\ pc' \in [Client -> Pcs] /\ DOMAIN call' = Client
      /\ read' \in [Client -> Item \cup {Absent}] /\ walk' \in [Client -> Walk]
  BY <1>1 DEF ClientsOK
<1>3. Moves(c, p, a, r, w)
  BY DEF ClientsOK, Moves
<1>4. ASSUME NEW d \in Client PROVE CallOK(d, pc'[d], call'[d], read'[d], walk'[d])
  <2>1. CASE d = c
    BY <1>3, <2>1 DEF Moves
  <2>2. CASE d # c
    BY <1>3, <2>2 DEF Moves, ClientsOK
  <2> QED
    BY <2>1, <2>2
<1> QED
  BY <1>2, <1>3, <1>4 DEF ClientsOK

LEMMA ClientsKept ==
  ASSUME ClientsOK, UNCHANGED client
  PROVE  ClientsOK'
  BY DEF ClientsOK, client

LEMMA ReturnsOK ==
  ASSUME ClientsOK, NEW c \in Client, NEW r, Returns(c, r)
  PROVE  ClientsOK' /\ Moves(c, "idle", NoCall, Absent, NoWalk)
<1>1. CallOK(c, "idle", NoCall, Absent, NoWalk)
  BY DEF CallOK
<1> QED
  BY <1>1, MovesOK DEF Returns

(* A client before its call, and in it.                                    *)
LEMMA IdleClient ==
  ASSUME ClientsOK, NEW c \in Client, pc[c] = "idle"
  PROVE  call[c] = NoCall /\ read[c] = Absent /\ walk[c] = NoWalk
  BY DEF ClientsOK, CallOK

LEMMA CallingClient ==
  ASSUME ClientsOK, NEW c \in Client, pc[c] # "idle"
  PROVE  /\ call[c].op \in Ops(pc[c]) /\ call[c].key \in Uses[c] /\ call[c].key \in Key
         /\ read[c] \in Item /\ walk[c] \in Walk /\ (pc[c] # "walk" => walk[c] = NoWalk)
         /\ call[c].op = "expire" => call[c].arg \in Ttls
         /\ call[c].op = "sismember" => call[c].arg \in UNION Names[c]
  BY UsesKeys DEF ClientsOK, CallOK

(* A read holds a copy; which calls read.                                  *)
Reading(c, op, arg, next) ==
  \/ op \in {"smembers", "scard", "ttl"} /\ next = "check"
  \/ op = "sismember" /\ next = "check" /\ arg \in UNION Names[c]
  \/ op = "expire" /\ next = "write" /\ arg \in Ttls

LEMMA HoldsOK ==
  ASSUME TypeInv, NEW c \in Client, pc[c] = "idle", NEW k \in Uses[c],
         NEW op, NEW arg, NEW next, Reading(c, op, arg, next), Holds(c, op, k, arg, next)
  PROVE  /\ ClientsOK'
         /\ Moves(c, next, [op |-> op, key |-> k, arg |-> arg], items[k], NoWalk)
<1> DEFINE a == [op |-> op, key |-> k, arg |-> arg]
<1>1. items[k] \in Item /\ walk[c] = NoWalk /\ ClientsOK
  BY IdleClient, UsesKeys DEF Holds, TypeInv
<1>2. a.op = op /\ a.key = k /\ a.arg = arg
  OBVIOUS
<1>3. /\ pc' = [pc EXCEPT ![c] = next] /\ call' = [call EXCEPT ![c] = a]
      /\ read' = [read EXCEPT ![c] = items[k]] /\ walk' = walk
  BY DEF Holds
<1> HIDE DEF a
<1>4. CallOK(c, next, a, items[k], NoWalk)
  BY <1>1, <1>2, WalkFacts DEF CallOK, Reading, Ops, Pcs
<1>5. ClientsOK' /\ Moves(c, next, a, items[k], NoWalk)
  BY <1>1, <1>3, <1>4, MovesOK
<1> QED
  BY <1>5 DEF a

(* A new map gets a name that no copy refers to: at least the client that  *)
(* makes it has none.                                                      *)
LEMMA FreshIs ==
  ASSUME TypeInv, NEW c \in Client, pc[c] = "idle", NEW k
  PROVE  /\ Fresh(k) \in MapId
         /\ \A d \in Client : read[d] # Absent /\ call[d].key = k => read[d].map # Fresh(k)
<1> DEFINE busy == {d \in Client : read[d] # Absent /\ call[d].key = k}
           used == {read[d].map : d \in busy}
<1>1. c \notin busy /\ busy \subseteq Client
  BY IdleClient DEF TypeInv
<1>2. IsFiniteSet(busy) /\ Cardinality(busy) <= Cardinality(Client \ {c})
  BY <1>1, FS_Subset, FS_RemoveElement
<1>3. Cardinality(Client \ {c}) = Cardinality(Client) - 1 /\ Cardinality(Client) \in Nat
  BY FS_RemoveElement, FS_CardinalityType
<1>4. IsFiniteSet(used) /\ Cardinality(used) <= Cardinality(busy)
  <2> DEFINE f == [d \in busy |-> read[d].map]
  <2>1. f \in Surjection(busy, used)
    BY DEF Surjection
  <2> QED
    BY <1>2, <2>1, FS_Surjection
<1>5. Cardinality(used) < Cardinality(MapId)
  BY <1>2, <1>3, <1>4, FS_CardinalityType
<1>6. PICK i \in MapId : i \notin used
  <2>1. CASE MapId \subseteq used
    <3>1. Cardinality(MapId) <= Cardinality(used)
      BY <1>4, <2>1, FS_Subset
    <3> QED
      BY <1>4, <1>5, <3>1, FS_CardinalityType
  <2> QED
    BY <2>1
<1>7. \A d \in Client : read[d] # Absent /\ call[d].key = k => read[d].map # i
  BY <1>6, Zenon
<1> QED
  BY <1>7 DEF Fresh

(* A member map changes in every copy of the item.                         *)
LEMMA ChangesTyped ==
  ASSUME ClientsOK, NEW k, NEW ms \in SUBSET Member, Changes(k, ms), UNCHANGED <<pc, call>>
  PROVE  ClientsOK' /\ crashed' \in BOOLEAN
<1>1. /\ read' = [c \in Client |->
           IF Shares(c, k) THEN [read[c] EXCEPT !.members = ms] ELSE read[c]]
      /\ walk' = [c \in Client |->
           IF Walks(c, k)
           THEN [sure |-> walk[c].sure \cap ms, maybe |-> walk[c].maybe \cup ms]
           ELSE walk[c]]
  BY DEF Changes
<1>2. crashed' \in BOOLEAN
  BY DEF Changes
<1>3. ASSUME NEW c \in Client
      PROVE  /\ read'[c] \in Item \cup {Absent} /\ walk'[c] \in Walk
             /\ CallOK(c, pc'[c], call'[c], read'[c], walk'[c])
  <2>1. CallOK(c, pc[c], call[c], read[c], walk[c]) /\ walk[c] \in Walk
        /\ read[c] \in Item \cup {Absent}
    BY DEF ClientsOK
  <2>2. /\ walk[c].sure \cap ms \in SUBSET Member /\ walk[c].maybe \cup ms \in SUBSET Member
    BY <2>1, WalkFacts
  <2>3. /\ ~Shares(c, k) => read'[c] = read[c]
        /\ Shares(c, k) => read[c] \in Item /\ read'[c] \in Item /\ pc[c] # "idle"
    <3>1. read'[c] = IF Shares(c, k) THEN [read[c] EXCEPT !.members = ms] ELSE read[c]
      BY <1>1
    <3>2. Shares(c, k) => read[c] \in Item /\ pc[c] # "idle"
      BY <2>1 DEF Shares, CallOK
    <3>3. read[c] \in Item => [read[c] EXCEPT !.members = ms] \in Item
      BY ItemFacts
    <3> QED
      BY <3>1, <3>2, <3>3
  <2>4. /\ pc[c] # "walk" => walk'[c] = walk[c]
        /\ walk'[c] \in Walk
    <3>1. walk'[c] = IF Walks(c, k)
                     THEN [sure |-> walk[c].sure \cap ms, maybe |-> walk[c].maybe \cup ms]
                     ELSE walk[c]
      BY <1>1
    <3>2. [sure |-> walk[c].sure \cap ms, maybe |-> walk[c].maybe \cup ms] \in Walk
      BY <2>2, WalkFacts
    <3>3. Walks(c, k) => pc[c] = "walk"
      BY DEF Walks
    <3> QED
      BY <2>1, <3>1, <3>2, <3>3
  <2>5. CallOK(c, pc[c], call[c], read'[c], walk'[c])
    BY <2>1, <2>3, <2>4 DEF CallOK
  <2> QED
    BY <2>1, <2>3, <2>4, <2>5
<1>4. read' \in [Client -> Item \cup {Absent}] /\ walk' \in [Client -> Walk]
  BY <1>1, <1>3
<1> QED
  BY <1>2, <1>3, <1>4 DEF ClientsOK

-----------------------------------------------------------------------------
(* The loop.                                                               *)
LEMMA RoundOK ==
  ASSUME NEW n \in Nat, sweep' = Round(n)
  PROVE  SweepOK'
<1>1. Present \subseteq Key
  BY DEF Present
<1>2. Cardinality(Present) \in Nat
  BY <1>1, FS_Subset, FS_CardinalityType
<1> DEFINE left == IF Cardinality(Present) < SampleSize
                   THEN Cardinality(Present) ELSE SampleSize
<1>3. left \in 0 .. SampleSize
  BY <1>2
<1>4. sweep' = [at |-> "sampling", round |-> n, keys |-> Present, left |-> left,
                checked |-> 0, expired |-> 0]
  BY DEF Round
<1> HIDE DEF left
<1> QED
  BY <1>1, <1>3, <1>4 DEF SweepOK

LEMMA AsleepOK == ASSUME sweep' = Asleep PROVE SweepOK'
  BY DEF SweepOK, Asleep

LEMMA SweepStep ==
  ASSUME TypeInv, Sweep
  PROVE  /\ SweepOK'
         /\ UNCHANGED <<now, client, answer, crashed>>
         /\ \/ UNCHANGED items
            \/ \E k \in Key : /\ isExpired(items[k])
                             /\ items' = [items EXCEPT ![k] = Absent]
<1>1. CASE SweepStart
  BY <1>1, RoundOK DEF SweepStart
<1>2. ASSUME NEW k \in Key, SweepSample(k)
      PROVE  /\ SweepOK'
             /\ UNCHANGED <<now, client, answer, crashed>>
             /\ \/ UNCHANGED items
                \/ isExpired(items[k]) /\ items' = [items EXCEPT ![k] = Absent]
  <2> DEFINE n == IF items[k] = Absent THEN sweep.checked ELSE sweep.checked + 1
             m == IF isExpired(items[k]) THEN sweep.expired + 1 ELSE sweep.expired
             Sweeps == [at : {"asleep", "sampling"}, round : Nat, keys : SUBSET Key,
                        left : 0 .. SampleSize, checked : Nat, expired : Nat]
  <2>1. /\ sweep \in Sweeps
        /\ sweep.left > 0 /\ sweep.expired <= sweep.checked
        /\ sweep.checked + sweep.left <= SampleSize
        /\ sweep.left \in Nat /\ sweep.checked \in Nat /\ sweep.expired \in Nat
    BY <1>2 DEF SweepSample, TypeInv, SweepOK
  <2>2. sweep' = [sweep EXCEPT !.left = sweep.left - 1, !.checked = n, !.expired = m]
    BY <1>2 DEF SweepSample
  <2>3. n \in Nat /\ m \in Nat /\ n <= sweep.checked + 1 /\ m <= n
    BY <2>1 DEF isExpired
  <2> HIDE DEF n, m
  <2>4. /\ sweep' \in Sweeps
        /\ sweep'.left = sweep.left - 1 /\ sweep'.checked = n /\ sweep'.expired = m
    <3>1. sweep.left - 1 \in 0 .. SampleSize
      BY <2>1
    <3> QED
      BY <2>1, <2>2, <2>3, <3>1
  <2>5. SweepOK'
    BY <2>1, <2>3, <2>4 DEF SweepOK
  <2> QED
    BY <1>2, <2>5 DEF SweepSample, Evicted, client
<1>3. CASE SweepRoundEnd
  <2>1. sweep.round + 1 \in Nat
    BY DEF TypeInv, SweepOK
  <2> QED
    BY <1>3, <2>1, RoundOK, AsleepOK DEF SweepRoundEnd
<1> QED
  BY <1>1, <1>2, <1>3 DEF Sweep, SweepStart, SweepRoundEnd

-----------------------------------------------------------------------------
(* Type correctness.                                                       *)
LEMMA InitTypeInv == Init => TypeInv
<1> SUFFICES ASSUME Init PROVE TypeInv
  OBVIOUS
<1>1. \A c \in Client : CallOK(c, pc[c], call[c], read[c], walk[c])
  BY DEF Init, CallOK
<1>2. ClientsOK
  BY <1>1, WalkFacts DEF Init, ClientsOK, Pcs
<1>3. SweepOK
  BY DEF Init, SweepOK, Asleep
<1>4. items \in [Key -> Item \cup {Absent}] /\ now \in 1 .. MaxTime
  BY DEF Init
<1>5. crashed \in BOOLEAN
  BY DEF Init
<1> QED
  BY <1>2, <1>3, <1>4, <1>5 DEF TypeInv

(* What a command of a client that is idle does to the items, and that     *)
(* they keep their shape.                                                  *)
LEMMA SaddTyped ==
  ASSUME TypeInv, NEW c \in Client, NEW k \in Uses[c], NEW ms \in Names[c], Sadd(c, k, ms)
  PROVE  TypeInv'
<1>0. /\ items \in [Key -> Item \cup {Absent}] /\ now \in 1 .. MaxTime
      /\ ClientsOK /\ SweepOK /\ k \in Key /\ ms \in SUBSET Member
  BY UsesKeys DEF TypeInv
<1>1. pc[c] = "idle" /\ UNCHANGED <<now, pc, call, sweep>>
  BY DEF Sadd
<1>2. CASE items[k] = Absent
  <2> DEFINE i == [map |-> Fresh(k), members |-> ms, exp |-> NoTtl]
  <2>1. items' = [items EXCEPT ![k] = i] /\ UNCHANGED <<read, walk, crashed>>
    BY <1>2 DEF Sadd
  <2>2. i \in Item
    BY <1>0, <1>1, FreshIs DEF Item
  <2> HIDE DEF i
  <2>3. items' \in [Key -> Item \cup {Absent}]
    BY <1>0, <2>1, <2>2
  <2> QED
    BY <1>0, <1>1, <2>1, <2>3, ClientsKept DEF TypeInv, client, SweepOK
<1>3. CASE items[k] # Absent
  <2> DEFINE i == [items[k] EXCEPT !.members = items[k].members \cup ms]
  <2>1. items' = [items EXCEPT ![k] = i] /\ Changes(k, items[k].members \cup ms)
    BY <1>0, <1>3 DEF Sadd
  <2>2. items[k] \in Item /\ items[k].members \cup ms \in SUBSET Member
    BY <1>0, <1>3, ItemFacts
  <2>3. i \in Item
    BY <2>2, ItemFacts
  <2> HIDE DEF i
  <2>4. items' \in [Key -> Item \cup {Absent}]
    BY <1>0, <2>1, <2>3
  <2>5. ClientsOK' /\ crashed' \in BOOLEAN
    BY <1>0, <1>1, <2>1, <2>2, ChangesTyped
  <2> QED
    BY <1>0, <1>1, <2>4, <2>5 DEF TypeInv, SweepOK
<1> QED
  BY <1>2, <1>3

LEMMA SremTyped ==
  ASSUME TypeInv, NEW c \in Client, NEW k \in Uses[c], NEW ms \in Names[c], Srem(c, k, ms)
  PROVE  TypeInv'
<1>0. /\ items \in [Key -> Item \cup {Absent}] /\ now \in 1 .. MaxTime
      /\ ClientsOK /\ SweepOK /\ k \in Key /\ crashed \in BOOLEAN
  BY UsesKeys DEF TypeInv
<1>1. UNCHANGED <<now, pc, call, sweep>>
  BY DEF Srem
<1>2. CASE Content(k) = {}
  BY <1>0, <1>1, <1>2, ClientsKept DEF Srem, TypeInv, client, SweepOK
<1>3. CASE Content(k) # {}
  <2> DEFINE left == Content(k) \ ms
             i == [items[k] EXCEPT !.members = left]
             x == IF left = {} THEN Absent ELSE i
  <2>1. items' = [items EXCEPT ![k] = x] /\ Changes(k, left)
    BY <1>3 DEF Srem
  <2>2. items[k] \in Item /\ left \in SUBSET Member
    BY <1>0, <1>3, ItemFacts DEF Content, Present
  <2>3. i \in Item
    BY <2>2, ItemFacts
  <2>4. x \in Item \cup {Absent}
    BY <2>3
  <2> HIDE DEF x, i
  <2>5. items' \in [Key -> Item \cup {Absent}]
    BY <1>0, <2>1, <2>4
  <2>6. ClientsOK' /\ crashed' \in BOOLEAN
    BY <1>0, <1>1, <2>1, <2>2, ChangesTyped
  <2> QED
    BY <1>0, <1>1, <2>5, <2>6 DEF TypeInv, SweepOK
<1> QED
  BY <1>2, <1>3

(* The commands that read first, all the same.                             *)
LEMMA LooksCases ==
  ASSUME NEW c \in Client, NEW k \in Uses[c],
         \/ Smembers(c, k) \/ Scard(c, k) \/ TTL(c, k)
         \/ \E m \in UNION Names[c] : Sismember(c, k, m)
         \/ \E ttl \in Ttls : Expire(c, k, ttl)
  PROVE  \E op, arg : /\ Looks(c, op, k, arg)
                      /\ Reading(c, op, arg, IF op = "expire" THEN "write" ELSE "check")
<1> DEFINE Then(op) == IF op = "expire" THEN "write" ELSE "check"
           Goal == \E op, arg : Looks(c, op, k, arg) /\ Reading(c, op, arg, Then(op))
<1>0. ASSUME NEW op, NEW arg, Looks(c, op, k, arg), Reading(c, op, arg, Then(op))
      PROVE  Goal
  BY <1>0, Zenon
<1>1. /\ Reading(c, "smembers", 0, Then("smembers"))
      /\ Reading(c, "scard", 0, Then("scard")) /\ Reading(c, "ttl", 0, Then("ttl"))
      /\ \A m \in UNION Names[c] : Reading(c, "sismember", m, Then("sismember"))
      /\ \A t \in Ttls : Reading(c, "expire", t, Then("expire"))
  BY DEF Reading
<1> HIDE DEF Then, Goal
<1>2. Smembers(c, k) \/ Scard(c, k) \/ TTL(c, k) => Goal
  BY <1>0, <1>1 DEF Smembers, Scard, TTL
<1>3. ASSUME NEW m \in UNION Names[c], Sismember(c, k, m) PROVE Goal
  BY <1>0, <1>1, <1>3 DEF Sismember
<1>4. ASSUME NEW ttl \in Ttls, Expire(c, k, ttl) PROVE Goal
  BY <1>0, <1>1, <1>4 DEF Expire
<1>5. Goal
  BY <1>2, <1>3, <1>4
<1> QED
  BY <1>5 DEF Goal, Then

LEMMA LooksStep ==
  ASSUME TypeInv, NEW c \in Client, NEW k \in Uses[c], NEW op, NEW arg, Looks(c, op, k, arg),
         Reading(c, op, arg, IF op = "expire" THEN "write" ELSE "check")
  PROVE  /\ pc[c] = "idle" /\ UNCHANGED <<items, now, sweep, crashed>> /\ ClientsOK'
         /\ \/ items[k] = Absent /\ answer' = <<c>> \o NothingFor(op) /\ UNCHANGED client
            \/ /\ items[k] # Absent /\ UNCHANGED answer
               /\ Moves(c, IF op = "expire" THEN "write" ELSE "check",
                        [op |-> op, key |-> k, arg |-> arg], items[k], NoWalk)
<1> DEFINE next == IF op = "expire" THEN "write" ELSE "check"
<1>1. pc[c] = "idle" /\ UNCHANGED <<items, now, sweep, crashed>> /\ ClientsOK
  BY DEF Looks, TypeInv
<1>2. Misses(k, <<c>> \o NothingFor(op)) \/ Holds(c, op, k, arg, next)
  BY DEF Looks
<1>3. Reading(c, op, arg, next)
  OBVIOUS
<1>4. CASE Misses(k, <<c>> \o NothingFor(op))
  BY <1>1, <1>4, ClientsKept DEF Misses
<1>5. CASE Holds(c, op, k, arg, next)
  <2> HIDE DEF next
  <2>1. ClientsOK' /\ Moves(c, next, [op |-> op, key |-> k, arg |-> arg], items[k], NoWalk)
    BY <1>1, <1>3, <1>5, HoldsOK
  <2>2. items[k] # Absent /\ UNCHANGED answer
    BY <1>5 DEF Holds
  <2> QED
    BY <1>1, <2>1, <2>2 DEF next
<1> QED
  BY <1>2, <1>4, <1>5

(* The second halves.                                                      *)
LEMMA CheckLiveStep ==
  ASSUME TypeInv, NEW c \in Client, CheckLive(c)
  PROVE  /\ pc[c] = "check" /\ ~isExpired(read[c])
         /\ UNCHANGED <<items, now, sweep, crashed>> /\ ClientsOK'
         /\ \/ /\ call[c].op = "ttl" /\ Moves(c, "idle", NoCall, Absent, NoWalk)
               /\ answer' = <<c>> \o <<"n", IF read[c].exp = NoTtl THEN -1
                                           ELSE read[c].exp - now>>
            \/ /\ call[c].op \in {"smembers", "sismember", "scard"} /\ UNCHANGED answer
               /\ Moves(c, "walk", call[c], read[c],
                        [sure |-> read[c].members, maybe |-> read[c].members])
<1>1. /\ pc[c] = "check" /\ ~isExpired(read[c]) /\ ClientsOK
      /\ UNCHANGED <<items, now, sweep, crashed>>
  BY DEF CheckLive, TypeInv
<1>2. CallOK(c, pc[c], call[c], read[c], walk[c])
  BY <1>1 DEF ClientsOK
<1>3. CASE call[c].op = "ttl"
  <2>1. Returns(c, <<"n", IF read[c].exp = NoTtl THEN -1 ELSE read[c].exp - now>>)
    BY <1>3 DEF CheckLive
  <2>2. ClientsOK' /\ Moves(c, "idle", NoCall, Absent, NoWalk)
    BY <1>1, <2>1, ReturnsOK
  <2>3. answer' = <<c>> \o <<"n", IF read[c].exp = NoTtl THEN -1
                                 ELSE read[c].exp - now>>
    BY <2>1 DEF Returns
  <2> QED
    BY <1>1, <1>3, <2>2, <2>3
<1>4. CASE call[c].op # "ttl"
  <2> DEFINE w == [sure |-> read[c].members, maybe |-> read[c].members]
  <2>1. /\ pc' = [pc EXCEPT ![c] = "walk"] /\ walk' = [walk EXCEPT ![c] = w]
        /\ UNCHANGED <<call, read, answer>>
    BY <1>4 DEF CheckLive
  <2>2. read[c] \in Item /\ call[c].op \in {"smembers", "sismember", "scard"}
    BY <1>1, <1>2, <1>4 DEF CallOK, Ops
  <2>3. w \in Walk
    BY <2>2, ItemFacts, WalkFacts
  <2> HIDE DEF w
  <2>4. CallOK(c, "walk", call[c], read[c], w)
    BY <1>1, <1>2, <2>2, <2>3 DEF CallOK, Ops, Pcs
  <2>5. ClientsOK' /\ Moves(c, "walk", call[c], read[c], w)
    BY <1>1, <2>1, <2>4, MovesOK
  <2> QED
    BY <1>1, <2>1, <2>2, <2>5 DEF w
<1> QED
  BY <1>3, <1>4

LEMMA CheckExpiredStep ==
  ASSUME TypeInv, NEW c \in Client, CheckExpired(c)
  PROVE  /\ pc[c] = "check" /\ isExpired(read[c])
         /\ UNCHANGED <<items, now, answer, sweep, crashed>> /\ ClientsOK'
         /\ Moves(c, "passive", call[c], read[c], walk[c])
<1>1. /\ pc[c] = "check" /\ isExpired(read[c]) /\ pc' = [pc EXCEPT ![c] = "passive"]
      /\ UNCHANGED <<items, now, call, read, walk, answer, sweep, crashed>> /\ ClientsOK
  BY DEF CheckExpired, TypeInv
<1>2. CallOK(c, "passive", call[c], read[c], walk[c])
  BY <1>1 DEF ClientsOK, CallOK, Ops, Pcs
<1>3. ClientsOK' /\ Moves(c, "passive", call[c], read[c], walk[c])
  BY <1>1, <1>2, MovesOK
<1> QED
  BY <1>1, <1>3

LEMMA ExpiredItem ==
  ASSUME TypeInv, NEW c \in Client, WriteBack(c)
  PROVE  /\ call[c].op = "expire" /\ call[c].arg \in Ttls
         /\ (IF call[c].arg <= 0 THEN Absent ELSE [read[c] EXCEPT !.exp = now + call[c].arg])
              \in Item \cup {Absent}
<1>1. pc[c] = "write" /\ ClientsOK /\ now \in Nat
  BY DEF WriteBack, TypeInv
<1>2. call[c].op = "expire" /\ call[c].arg \in Ttls /\ read[c] \in Item
  BY <1>1, CallingClient DEF Ops
<1>3. CASE call[c].arg <= 0
  BY <1>2, <1>3
<1>4. CASE ~(call[c].arg <= 0)
  <2>1. now + call[c].arg \in Nat \cup {NoTtl}
    <3>1. \A t \in Int : ~(t <= 0) => now + t \in Nat
      BY <1>1
    <3> QED
      BY <1>2, <1>4, <3>1
  <2>2. [read[c] EXCEPT !.exp = now + call[c].arg] \in Item
    BY <1>2, <2>1, ItemFacts
  <2> QED
    BY <1>2, <1>4, <2>2
<1> QED
  BY <1>3, <1>4

LEMMA NextTypeInv == TypeInv /\ [Next]_vars => TypeInv'
<1> SUFFICES ASSUME TypeInv, [Next]_vars PROVE TypeInv'
  OBVIOUS
<1>0. /\ items \in [Key -> Item \cup {Absent}] /\ now \in 1 .. MaxTime
      /\ ClientsOK /\ SweepOK /\ crashed \in BOOLEAN
  BY DEF TypeInv
<1>s. ASSUME UNCHANGED sweep PROVE SweepOK'
  BY <1>0, <1>s DEF SweepOK
<1>1. ASSUME NEW c \in Client, NEW k \in Uses[c],
             \E ms \in Names[c] : Sadd(c, k, ms) \/ Srem(c, k, ms)
      PROVE  TypeInv'
  BY <1>1, SaddTyped, SremTyped
<1>2. ASSUME NEW c \in Client, NEW k \in Uses[c],
             \/ Smembers(c, k) \/ Scard(c, k) \/ TTL(c, k)
             \/ \E m \in UNION Names[c] : Sismember(c, k, m)
             \/ \E ttl \in Ttls : Expire(c, k, ttl)
      PROVE  TypeInv'
  <2>1. PICK op, arg :
          /\ Looks(c, op, k, arg)
          /\ Reading(c, op, arg, IF op = "expire" THEN "write" ELSE "check")
    BY <1>2, LooksCases
  <2>2. UNCHANGED <<items, now, sweep, crashed>> /\ ClientsOK'
    BY <2>1, LooksStep
  <2> QED
    BY <1>0, <1>s, <2>2 DEF TypeInv
<1>3. ASSUME NEW c \in Client, Dump(c) PROVE TypeInv'
  BY <1>0, <1>3, <1>s, ClientsKept DEF Dump, TypeInv
<1>4. ASSUME NEW c \in Client, CheckLive(c) PROVE TypeInv'
  <2>1. UNCHANGED <<items, now, sweep, crashed>> /\ ClientsOK'
    BY <1>4, CheckLiveStep
  <2> QED
    BY <1>0, <1>s, <2>1 DEF TypeInv
<1>5. ASSUME NEW c \in Client, CheckExpired(c) PROVE TypeInv'
  <2>1. UNCHANGED <<items, now, sweep, crashed>> /\ ClientsOK'
    BY <1>5, CheckExpiredStep
  <2> QED
    BY <1>0, <1>s, <2>1 DEF TypeInv
<1>6. ASSUME NEW c \in Client, WalkEnd(c) PROVE TypeInv'
  <2>1. PICK r : Returns(c, r)
    BY <1>6 DEF WalkEnd
  <2>2. ClientsOK'
    BY <1>0, <2>1, ReturnsOK
  <2> QED
    BY <1>0, <1>6, <1>s, <2>2 DEF WalkEnd, TypeInv
<1>7. ASSUME NEW c \in Client, passiveExpire(c) PROVE TypeInv'
  <2>1. ClientsOK'
    BY <1>0, <1>7, ReturnsOK DEF passiveExpire
  <2>2. items' \in [Key -> Item \cup {Absent}]
    BY <1>0, <1>7 DEF passiveExpire
  <2> QED
    BY <1>0, <1>7, <1>s, <2>1, <2>2 DEF passiveExpire, TypeInv
<1>8. ASSUME NEW c \in Client, WriteBack(c) PROVE TypeInv'
  <2> DEFINE x == IF call[c].arg <= 0 THEN Absent
                  ELSE [read[c] EXCEPT !.exp = now + call[c].arg]
  <2>1. ClientsOK'
    BY <1>0, <1>8, ReturnsOK DEF WriteBack
  <2>2. x \in Item \cup {Absent}
    BY <1>8, ExpiredItem
  <2>3. items' = [items EXCEPT ![call[c].key] = x]
    BY <1>8 DEF WriteBack
  <2> HIDE DEF x
  <2>4. items' \in [Key -> Item \cup {Absent}]
    BY <1>0, <2>2, <2>3
  <2> QED
    BY <1>0, <1>8, <1>s, <2>1, <2>4 DEF WriteBack, TypeInv
<1>9. CASE Sweep
  <2>1. /\ SweepOK' /\ UNCHANGED <<now, client, crashed>>
        /\ UNCHANGED items \/ \E k \in Key : items' = [items EXCEPT ![k] = Absent]
    BY <1>9, SweepStep
  <2>2. ClientsOK'
    BY <1>0, <2>1, ClientsKept
  <2> QED
    BY <1>0, <2>1, <2>2 DEF TypeInv
<1>10. CASE Tick
  BY <1>0, <1>10, <1>s, ClientsKept DEF Tick, TypeInv
<1>11. CASE UNCHANGED vars
  BY <1>0, <1>11, <1>s, ClientsKept DEF vars, TypeInv
<1> QED
  BY <1>1, <1>2, <1>3, <1>4, <1>5, <1>6, <1>7, <1>8, <1>9, <1>10, <1>11
     DEF Next, Command, Continue

(* Shapes and counters stay in range in every execution, whoever shares    *)
(* keys (set.go).                                                          *)
THEOREM TypeCorrect == Spec => []TypeOK
<1>1. Spec => []TypeInv
  BY InitTypeInv, NextTypeInv, PTL DEF Spec
<1> QED
  BY <1>1, TypesOK, PTL

-----------------------------------------------------------------------------
(* Copies stay current when no two clients name the same key.              *)
Current(c) ==
  pc[c] \in {"check", "write", "walk"} =>
    LET i == items[call[c].key]
    IN  i = read[c] \/ (i = Absent /\ isExpired(read[c]))

Targets(c) ==
  pc[c] = "passive" => LET i == items[call[c].key] IN i = Absent \/ isExpired(i)

(* What a call has read is not empty, and nothing changed under a walk.    *)
Found(c) ==
  /\ pc[c] # "idle" => read[c].members # {}
  /\ pc[c] = "walk" =>
       walk[c] = [sure |-> read[c].members, maybe |-> read[c].members]

Filled == \A k \in Key : items[k] # Absent => items[k].members # {}

Sound(c) == Current(c) /\ Targets(c) /\ Found(c)
IInv == TypeInv /\ Filled /\ ~crashed /\ \A c \in Client : Sound(c)

LEMMA SoundParts ==
  IInv => CopiesCurrent /\ PassiveTargetsExpired /\ NoEmptySet
<1>1. (\A c \in Client : Sound(c)) => CopiesCurrent /\ PassiveTargetsExpired
  BY DEF Sound, Current, Targets, CopiesCurrent, PassiveTargetsExpired
<1>2. Filled => NoEmptySet
  BY DEF Filled, NoEmptySet, Present, Content
<1> QED
  BY <1>1, <1>2, Zenon DEF IInv

LEMMA IdleSound ==
  ASSUME NEW c \in Client, pc[c] = "idle"
  PROVE  Sound(c)
  BY DEF Sound, Current, Targets, Found

(* A step with the same clock that leaves c and its keys alone.            *)
LEMMA OtherClient ==
  ASSUME TypeInv, ExclusiveKeys, NEW c \in Client, NEW d \in Client, c # d, Sound(c),
         pc'[c] = pc[c], call'[c] = call[c], read'[c] = read[c], walk'[c] = walk[c],
         now' = now, \A k \in Key \ Uses[d] : items'[k] = items[k]
  PROVE  Sound(c)'
<1>0. ClientsOK
  BY DEF TypeInv
<1>1. CASE pc[c] = "idle"
  BY <1>1 DEF Sound, Current, Targets, Found
<1>2. CASE pc[c] # "idle"
  <2>1. call[c].key \in Key \ Uses[d]
    BY <1>0, <1>2, CallingClient DEF ExclusiveKeys
  <2> QED
    BY <2>1 DEF Sound, Current, Targets, Found, isExpired
<1> QED
  BY <1>1, <1>2

(* Nobody else has a copy of the item that c changes.                      *)
LEMMA ChangesAlone ==
  ASSUME ClientsOK, ExclusiveKeys, NEW c \in Client, pc[c] = "idle",
         NEW k \in Uses[c], NEW ms, Changes(k, ms)
  PROVE  UNCHANGED <<read, walk>> /\ ~crashed'
<1>1. \A d \in Client : ~Shares(d, k)
  <2> SUFFICES ASSUME NEW d \in Client, Shares(d, k) PROVE FALSE
    OBVIOUS
  <2>1. read[d] # Absent /\ call[d].key = k
    BY DEF Shares
  <2>2. pc[d] # "idle"
    BY <2>1, IdleClient
  <2>3. k \in Uses[d]
    BY <2>1, <2>2, CallingClient
  <2> QED
    BY <2>2, <2>3 DEF ExclusiveKeys
<1>2. \A d \in Client : ~Walks(d, k)
  BY <1>1 DEF Walks
<1>3. read' = [d \in Client |-> read[d]] /\ walk' = [d \in Client |-> walk[d]]
  BY <1>1, <1>2 DEF Changes
<1>4. crashed' \in {FALSE}
  BY <1>2, Zenon DEF Changes
<1> QED
  BY <1>3, <1>4 DEF ClientsOK

(* What the two writing commands do with the item of a key nobody else     *)
(* names; the item stays the same in its other fields.                     *)
SaddItem(k, ms) ==
  IF items[k] = Absent THEN [map |-> Fresh(k), members |-> ms, exp |-> NoTtl]
  ELSE [items[k] EXCEPT !.members = items[k].members \cup ms]

LEMMA SaddStep ==
  ASSUME IInv, ExclusiveKeys, NEW c \in Client, NEW k \in Uses[c], NEW ms \in Names[c],
         Sadd(c, k, ms)
  PROVE  /\ pc[c] = "idle" /\ UNCHANGED <<now, client>> /\ ~crashed'
         /\ items' = [items EXCEPT ![k] = SaddItem(k, ms)]
<1>1. /\ pc[c] = "idle" /\ UNCHANGED <<now, pc, call>> /\ ClientsOK /\ ~crashed
      /\ items \in [Key -> Item \cup {Absent}] /\ k \in Key
  BY UsesKeys DEF Sadd, IInv, TypeInv
<1>2. CASE items[k] = Absent
  BY <1>1, <1>2 DEF Sadd, SaddItem, client
<1>3. CASE items[k] # Absent
  <2>1. /\ items' = [items EXCEPT ![k] = [items[k] EXCEPT !.members = items[k].members \cup ms]]
        /\ Changes(k, items[k].members \cup ms)
    BY <1>1, <1>3 DEF Sadd
  <2>2. UNCHANGED <<read, walk>> /\ ~crashed'
    BY <1>1, <2>1, ChangesAlone
  <2> QED
    BY <1>1, <1>3, <2>1, <2>2 DEF SaddItem, client
<1> QED
  BY <1>2, <1>3

SremItem(k, ms) ==
  IF Content(k) \ ms = {} THEN Absent
  ELSE [items[k] EXCEPT !.members = Content(k) \ ms]

LEMMA ContentIs ==
  ASSUME Filled, NEW k \in Key
  PROVE  /\ items[k] = Absent <=> Content(k) = {}
         /\ items[k] # Absent => Content(k) = items[k].members
  BY DEF Filled, Content, Present

LEMMA SremStep ==
  ASSUME IInv, ExclusiveKeys, NEW c \in Client, NEW k \in Uses[c], NEW ms \in Names[c],
         Srem(c, k, ms)
  PROVE  /\ pc[c] = "idle" /\ UNCHANGED <<now, client>> /\ ~crashed'
         /\ items' = [items EXCEPT ![k] = SremItem(k, ms)]
<1>1. /\ pc[c] = "idle" /\ UNCHANGED <<now, pc, call>> /\ ClientsOK /\ ~crashed
      /\ items \in [Key -> Item \cup {Absent}] /\ k \in Key
  BY UsesKeys DEF Srem, IInv, TypeInv
<1>2. CASE Content(k) = {}
  <2>1. items[k] = Absent /\ SremItem(k, ms) = Absent
    BY <1>1, <1>2, ContentIs DEF IInv, SremItem
  <2>2. items = [items EXCEPT ![k] = Absent]
    BY <1>1, <2>1
  <2> QED
    BY <1>1, <1>2, <2>1, <2>2 DEF Srem, client
<1>3. CASE Content(k) # {}
  <2>1. Changes(k, Content(k) \ ms) /\ items' = [items EXCEPT ![k] = SremItem(k, ms)]
    BY <1>3 DEF Srem, SremItem
  <2>2. UNCHANGED <<read, walk>> /\ ~crashed'
    BY <1>1, <2>1, ChangesAlone
  <2> QED
    BY <1>1, <2>1, <2>2 DEF client
<1> QED
  BY <1>2, <1>3

LEMMA ItemFilled ==
  ASSUME IInv, NEW c \in Client, NEW k \in Uses[c], NEW ms \in Names[c]
  PROVE  /\ SaddItem(k, ms).members # {}
         /\ SremItem(k, ms) # Absent => SremItem(k, ms).members # {}
<1>1. /\ ms # {} /\ k \in Key /\ items[k] \in Item \cup {Absent} /\ Filled
      /\ ms \in SUBSET Member
  BY UsesKeys DEF IInv, TypeInv
<1>2. SaddItem(k, ms).members # {}
  <2>1. CASE items[k] = Absent
    BY <1>1, <2>1 DEF SaddItem
  <2>2. CASE items[k] # Absent
    <3>1. items[k].members \cup ms \in SUBSET Member
      BY <1>1, <2>2, ItemFacts
    <3>2. SaddItem(k, ms).members = items[k].members \cup ms
      BY <1>1, <2>2, <3>1, ItemFacts DEF SaddItem
    <3> QED
      BY <1>1, <3>2
  <2> QED
    BY <2>1, <2>2
<1>3. ASSUME SremItem(k, ms) # Absent PROVE SremItem(k, ms).members # {}
  <2>1. Content(k) \ ms # {} /\ items[k] \in Item /\ Content(k) = items[k].members
    BY <1>1, <1>3, ContentIs DEF SremItem
  <2>2. Content(k) \ ms \in SUBSET Member
    BY <2>1, ItemFacts
  <2>3. SremItem(k, ms).members = Content(k) \ ms
    BY <2>1, <2>2, ItemFacts DEF SremItem
  <2> QED
    BY <2>1, <2>3
<1> QED
  BY <1>2, <1>3

LEMMA NextSound ==
  ASSUME ExclusiveKeys
  PROVE  IInv /\ [Next]_vars => IInv'
<1> SUFFICES ASSUME IInv, [Next]_vars PROVE IInv'
  OBVIOUS
<1>0. /\ TypeInv /\ ClientsOK /\ Filled /\ ~crashed
      /\ \A c \in Client : Sound(c)
      /\ items \in [Key -> Item \cup {Absent}] /\ now \in 1 .. MaxTime
      /\ \A c \in Client : Uses[c] \subseteq Key
  BY UsesKeys DEF IInv, TypeInv
<1>t. TypeInv'
  BY <1>0, NextTypeInv
<1>g. ASSUME Filled', ~crashed', \A c \in Client : Sound(c)' PROVE IInv'
  BY <1>t, <1>g DEF IInv
(* A client's step: the client itself is sound after it, the others are    *)
(* because the step leaves them and their keys alone.                      *)
<1>c. ASSUME NEW d \in Client, Sound(d)', now' = now, ~crashed', Filled',
             NEW p, NEW a, NEW r, NEW w, Moves(d, p, a, r, w),
             \A k \in Key \ Uses[d] : items'[k] = items[k]
      PROVE  IInv'
  <2>1. ASSUME NEW c \in Client, c # d PROVE Sound(c)'
    BY <1>0, <1>c, <2>1, OtherClient DEF Moves
  <2> QED
    BY <1>c, <1>g, <2>1
<1>f. ASSUME NEW k \in Key, NEW x, items' = [items EXCEPT ![k] = x],
             x # Absent => x.members # {}
      PROVE  Filled' /\ \A j \in Key \ {k} : items'[j] = items[j]
  BY <1>0, <1>f DEF Filled
<1>i. ASSUME NEW d \in Client, pc[d] = "idle", UNCHANGED <<client, now>>, ~crashed', Filled',
             \A k \in Key \ Uses[d] : items'[k] = items[k]
      PROVE  IInv'
  <2>1. Sound(d)'
    BY <1>i DEF Sound, Current, Targets, Found, client
  <2>2. Moves(d, pc[d], call[d], read[d], walk[d])
    BY <1>i DEF Moves, client
  <2> QED
    BY <1>i, <2>1, <2>2, <1>c
<1>e. ASSUME NEW d \in Client, NEW res, Returns(d, res), now' = now, ~crashed', Filled',
             \A k \in Key \ Uses[d] : items'[k] = items[k]
      PROVE  IInv'
  <2>1. Moves(d, "idle", NoCall, Absent, NoWalk)
    BY <1>0, <1>e, ReturnsOK
  <2>2. Sound(d)'
    BY <2>1 DEF Moves, Sound, Current, Targets, Found
  <2> QED
    BY <1>e, <2>1, <2>2, <1>c
<1>1. ASSUME NEW c \in Client, NEW k \in Uses[c], NEW ms \in Names[c], Sadd(c, k, ms)
      PROVE  IInv'
  <2>1. /\ pc[c] = "idle" /\ UNCHANGED <<now, client>> /\ ~crashed'
        /\ items' = [items EXCEPT ![k] = SaddItem(k, ms)]
    BY <1>1, SaddStep
  <2>2. Filled' /\ \A j \in Key \ {k} : items'[j] = items[j]
    <3>1. k \in Key /\ (SaddItem(k, ms) # Absent => SaddItem(k, ms).members # {})
      BY <1>0, ItemFilled
    <3> QED
      BY <2>1, <3>1, <1>f
  <2> QED
    BY <2>1, <2>2, <1>i
<1>2. ASSUME NEW c \in Client, NEW k \in Uses[c], NEW ms \in Names[c], Srem(c, k, ms)
      PROVE  IInv'
  <2>1. /\ pc[c] = "idle" /\ UNCHANGED <<now, client>> /\ ~crashed'
        /\ items' = [items EXCEPT ![k] = SremItem(k, ms)]
    BY <1>2, SremStep
  <2>2. Filled' /\ \A j \in Key \ {k} : items'[j] = items[j]
    <3>1. k \in Key /\ (SremItem(k, ms) # Absent => SremItem(k, ms).members # {})
      BY <1>0, ItemFilled
    <3> QED
      BY <2>1, <3>1, <1>f
  <2> QED
    BY <2>1, <2>2, <1>i
<1>n. ASSUME UNCHANGED <<items, crashed>> PROVE Filled' /\ ~crashed'
  BY <1>0, <1>n DEF Filled
<1>3. ASSUME NEW c \in Client, Dump(c) PROVE IInv'
  BY <1>0, <1>3, <1>n, <1>i DEF Dump
<1>4. ASSUME NEW c \in Client, NEW k \in Uses[c],
             \/ Smembers(c, k) \/ Scard(c, k) \/ TTL(c, k)
             \/ \E m \in UNION Names[c] : Sismember(c, k, m)
             \/ \E ttl \in Ttls : Expire(c, k, ttl)
      PROVE  IInv'
  <2>1. PICK op, arg :
          /\ Looks(c, op, k, arg)
          /\ Reading(c, op, arg, IF op = "expire" THEN "write" ELSE "check")
    BY <1>4, LooksCases
  <2> DEFINE next == IF op = "expire" THEN "write" ELSE "check"
             a == [op |-> op, key |-> k, arg |-> arg]
  <2>2. /\ pc[c] = "idle" /\ UNCHANGED <<items, now, crashed>>
        /\ \/ UNCHANGED client
           \/ items[k] # Absent /\ Moves(c, next, a, items[k], NoWalk)
    BY <1>0, <2>1, LooksStep
  <2>3. CASE UNCHANGED client
    BY <2>2, <2>3, <1>n, <1>i
  <2>4. CASE items[k] # Absent /\ Moves(c, next, a, items[k], NoWalk)
    <3>1. next \in {"write", "check"} /\ a.key = k
      OBVIOUS
    <3> HIDE DEF next, a
    <3>2. pc'[c] = next /\ call'[c] = a /\ read'[c] = items[k] /\ items' = items
      BY <2>2, <2>4 DEF Moves
    <3>3. items[k].members # {}
      BY <1>0, <2>4 DEF Filled
    <3>4. Sound(c)'
      BY <3>1, <3>2, <3>3 DEF Sound, Current, Targets, Found
    <3> QED
      BY <2>2, <2>4, <3>4, <1>n, <1>c
  <2> QED
    BY <2>2, <2>3, <2>4
<1>5. ASSUME NEW c \in Client, CheckLive(c) PROVE IInv'
  <2>1. /\ pc[c] = "check" /\ UNCHANGED <<items, now, crashed>>
        /\ \/ Moves(c, "idle", NoCall, Absent, NoWalk)
           \/ Moves(c, "walk", call[c], read[c],
                    [sure |-> read[c].members, maybe |-> read[c].members])
    BY <1>0, <1>5, CheckLiveStep
  <2>2. CASE Moves(c, "idle", NoCall, Absent, NoWalk)
    <3>1. Sound(c)'
      BY <2>2 DEF Moves, Sound, Current, Targets, Found
    <3> QED
      BY <2>1, <2>2, <3>1, <1>n, <1>c
  <2>3. CASE Moves(c, "walk", call[c], read[c],
                   [sure |-> read[c].members, maybe |-> read[c].members])
    <3> DEFINE w == [sure |-> read[c].members, maybe |-> read[c].members]
    <3>1. /\ pc'[c] = "walk" /\ call'[c] = call[c] /\ read'[c] = read[c] /\ walk'[c] = w
      BY <2>3 DEF Moves
    <3>2. Current(c) /\ Found(c)
      BY <1>0 DEF Sound
    <3>3. Sound(c)'
      BY <2>1, <3>1, <3>2 DEF Sound, Current, Targets, Found, isExpired
    <3> HIDE DEF w
    <3> QED
      BY <2>1, <2>3, <3>3, <1>n, <1>c DEF w
  <2> QED
    BY <2>1, <2>2, <2>3
<1>6. ASSUME NEW c \in Client, CheckExpired(c) PROVE IInv'
  <2>1. /\ pc[c] = "check" /\ isExpired(read[c]) /\ UNCHANGED <<items, now, crashed>>
        /\ Moves(c, "passive", call[c], read[c], walk[c])
    BY <1>0, <1>6, CheckExpiredStep
  <2>2. pc'[c] = "passive" /\ call'[c] = call[c] /\ read'[c] = read[c]
    BY <2>1 DEF Moves
  <2>3. Current(c) /\ Found(c)
    BY <1>0 DEF Sound
  <2>4. Sound(c)'
    BY <2>1, <2>2, <2>3 DEF Sound, Current, Targets, Found, isExpired
  <2> QED
    BY <2>1, <2>4, <1>n, <1>c
<1>7. ASSUME NEW c \in Client, WalkEnd(c) PROVE IInv'
  <2>1. PICK r : Returns(c, r)
    BY <1>7 DEF WalkEnd
  <2> QED
    BY <1>7, <2>1, <1>n, <1>e DEF WalkEnd
<1>8. ASSUME NEW c \in Client, passiveExpire(c) PROVE IInv'
  <2>1. PICK r : Returns(c, r)
    BY <1>8 DEF passiveExpire
  <2>2. call[c].key \in Uses[c] /\ call[c].key \in Key
    BY <1>0, <1>8, CallingClient DEF passiveExpire
  <2>3. Filled' /\ \A j \in Key \ {call[c].key} : items'[j] = items[j]
    BY <1>8, <2>2, <1>f DEF passiveExpire
  <2> QED
    BY <1>0, <1>8, <2>1, <2>2, <2>3, <1>e DEF passiveExpire
<1>9. ASSUME NEW c \in Client, WriteBack(c) PROVE IInv'
  <2> DEFINE x == IF call[c].arg <= 0 THEN Absent
                  ELSE [read[c] EXCEPT !.exp = now + call[c].arg]
  <2>1. /\ call[c].key \in Uses[c] /\ call[c].key \in Key /\ read[c] \in Item
        /\ pc[c] = "write"
    BY <1>0, <1>9, CallingClient DEF WriteBack
  <2>2. x # Absent => x.members # {}
    <3>1. read[c].members # {}
      BY <1>0, <2>1 DEF Sound, Found
    <3> QED
      BY <2>1, <3>1, ItemFacts
  <2>3. items' = [items EXCEPT ![call[c].key] = x]
    BY <1>9 DEF WriteBack
  <2> HIDE DEF x
  <2>4. Filled' /\ \A j \in Key \ {call[c].key} : items'[j] = items[j]
    BY <2>1, <2>2, <2>3, <1>f
  <2> QED
    BY <1>0, <1>9, <2>1, <2>4, <1>e DEF WriteBack
<1>10. CASE Sweep
  <2>1. /\ UNCHANGED <<now, client, crashed>>
        /\ \/ UNCHANGED items
           \/ \E k \in Key : isExpired(items[k]) /\ items' = [items EXCEPT ![k] = Absent]
    BY <1>0, <1>10, SweepStep
  <2>2. \A j \in Key : \/ items'[j] = items[j]
                       \/ isExpired(items[j]) /\ items'[j] = Absent
    BY <1>0, <2>1
  <2>3. Filled'
    BY <1>0, <2>2 DEF Filled
  <2>4. ASSUME NEW c \in Client PROVE Sound(c)'
    <3>1. CASE pc[c] = "idle"
      BY <2>1, <3>1 DEF Sound, Current, Targets, Found, client
    <3>2. CASE pc[c] # "idle"
      <4>1. call[c].key \in Key /\ Sound(c)
        BY <1>0, <3>2, CallingClient
      <4> QED
        BY <2>1, <2>2, <4>1 DEF Sound, Current, Targets, Found, client, isExpired
    <3> QED
      BY <3>1, <3>2
  <2> QED
    BY <1>0, <2>1, <2>3, <2>4, <1>g
<1>11. CASE Tick
  <2>1. UNCHANGED <<items, client, crashed>> /\ now' = now + 1
    BY <1>11 DEF Tick
  <2>2. \A i \in Item \cup {Absent} : isExpired(i) =>
          i # Absent /\ i.exp # NoTtl /\ now' > i.exp
    BY <1>0, <2>1, ItemFacts DEF isExpired
  <2>3. ASSUME NEW c \in Client PROVE Sound(c)'
    <3>1. CASE pc[c] = "idle"
      BY <2>1, <3>1 DEF Sound, Current, Targets, Found, client
    <3>2. CASE pc[c] # "idle"
      <4>1. /\ call[c].key \in Key /\ Sound(c)
            /\ read[c] \in Item /\ items[call[c].key] \in Item \cup {Absent}
        BY <1>0, <3>2, CallingClient
      <4> QED
        BY <2>1, <2>2, <4>1 DEF Sound, Current, Targets, Found, client, isExpired
    <3> QED
      BY <3>1, <3>2
  <2> QED
    BY <2>1, <2>3, <1>n, <1>g
<1>12. CASE UNCHANGED vars
  <2>1. \A c \in Client : Sound(c)'
    BY <1>0, <1>12 DEF Sound, Current, Targets, Found, vars, client, isExpired
  <2> QED
    BY <1>12, <2>1, <1>n, <1>g DEF vars
<1> QED
  BY <1>1, <1>2, <1>3, <1>4, <1>5, <1>6, <1>7, <1>8, <1>9, <1>10, <1>11, <1>12
     DEF Next, Command, Continue

LEMMA SpecIInv ==
  ASSUME ExclusiveKeys
  PROVE  Spec => []IInv
<1>1. Init => IInv
  <2> SUFFICES ASSUME Init PROVE IInv
    OBVIOUS
  <2>1. TypeInv
    BY InitTypeInv
  <2>2. \A c \in Client : Sound(c)
    BY DEF Init, Sound, Current, Targets, Found
  <2>3. Filled /\ ~crashed
    BY DEF Init, Filled
  <2> QED
    BY <2>1, <2>2, <2>3 DEF IInv
<1>2. IInv /\ [Next]_vars => IInv'
  BY NextSound
<1> QED
  BY <1>1, <1>2, PTL DEF Spec

(* With a key per client, no call acts on an outdated copy                 *)
(* (set.go:79-166).                                                        *)
THEOREM CopiesStayCurrent ==
  ASSUME ExclusiveKeys
  PROVE  Spec => []CopiesCurrent
  BY SoundParts, SpecIInv, PTL

(* With a key per client, passive expiration deletes only expired sets     *)
(* (set.go:27-35).                                                         *)
THEOREM PassiveDeletesExpired ==
  ASSUME ExclusiveKeys
  PROVE  Spec => []PassiveTargetsExpired
  BY SoundParts, SpecIInv, PTL

(* With a key per client, there is never an empty set under a key          *)
(* (set.go:71-75, 120-133).                                                *)
THEOREM NeverEmpty ==
  ASSUME ExclusiveKeys
  PROVE  Spec => []NoEmptySet
  BY SoundParts, SpecIInv, PTL

-----------------------------------------------------------------------------
(* Refinement.  What the abstract store keeps of an item, and Store[k]:    *)
(* that of the item of k, or of the copy that the one client between the   *)
(* halves of a SEXPIRE of k is going to write back.                        *)
Abs(i) == IF i = Absent THEN Absent ELSE [members |-> i.members, exp |-> i.exp]

LEMMA AbsFacts ==
  /\ Abs(Absent) = Absent
  /\ \A i \in Item : /\ Abs(i) # Absent
                     /\ Abs(i) = [members |-> i.members, exp |-> i.exp]
                     /\ Abs(i).members = i.members /\ Abs(i).exp = i.exp
<1>1. ASSUME NEW i \in Item
      PROVE  /\ Abs(i) # Absent
             /\ Abs(i) = [members |-> i.members, exp |-> i.exp]
  <2>1. i # Absent /\ i.members \in SUBSET Member /\ i.exp \in Nat \cup {NoTtl}
    BY ItemFacts
  <2>2. [members |-> i.members, exp |-> i.exp] \in
          [members : SUBSET Member, exp : Nat \cup {NoTtl}]
    BY <2>1
  <2> QED
    BY <2>1, <2>2 DEF Abs
<1> QED
  BY <1>1 DEF Abs

LEMMA AbsExcept ==
  ASSUME NEW i \in Item
  PROVE  /\ \A ms \in SUBSET Member :
              Abs([i EXCEPT !.members = ms]) = [Abs(i) EXCEPT !.members = ms]
         /\ \A e \in Nat \cup {NoTtl} :
              Abs([i EXCEPT !.exp = e]) = [Abs(i) EXCEPT !.exp = e]
<1>1. Abs(i) = [members |-> i.members, exp |-> i.exp]
  BY AbsFacts
<1>2. ASSUME NEW ms \in SUBSET Member
      PROVE  Abs([i EXCEPT !.members = ms]) = [Abs(i) EXCEPT !.members = ms]
  <2>1. Abs([i EXCEPT !.members = ms]) = [members |-> ms, exp |-> i.exp]
    BY ItemFacts, AbsFacts
  <2> QED
    BY <1>1, <2>1
<1>3. ASSUME NEW e \in Nat \cup {NoTtl}
      PROVE  Abs([i EXCEPT !.exp = e]) = [Abs(i) EXCEPT !.exp = e]
  <2>1. Abs([i EXCEPT !.exp = e]) = [members |-> i.members, exp |-> e]
    BY ItemFacts, AbsFacts
  <2> QED
    BY <1>1, <2>1
<1> QED
  BY <1>2, <1>3

LEMMA AbsExpired ==
  ASSUME NEW i \in Item \cup {Absent}
  PROVE  Atomic!Expired(Abs(i)) <=> isExpired(i)
  BY AbsFacts, ItemFacts DEF Atomic!Expired, isExpired

StoreAgrees ==
  \A k \in Key :
    /\ Writer(k) = {} => Store[k] = Abs(items[k])
    /\ \A c \in Writer(k) : Store[k] = Abs(read[c])
    /\ \A c \in Client : k \in Uses[c] =>
         Writer(k) = IF pc[c] = "write" /\ call[c].key = k THEN {c} ELSE {}

LEMMA StoreFacts == TypeInv /\ ExclusiveKeys => StoreAgrees
<1> SUFFICES ASSUME TypeInv, ExclusiveKeys, NEW k \in Key
             PROVE  /\ Writer(k) = {} => Store[k] = Abs(items[k])
                    /\ \A c \in Writer(k) : Store[k] = Abs(read[c])
                    /\ \A c \in Client : k \in Uses[c] =>
                         Writer(k) = IF pc[c] = "write" /\ call[c].key = k
                                     THEN {c} ELSE {}
  BY DEF StoreAgrees
<1>0. ClientsOK
  BY DEF TypeInv
<1>1. \A c \in Writer(k) : c \in Client /\ k \in Uses[c]
  BY <1>0, CallingClient DEF Writer
<1>2. \A c, d \in Writer(k) : c = d
  BY <1>1 DEF ExclusiveKeys
<1>3. \A c \in Writer(k) : Writer(k) = {c}
  BY <1>2
<1>4. \A c \in Client : k \in Uses[c] =>
        Writer(k) = IF pc[c] = "write" /\ call[c].key = k THEN {c} ELSE {}
  BY <1>1 DEF Writer, ExclusiveKeys
<1>5. Store[k] = Abs(IF Writer(k) # {} THEN read[CHOOSE c \in Writer(k) : TRUE]
                     ELSE items[k])
  BY DEF Store, Abs
<1>6. \A c \in Writer(k) : Store[k] = Abs(read[c])
  BY <1>3, <1>5
<1> QED
  BY <1>4, <1>5, <1>6

LEMMA StoreFactsNext == TypeInv' /\ ExclusiveKeys => StoreAgrees'
<1>1. (TypeInv /\ ExclusiveKeys => StoreAgrees)'
  BY StoreFacts, PTL
<1>2. ExclusiveKeys' <=> ExclusiveKeys
  BY DEF ExclusiveKeys
<1> QED
  BY <1>1, <1>2

LEMMA StoreSame ==
  ASSUME \A j \in Key : Store'[j] = Store[j]
  PROVE  Store' = Store
  BY DEF Store

LEMMA StoreExcept ==
  ASSUME NEW k \in Key, NEW x, Store'[k] = x,
         \A j \in Key \ {k} : Store'[j] = Store[j]
  PROVE  Store' = [Store EXCEPT ![k] = x]
<1>1. /\ Store = [j \in Key |-> Store[j]]
      /\ Store' = [j \in Key |-> Store'[j]]
  BY DEF Store
<1> QED
  BY <1>1

(* A client that is idle, or does not write back, holds no key.            *)
LEMMA IdleStore ==
  ASSUME TypeInv, ExclusiveKeys, NEW c \in Client, NEW k \in Uses[c], pc[c] # "write"
  PROVE  Store[k] = Abs(items[k]) /\ Writer(k) = {}
<1>1. k \in Key
  OBVIOUS
<1> QED
  BY <1>1, StoreFacts DEF StoreAgrees

LEMMA IdleStoreNext ==
  ASSUME TypeInv', ExclusiveKeys, NEW c \in Client, NEW k \in Uses[c], pc'[c] # "write"
  PROVE  Store'[k] = Abs(items'[k])
<1>1. k \in Key
  OBVIOUS
<1> QED
  BY <1>1, StoreFactsNext DEF StoreAgrees

(* A step of client c that touches no key but k is seen in Store[k] alone. *)
LEMMA OneKey ==
  ASSUME TypeInv, TypeInv', ExclusiveKeys, NEW c \in Client, NEW k \in Uses[c],
         NEW p, NEW a, NEW r, NEW w, Moves(c, p, a, r, w),
         pc[c] # "idle" => call[c].key = k, p # "idle" => a.key = k,
         \A j \in Key \ {k} : items'[j] = items[j]
  PROVE  \A j \in Key \ {k} : Store'[j] = Store[j]
<1> SUFFICES ASSUME NEW j \in Key \ {k} PROVE Store'[j] = Store[j]
  OBVIOUS
<1>1. Writer(j)' = Writer(j) /\ c \notin Writer(j)
  BY DEF Writer, Moves
<1>2. CASE Writer(j) = {}
  BY <1>1, <1>2, StoreFacts, StoreFactsNext DEF StoreAgrees
<1>3. CASE Writer(j) # {}
  <2>1. PICK d \in Writer(j) : TRUE
    BY <1>3
  <2>2. d \in Client \ {c}
    BY <1>1, <2>1 DEF Writer
  <2>3. Store[j] = Abs(read[d]) /\ Store'[j] = Abs(read'[d])
    BY <1>1, <2>1, StoreFacts, StoreFactsNext DEF StoreAgrees
  <2> QED
    BY <2>2, <2>3 DEF Moves
<1> QED
  BY <1>2, <1>3

(* Where no key is written back anew, only the items can change Store.     *)
LEMMA SameWriters ==
  ASSUME TypeInv, TypeInv', ExclusiveKeys, UNCHANGED client
  PROVE  \A j \in Key :
           /\ Writer(j)' = Writer(j)
           /\ Writer(j) # {} => Store'[j] = Store[j]
           /\ Writer(j) = {} => Store[j] = Abs(items[j]) /\ Store'[j] = Abs(items'[j])
<1> SUFFICES ASSUME NEW j \in Key
             PROVE  /\ Writer(j)' = Writer(j)
                    /\ Writer(j) # {} => Store'[j] = Store[j]
                    /\ Writer(j) = {} => /\ Store[j] = Abs(items[j])
                                         /\ Store'[j] = Abs(items'[j])
  OBVIOUS
<1>1. Writer(j)' = Writer(j) /\ read' = read
  BY DEF Writer, client
<1>2. ASSUME Writer(j) # {} PROVE Store'[j] = Store[j]
  <2>1. PICK c \in Writer(j) : TRUE
    BY <1>2
  <2> QED
    BY <1>1, <2>1, StoreFacts, StoreFactsNext DEF StoreAgrees
<1> QED
  BY <1>1, <1>2, StoreFacts, StoreFactsNext DEF StoreAgrees

LEMMA SameStore ==
  ASSUME TypeInv, TypeInv', ExclusiveKeys, UNCHANGED <<items, client>>
  PROVE  Store' = Store
  BY SameWriters, StoreSame

(* A command of one critical section puts x under k.                       *)
LEMMA PutStep ==
  ASSUME TypeInv, TypeInv', ExclusiveKeys, NEW c \in Client, NEW k \in Uses[c],
         pc[c] = "idle", UNCHANGED client, NEW x, items' = [items EXCEPT ![k] = x]
  PROVE  Store' = [Store EXCEPT ![k] = Abs(x)]
<1>1. k \in Key /\ items \in [Key -> Item \cup {Absent}]
  BY UsesKeys DEF TypeInv
<1>2. Writer(k) = {} /\ pc'[c] = "idle"
  BY IdleStore DEF client
<1>3. Store'[k] = Abs(x)
  BY <1>1, <1>2, SameWriters
<1>4. \A j \in Key \ {k} : Store'[j] = Store[j]
  BY <1>1, SameWriters
<1> QED
  BY <1>1, <1>3, <1>4, StoreExcept

(* The end of a call of c on key k, which had the item i in the store.     *)
LEMMA ReturnStep ==
  ASSUME TypeInv, TypeInv', ExclusiveKeys, NEW c \in Client, pc[c] # "idle",
         Moves(c, "idle", NoCall, Absent, NoWalk),
         \A j \in Key \ {call[c].key} : items'[j] = items[j]
  PROVE  /\ call[c].key \in Key
         /\ Store' = [Store EXCEPT ![call[c].key] = Abs(items'[call[c].key])]
<1> DEFINE k == call[c].key
<1>1. k \in Key /\ k \in Uses[c]
  BY CallingClient DEF TypeInv
<1> HIDE DEF k
<1>2. \A j \in Key \ {k} : Store'[j] = Store[j]
  BY <1>1, OneKey DEF k
<1>3. Store'[k] = Abs(items'[k])
  BY <1>1, IdleStoreNext DEF Moves
<1>4. Store' = [Store EXCEPT ![k] = Abs(items'[k])]
  BY <1>1, <1>2, <1>3, StoreExcept
<1> QED
  BY <1>1, <1>4 DEF k

-----------------------------------------------------------------------------
(* Results that are fixed.                                                 *)
LEMMA DueIs ==
  \A c \in Client : Due[c] = IF pc[c] = "walk" THEN Result(c, walk[c].sure) ELSE NoResult
  BY DEF Due

LEMMA ResultTyped ==
  ASSUME TypeInv, NEW c \in Client, pc[c] = "walk"
  PROVE  Result(c, walk[c].sure) # NoResult
<1>1. call[c].op \in {"smembers", "sismember", "scard"} /\ walk[c].sure \in SUBSET Member
  BY CallingClient, WalkFacts DEF TypeInv, Ops
<1>2. Cardinality(walk[c].sure) \in Nat
  BY <1>1, FS_Subset, FS_CardinalityType
<1>3. Result(c, walk[c].sure) \in {"n", "members"} \X (Nat \cup SUBSET Member)
  BY <1>1, <1>2 DEF Result
<1> QED
  BY <1>3

LEMMA DueKept == ASSUME UNCHANGED client PROVE Due' = Due
  BY DEF Due, Result, client

LEMMA OthersDue ==
  ASSUME NEW c \in Client, NEW p, NEW a, NEW r, NEW w, Moves(c, p, a, r, w),
         NEW d \in Client, d # c
  PROVE  Due'[d] = Due[d]
<1>1. pc'[d] = pc[d] /\ call'[d] = call[d] /\ walk'[d] = walk[d]
  BY DEF Moves
<1>2. Result(d, walk[d].sure)' = Result(d, walk[d].sure)
  BY <1>1, Zenon DEF Result
<1>3. Due'[d] = IF pc'[d] = "walk" THEN Result(d, walk[d].sure)' ELSE NoResult
  BY DEF Due
<1> QED
  BY <1>1, <1>2, <1>3, DueIs

LEMMA DueMoves ==
  ASSUME NEW c \in Client, NEW p, NEW a, NEW r, NEW w, Moves(c, p, a, r, w), p # "walk"
  PROVE  /\ Due' = [Due EXCEPT ![c] = NoResult]
         /\ pc[c] # "walk" => Due' = Due
<1>1. ASSUME NEW d \in Client, d # c PROVE Due'[d] = Due[d]
  BY <1>1, OthersDue
<1>2. Due'[c] = NoResult
  BY DEF Due, Moves
<1>3. Due' = [d \in Client |-> Due'[d]] /\ Due = [d \in Client |-> Due[d]]
  BY DEF Due
<1>4. Due' = [Due EXCEPT ![c] = NoResult]
  BY <1>1, <1>2, <1>3
<1>5. ASSUME pc[c] # "walk" PROVE Due' = Due
  <2>1. Due[c] = NoResult
    BY <1>5, DueIs
  <2> QED
    BY <1>3, <1>4, <2>1
<1> QED
  BY <1>4, <1>5

-----------------------------------------------------------------------------
(* Each step of the store of sets is one command of TTLSets, the giving of *)
(* a fixed result, an eviction, a tick, or nothing a client can see.       *)
Steps == [Atomic!Next]_<<Store, now, Due, answer>>

LEMMA CommandStep ==
  ASSUME NEW c \in Client, Atomic!Command(c), now' = now
  PROVE  Steps
  BY DEF Atomic!Next, Steps

LEMMA Pair == \A c, x, y : <<c>> \o <<x, y>> = <<c, x, y>>
<1> SUFFICES ASSUME NEW c, NEW x, NEW y PROVE <<c>> \o <<x, y>> = <<c, x, y>>
  OBVIOUS
<1> DEFINE S == {c, x, y}
           s == <<c>> \o <<x, y>>
           t == <<c, x, y>>
<1>1. <<c>> \in Seq(S) /\ <<x, y>> \in Seq(S) /\ t \in Seq(S)
  OBVIOUS
<1>2. /\ s \in Seq(S) /\ Len(s) = 3 /\ Len(t) = 3
      /\ s[1] = c /\ s[2] = x /\ s[3] = y /\ t[1] = c /\ t[2] = x /\ t[3] = y
  BY <1>1, ConcatProperties
<1>3. \A i \in 1 .. 3 : s[i] = t[i]
  BY <1>2
<1> HIDE DEF S, s, t
<1>4. s = t
  BY <1>1, <1>2, <1>3, SeqEqual
<1> QED
  BY <1>4 DEF s, t

LEMMA SameCardinality == \A S : Cardinality(S) = Atomic!Cardinality(S)
  BY DEF Cardinality, Atomic!Cardinality

(* What the abstract reads give.                                           *)
ReadResult(op, k, arg) ==
  CASE op = "smembers"  -> IF Atomic!Live(k) THEN <<"members", Atomic!Members(k)>>
                           ELSE <<"nil">>
    [] op = "sismember" -> <<"n", IF Atomic!Live(k) /\ arg \in Atomic!Members(k)
                                  THEN 1 ELSE 0>>
    [] op = "scard"     -> <<"n", IF Atomic!Live(k)
                                  THEN Cardinality(Atomic!Members(k)) ELSE 0>>
    [] op = "ttl"       -> <<"n", IF ~Atomic!Live(k) THEN -2
                                  ELSE IF Store[k].exp = NoTtl THEN -1
                                  ELSE Store[k].exp - now>>

LEMMA ReadRefines ==
  ASSUME NEW c \in Client, NEW k \in Uses[c], NEW op, NEW arg, now' = now,
         op \in {"smembers", "sismember", "scard", "ttl"},
         op = "sismember" => arg \in UNION Names[c],
         Due[c] = NoResult, Atomic!Reads(c, k, ReadResult(op, k, arg))
  PROVE  Steps
<1>1. CASE op = "smembers"
  <2>1. Atomic!Smembers(c, k)
    BY <1>1 DEF ReadResult, Atomic!Smembers
  <2> QED
    BY <2>1, CommandStep DEF Atomic!Command
<1>2. CASE op = "sismember"
  <2>1. Atomic!Sismember(c, k, arg)
    BY <1>2 DEF ReadResult, Atomic!Sismember, Atomic!Number
  <2> QED
    BY <1>2, <2>1, CommandStep DEF Atomic!Command
<1>3. CASE op = "scard"
  <2>1. Atomic!Scard(c, k)
    BY <1>3, SameCardinality DEF ReadResult, Atomic!Scard, Atomic!Number
  <2> QED
    BY <2>1, CommandStep DEF Atomic!Command
<1>4. CASE op = "ttl"
  <2>1. Atomic!TTL(c, k)
    BY <1>4 DEF ReadResult, Atomic!TTL, Atomic!Number
  <2> QED
    BY <2>1, CommandStep DEF Atomic!Command
<1> QED
  BY <1>1, <1>2, <1>3, <1>4

LEMMA DeadResult ==
  ASSUME NEW k, NEW op \in {"smembers", "sismember", "scard", "ttl"}, NEW arg,
         ~Atomic!Live(k)
  PROVE  ReadResult(op, k, arg) = NothingFor(op)
  BY DEF ReadResult, NothingFor

(* What is in the store of an idle client's key.                           *)
LEMMA StoredAs ==
  ASSUME TypeInv, ExclusiveKeys, NEW c \in Client, NEW k \in Uses[c], pc[c] # "write"
  PROVE  /\ k \in Key /\ items[k] \in Item \cup {Absent}
         /\ Store[k] = Abs(items[k])
         /\ Store[k] = Absent <=> items[k] = Absent
         /\ Atomic!Members(k) = IF items[k] = Absent THEN {} ELSE items[k].members
         /\ Atomic!Live(k) <=> items[k] # Absent /\ ~isExpired(items[k])
         /\ items[k] # Absent => Store[k].exp = items[k].exp
<1>1. k \in Key /\ items[k] \in Item \cup {Absent}
  BY UsesKeys DEF TypeInv
<1>2. Store[k] = Abs(items[k])
  BY IdleStore
<1> QED
  BY <1>1, <1>2, AbsFacts, AbsExpired DEF Atomic!Members, Atomic!Live

LEMMA SaddRefines ==
  ASSUME IInv, TypeInv', ExclusiveKeys,
         NEW c \in Client, NEW k \in Uses[c], NEW ms \in Names[c], Sadd(c, k, ms)
  PROVE  Steps
<1>0. TypeInv /\ ms \in SUBSET Member
  BY DEF IInv
<1>1. /\ pc[c] = "idle" /\ UNCHANGED <<now, client>>
      /\ items' = [items EXCEPT ![k] = SaddItem(k, ms)]
  BY SaddStep
<1>2. /\ k \in Key /\ items[k] \in Item \cup {Absent}
      /\ Store[k] = Absent <=> items[k] = Absent
      /\ Atomic!Members(k) = IF items[k] = Absent THEN {} ELSE items[k].members
      /\ items[k] # Absent => Store[k].exp = items[k].exp
  BY <1>0, <1>1, StoredAs
<1>3. Abs(SaddItem(k, ms)) =
        [members |-> Atomic!Members(k) \cup ms,
         exp     |-> IF Store[k] = Absent THEN NoTtl ELSE Store[k].exp]
  <2>1. CASE items[k] = Absent
    <3> DEFINE i == [map |-> Fresh(k), members |-> ms, exp |-> NoTtl]
    <3>1. i \in Item /\ SaddItem(k, ms) = i
      BY <1>0, <1>1, <2>1, FreshIs DEF Item, SaddItem
    <3>2. Abs(i) = [members |-> ms, exp |-> NoTtl]
      BY <3>1, AbsFacts
    <3> QED
      BY <1>2, <2>1, <3>1, <3>2
  <2>2. CASE items[k] # Absent
    <3>1. items[k] \in Item /\ items[k].members \cup ms \in SUBSET Member
      BY <1>0, <1>2, <2>2, ItemFacts
    <3>2. Abs(SaddItem(k, ms)) = [members |-> items[k].members \cup ms, exp |-> items[k].exp]
      BY <2>2, <3>1, ItemFacts, AbsFacts DEF SaddItem
    <3> QED
      BY <1>2, <2>2, <3>2
  <2> QED
    BY <2>1, <2>2
<1>4. Store' = [Store EXCEPT ![k] =
                  [members |-> Atomic!Members(k) \cup ms,
                   exp     |-> IF Store[k] = Absent THEN NoTtl ELSE Store[k].exp]]
  BY <1>0, <1>1, <1>3, PutStep
<1>5. answer' = <<c, "n", Cardinality(ms \ Atomic!Members(k))>>
  <2>1. items[k] = Absent => ms \ Atomic!Members(k) = ms
    BY <1>2
  <2>2. items[k] # Absent => ms \ Atomic!Members(k) = ms \ items[k].members
    BY <1>2
  <2> QED
    BY <2>1, <2>2 DEF Sadd
<1>6. answer' = <<c>> \o <<"n", Atomic!Cardinality(ms \ Atomic!Members(k))>>
  BY <1>5, Pair, SameCardinality
<1>7. Due' = Due /\ Due[c] = NoResult
  BY <1>1, DueKept, DueIs
<1>8. Atomic!Sadd(c, k, ms)
  BY <1>4, <1>6, <1>7 DEF Atomic!Sadd, Atomic!Answers, Atomic!Number
<1> QED
  BY <1>1, <1>7, <1>8, CommandStep DEF Atomic!Command

LEMMA SremRefines ==
  ASSUME IInv, TypeInv', ExclusiveKeys,
         NEW c \in Client, NEW k \in Uses[c], NEW ms \in Names[c], Srem(c, k, ms)
  PROVE  Steps
<1>0. TypeInv /\ Filled
  BY DEF IInv
<1>1. /\ pc[c] = "idle" /\ UNCHANGED <<now, client>>
      /\ items' = [items EXCEPT ![k] = SremItem(k, ms)]
  BY SremStep
<1>2. /\ k \in Key /\ items[k] \in Item \cup {Absent}
      /\ Store[k] = Abs(items[k])
      /\ Atomic!Members(k) = IF items[k] = Absent THEN {} ELSE items[k].members
  BY <1>0, <1>1, StoredAs
<1>3. Content(k) = Atomic!Members(k)
  BY <1>0, <1>2, ContentIs
<1> DEFINE left == Atomic!Members(k) \ ms
<1>4. Abs(SremItem(k, ms)) =
        IF left = {} THEN Absent ELSE [Store[k] EXCEPT !.members = left]
  <2>1. CASE left = {}
    BY <1>3, <2>1, AbsFacts DEF SremItem
  <2>2. CASE left # {}
    <3>1. items[k] \in Item /\ left \in SUBSET Member
      BY <1>2, <2>2, ItemFacts
    <3>2. SremItem(k, ms) = [items[k] EXCEPT !.members = left]
      BY <1>3, <2>2 DEF SremItem
    <3>3. Abs(SremItem(k, ms)) = [Abs(items[k]) EXCEPT !.members = left]
      BY <3>1, <3>2, AbsExcept
    <3> QED
      BY <1>2, <2>2, <3>3
  <2> QED
    BY <2>1, <2>2
<1>5. Store' = [Store EXCEPT ![k] = IF left = {} THEN Absent
                                    ELSE [Store[k] EXCEPT !.members = left]]
  BY <1>0, <1>1, <1>4, PutStep
<1>6. answer' = <<c>> \o <<"n", Atomic!Cardinality(ms \cap Atomic!Members(k))>>
  <2>1. answer' = <<c, "n", Cardinality(ms \cap Content(k))>>
    BY DEF Srem
  <2> QED
    BY <1>3, <2>1, Pair, SameCardinality
<1>7. Due' = Due /\ Due[c] = NoResult
  BY <1>1, DueKept, DueIs
<1>8. Atomic!Srem(c, k, ms)
  BY <1>5, <1>6, <1>7 DEF Atomic!Srem, Atomic!Answers, Atomic!Number
<1> QED
  BY <1>1, <1>7, <1>8, CommandStep DEF Atomic!Command

LEMMA DumpRefines ==
  ASSUME IInv, TypeInv', ExclusiveKeys, NEW c \in Client, Dump(c)
  PROVE  Steps
<1>0. TypeInv /\ ClientsOK /\ (\A d \in Client : Sound(d)) /\ Filled
  BY DEF IInv, TypeInv
<1>1. pc[c] = "idle" /\ UNCHANGED <<items, now, client>>
  BY DEF Dump
<1>2. Store' = Store /\ Due' = Due /\ Due[c] = NoResult
  BY <1>0, <1>1, SameStore, DueKept, DueIs
<1>3. ASSUME NEW j \in Key
      PROVE  /\ Atomic!Live(j) <=> j \in Present /\ ~isExpired(items[j])
             /\ Atomic!Live(j) => Store[j] = [members |-> Content(j), exp |-> items[j].exp]
  <2>0. items[j] \in Item \cup {Absent} /\ (Atomic!Expired(Abs(items[j])) <=> isExpired(items[j]))
    BY <1>0, AbsExpired DEF TypeInv
  <2>1. CASE Store[j] = Abs(items[j])
    BY <1>0, <2>0, <2>1, AbsFacts, ContentIs DEF Atomic!Live, Present
  <2>2. CASE Store[j] # Abs(items[j])
    <3>1. PICK w \in Writer(j) : Store[j] = Abs(read[w])
      BY <1>0, <2>2, StoreFacts DEF StoreAgrees
    <3>2. w \in Client /\ pc[w] = "write" /\ call[w].key = j /\ read[w] \in Item
      BY <1>0, <3>1, CallingClient DEF Writer
    <3>3. items[j] = Absent /\ isExpired(read[w])
      BY <1>0, <2>2, <3>1, <3>2 DEF Sound, Current
    <3>4. ~Atomic!Live(j)
      BY <3>1, <3>2, <3>3, AbsExpired DEF Atomic!Live
    <3> QED
      BY <3>3, <3>4 DEF Present
  <2> QED
    BY <2>1, <2>2
<1>4. {j \in Present : ~isExpired(items[j])} = {j \in Key : Atomic!Live(j)}
  BY <1>3 DEF Present
<1>5. [j \in {i \in Present : ~isExpired(items[i])} |->
                              [members |-> Content(j), exp |-> items[j].exp]]
        = [j \in {i \in Key : Atomic!Live(i)} |-> Store[j]]
  BY <1>3, <1>4
<1>6. answer' = <<c>> \o <<"dump", [k \in {j \in Key : Atomic!Live(j)} |-> Store[k]]>>
  <2>1. answer' = <<c, "dump", [k \in {j \in Key : Atomic!Live(j)} |-> Store[k]]>>
    BY <1>5 DEF Dump
  <2> QED
    BY <2>1, Pair
<1>7. Atomic!Dump(c)
  BY <1>2, <1>6 DEF Atomic!Dump, Atomic!Answers
<1> QED
  BY <1>1, <1>2, <1>7, CommandStep DEF Atomic!Command

(* getItem is a step of its own: it shows nothing, or the answer.          *)
LEMMA LooksRefines ==
  ASSUME IInv, TypeInv', ExclusiveKeys,
         NEW c \in Client, NEW k \in Uses[c], NEW op, NEW arg, Looks(c, op, k, arg),
         Reading(c, op, arg, IF op = "expire" THEN "write" ELSE "check")
  PROVE  Steps
<1> DEFINE next == IF op = "expire" THEN "write" ELSE "check"
           a == [op |-> op, key |-> k, arg |-> arg]
<1>0. TypeInv /\ k \in Key /\ items[k] \in Item \cup {Absent}
  BY UsesKeys DEF IInv, TypeInv
<1>1. /\ pc[c] = "idle" /\ UNCHANGED <<items, now>>
      /\ \/ items[k] = Absent /\ answer' = <<c>> \o NothingFor(op) /\ UNCHANGED client
         \/ UNCHANGED answer /\ Moves(c, next, a, items[k], NoWalk)
  BY <1>0, LooksStep
<1>2. /\ Store[k] = Abs(items[k]) /\ Due[c] = NoResult
      /\ Store[k] = Absent <=> items[k] = Absent
  BY <1>0, <1>1, StoredAs, DueIs
<1>3. CASE items[k] = Absent /\ answer' = <<c>> \o NothingFor(op) /\ UNCHANGED client
  <2>1. Store' = Store /\ Due' = Due /\ Store[k] = Absent /\ ~Atomic!Live(k)
    BY <1>0, <1>1, <1>2, <1>3, SameStore, DueKept DEF Atomic!Live
  <2>2. CASE op = "expire"
    <3>1. Store' = [Store EXCEPT ![k] = Absent]
      BY <2>1 DEF Store
    <3>2. answer' = <<c>> \o <<"n", 0>> /\ arg \in Ttls
      BY <1>3, <2>2 DEF NothingFor, Reading
    <3>3. Atomic!Expire(c, k, arg)
      BY <2>1, <3>1, <3>2 DEF Atomic!Expire, Atomic!Answers, Atomic!Number
    <3> QED
      BY <1>1, <1>2, <3>2, <3>3, CommandStep DEF Atomic!Command
  <2>3. CASE op # "expire"
    <3>1. /\ op \in {"smembers", "sismember", "scard", "ttl"}
          /\ op = "sismember" => arg \in UNION Names[c]
      BY <2>3 DEF Reading
    <3>2. ReadResult(op, k, arg) = NothingFor(op)
      BY <2>1, <3>1, DeadResult
    <3>3. Atomic!Reads(c, k, ReadResult(op, k, arg))
      BY <1>3, <2>1, <3>2 DEF Atomic!Reads, Atomic!Answers
    <3> QED
      BY <1>1, <1>2, <3>1, <3>3, ReadRefines
  <2> QED
    BY <2>2, <2>3
<1>4. CASE UNCHANGED answer /\ Moves(c, next, a, items[k], NoWalk)
  <2>0. next \in {"check", "write"} /\ a.key = k
    OBVIOUS
  <2> HIDE DEF next, a
  <2>1. Due' = Due
    BY <1>1, <1>4, <2>0, DueMoves
  <2>2. \A j \in Key \ {k} : Store'[j] = Store[j]
    BY <1>0, <1>1, <1>4, <2>0, OneKey
  <2>3. Store'[k] = Store[k]
    <3>1. CASE next = "write"
      <4>1. pc'[c] = "write" /\ call'[c].key = k /\ read'[c] = items[k]
        BY <1>4, <2>0, <3>1 DEF Moves
      <4> QED
        BY <1>0, <1>2, <4>1, StoreFactsNext DEF StoreAgrees
    <3>2. CASE next = "check"
      BY <1>1, <1>2, <1>4, <3>2, IdleStoreNext DEF Moves
    <3> QED
      BY <2>0, <3>1, <3>2
  <2>4. Store' = Store
    BY <2>2, <2>3, StoreSame
  <2> QED
    BY <1>1, <1>4, <2>1, <2>4 DEF Steps
<1> QED
  BY <1>1, <1>3, <1>4

LEMMA CheckLiveRefines ==
  ASSUME IInv, TypeInv', ExclusiveKeys, NEW c \in Client, CheckLive(c)
  PROVE  Steps
<1> DEFINE k == call[c].key
<1>0. TypeInv /\ ClientsOK /\ Current(c)
  BY DEF IInv, TypeInv, Sound
<1>1. /\ pc[c] = "check" /\ ~isExpired(read[c]) /\ UNCHANGED <<items, now>>
      /\ \/ /\ call[c].op = "ttl" /\ Moves(c, "idle", NoCall, Absent, NoWalk)
            /\ answer' = <<c>> \o <<"n", IF read[c].exp = NoTtl THEN -1
                                        ELSE read[c].exp - now>>
         \/ /\ call[c].op \in {"smembers", "sismember", "scard"} /\ UNCHANGED answer
            /\ Moves(c, "walk", call[c], read[c],
                     [sure |-> read[c].members, maybe |-> read[c].members])
  BY <1>0, CheckLiveStep
<1>2. /\ k \in Uses[c] /\ k \in Key /\ read[c] \in Item
      /\ call[c].op = "sismember" => call[c].arg \in UNION Names[c]
  BY <1>0, <1>1, CallingClient
<1>3. items[k] = read[c]
  BY <1>0, <1>1 DEF Current
<1> HIDE DEF k
<1>4. /\ Store[k] = Abs(items[k]) /\ Atomic!Live(k) /\ Due[c] = NoResult
      /\ Atomic!Members(k) = read[c].members /\ Store[k].exp = read[c].exp
  <2>1. read[c] # Absent
    BY <1>2, ItemFacts
  <2> QED
    BY <1>0, <1>1, <1>2, <1>3, <2>1, StoredAs, DueIs
<1>5. CASE /\ call[c].op = "ttl" /\ Moves(c, "idle", NoCall, Absent, NoWalk)
           /\ answer' = <<c>> \o <<"n", IF read[c].exp = NoTtl THEN -1
                                       ELSE read[c].exp - now>>
  <2>1. Due' = Due
    BY <1>1, <1>5, DueMoves
  <2>2. Store' = [Store EXCEPT ![k] = Abs(items[k])]
    BY <1>0, <1>1, <1>5, ReturnStep DEF k
  <2>3. Store' = Store
    BY <1>2, <1>4, <2>2 DEF Store
  <2>4. ReadResult("ttl", k, 0) = <<"n", IF read[c].exp = NoTtl THEN -1
                                        ELSE read[c].exp - now>>
    BY <1>4 DEF ReadResult
  <2>5. Atomic!Reads(c, k, ReadResult("ttl", k, 0))
    BY <1>5, <2>1, <2>3, <2>4 DEF Atomic!Reads, Atomic!Answers
  <2> QED
    BY <1>1, <1>2, <1>4, <2>5, ReadRefines
<1>6. CASE /\ call[c].op \in {"smembers", "sismember", "scard"} /\ UNCHANGED answer
           /\ Moves(c, "walk", call[c], read[c],
                    [sure |-> read[c].members, maybe |-> read[c].members])
  <2> DEFINE w == [sure |-> read[c].members, maybe |-> read[c].members]
             res == ReadResult(call[c].op, k, call[c].arg)
  <2>1. w.sure = read[c].members /\ Moves(c, "walk", call[c], read[c], w)
    BY <1>6
  <2>2. res = Result(c, read[c].members)
    BY <1>4, <1>6 DEF ReadResult, Result
  <2> HIDE DEF w, res
  <2>3. Due' = [Due EXCEPT ![c] = res]
    <3>1. ASSUME NEW d \in Client, d # c PROVE Due'[d] = Due[d]
      BY <2>1, <3>1, OthersDue
    <3>2. Due'[c] = res
      <4>1. pc'[c] = "walk" /\ call'[c] = call[c] /\ walk'[c] = w
        BY <2>1 DEF Moves
      <4>2. Due'[c] = IF pc'[c] = "walk" THEN Result(c, walk[c].sure)' ELSE NoResult
        BY DEF Due
      <4>3. walk'[c].sure = read[c].members
        BY <2>1, <4>1
      <4>4. Result(c, walk[c].sure)' = Result(c, read[c].members)
        BY <4>1, <4>3, Zenon DEF Result
      <4> QED
        BY <2>2, <4>1, <4>2, <4>4
    <3>3. Due' = [d \in Client |-> Due'[d]] /\ Due = [d \in Client |-> Due[d]]
      BY DEF Due
    <3> QED
      BY <3>1, <3>2, <3>3
  <2>4. \A j \in Key \ {k} : Store'[j] = Store[j]
    BY <1>0, <1>1, <1>2, <2>1, OneKey DEF k
  <2>5. Store'[k] = Store[k]
    BY <1>1, <1>2, <1>4, <2>1, IdleStoreNext DEF Moves
  <2>6. Store' = Store
    BY <2>4, <2>5, StoreSame
  <2>7. Atomic!Reads(c, k, res)
    BY <1>6, <2>3, <2>6 DEF Atomic!Reads
  <2> QED
    BY <1>1, <1>2, <1>4, <1>6, <2>7, ReadRefines DEF res
<1> QED
  BY <1>1, <1>5, <1>6

LEMMA WalkEndRefines ==
  ASSUME IInv, TypeInv', ExclusiveKeys, NEW c \in Client, WalkEnd(c)
  PROVE  Steps
<1>0. TypeInv /\ ClientsOK /\ Current(c) /\ Found(c)
  BY DEF IInv, TypeInv, Sound
<1>1. PICK found \in SUBSET walk[c].maybe :
        walk[c].sure \subseteq found /\ Returns(c, Result(c, found))
  BY DEF WalkEnd
<1>2. pc[c] = "walk" /\ UNCHANGED <<items, now>>
  BY DEF WalkEnd
<1>3. found = walk[c].sure
  <2>1. walk[c].sure = read[c].members /\ walk[c].maybe = read[c].members
    BY <1>0, <1>2 DEF Found
  <2> QED
    BY <1>1, <2>1
<1>4. Due[c] = Result(c, found) /\ Due[c] # NoResult
  BY <1>0, <1>2, <1>3, DueIs, ResultTyped
<1>5. Moves(c, "idle", NoCall, Absent, NoWalk)
  BY <1>0, <1>1, ReturnsOK
<1>6. Due' = [Due EXCEPT ![c] = NoResult]
  BY <1>5, DueMoves
<1>7. Store' = Store
  <2> DEFINE k == call[c].key
  <2>1. k \in Uses[c] /\ k \in Key
    BY <1>0, <1>2, CallingClient
  <2>2. Store' = [Store EXCEPT ![k] = Abs(items[k])]
    BY <1>0, <1>2, <1>5, ReturnStep
  <2> HIDE DEF k
  <2>3. Store[k] = Abs(items[k])
    BY <1>0, <1>2, <2>1, IdleStore
  <2> QED
    BY <2>1, <2>2, <2>3 DEF Store
<1>8. answer' = <<c>> \o Due[c]
  BY <1>1, <1>4 DEF Returns
<1>9. Atomic!Give(c)
  BY <1>4, <1>6, <1>7, <1>8 DEF Atomic!Give
<1> QED
  BY <1>2, <1>9 DEF Atomic!Next, Steps

LEMMA CheckExpiredRefines ==
  ASSUME IInv, TypeInv', ExclusiveKeys, NEW c \in Client, CheckExpired(c)
  PROVE  Steps
<1> DEFINE k == call[c].key
<1>0. TypeInv /\ ClientsOK
  BY DEF IInv, TypeInv
<1>1. /\ pc[c] = "check" /\ UNCHANGED <<items, now, answer>>
      /\ Moves(c, "passive", call[c], read[c], walk[c])
  BY <1>0, CheckExpiredStep
<1>2. k \in Uses[c] /\ k \in Key
  BY <1>0, <1>1, CallingClient
<1>3. Due' = Due
  BY <1>1, DueMoves
<1>4. \A j \in Key \ {k} : Store'[j] = Store[j]
  BY <1>0, <1>1, <1>2, OneKey
<1>5. Store'[k] = Store[k]
  <2>1. pc'[c] = "passive"
    BY <1>1 DEF Moves
  <2> QED
    BY <1>0, <1>1, <1>2, <2>1, IdleStore, IdleStoreNext
<1>6. Store' = Store
  BY <1>4, <1>5, StoreSame
<1> QED
  BY <1>1, <1>3, <1>6 DEF Steps

LEMMA passiveExpireRefines ==
  ASSUME IInv, TypeInv', ExclusiveKeys, NEW c \in Client, passiveExpire(c)
  PROVE  Steps
<1> DEFINE k == call[c].key
<1>0. TypeInv /\ ClientsOK /\ Targets(c) /\ items \in [Key -> Item \cup {Absent}]
  BY DEF IInv, TypeInv, Sound
<1>1. /\ pc[c] = "passive" /\ items' = [items EXCEPT ![k] = Absent] /\ now' = now
      /\ Returns(c, NothingFor(call[c].op))
  BY DEF passiveExpire
<1>2. /\ k \in Uses[c] /\ k \in Key
      /\ call[c].op \in {"smembers", "sismember", "scard", "ttl"}
      /\ call[c].op = "sismember" => call[c].arg \in UNION Names[c]
  BY <1>0, <1>1, CallingClient DEF Ops
<1>3. items[k] = Absent \/ isExpired(items[k])
  BY <1>0, <1>1 DEF Targets
<1>4. Moves(c, "idle", NoCall, Absent, NoWalk)
  BY <1>0, <1>1, ReturnsOK
<1>5. Due' = Due /\ Due[c] = NoResult
  BY <1>1, <1>4, DueMoves, DueIs
<1>6. Store' = [Store EXCEPT ![k] = Absent]
  <2>1. (\A j \in Key \ {k} : items'[j] = items[j]) /\ items'[k] = Absent
    BY <1>0, <1>1, <1>2
  <2>2. Store' = [Store EXCEPT ![k] = Abs(items'[k])]
    BY <1>0, <1>1, <1>4, <2>1, ReturnStep
  <2> QED
    BY <2>1, <2>2, AbsFacts
<1> HIDE DEF k
<1>7. ~Atomic!Live(k) /\ (Store' = Store \/ Atomic!Expired(Store[k]))
  <2>1. /\ Atomic!Live(k) <=> items[k] # Absent /\ ~isExpired(items[k])
        /\ Store[k] = Absent <=> items[k] = Absent
    BY <1>0, <1>1, <1>2, StoredAs
  <2>2. CASE Store[k] = Absent
    <3>1. Store' = Store
      BY <1>6, <2>2 DEF Store
    <3> QED
      BY <2>2, <3>1 DEF Atomic!Live
  <2>3. CASE Store[k] # Absent
    BY <1>3, <2>1, <2>3 DEF Atomic!Live
  <2> QED
    BY <2>2, <2>3
<1>8. ReadResult(call[c].op, k, call[c].arg) = NothingFor(call[c].op)
  BY <1>2, <1>7, DeadResult
<1>9. Atomic!Reads(c, k, ReadResult(call[c].op, k, call[c].arg))
  BY <1>1, <1>5, <1>6, <1>7, <1>8 DEF Atomic!Reads, Atomic!Answers, Returns
<1> QED
  BY <1>1, <1>2, <1>5, <1>9, ReadRefines

LEMMA WriteBackRefines ==
  ASSUME IInv, TypeInv', ExclusiveKeys, NEW c \in Client, WriteBack(c)
  PROVE  Steps
<1> DEFINE k == call[c].key
           t == call[c].arg
           x == IF t <= 0 THEN Absent ELSE [read[c] EXCEPT !.exp = now + t]
<1>0. TypeInv /\ ClientsOK /\ items \in [Key -> Item \cup {Absent}] /\ now \in Nat
  BY DEF IInv, TypeInv
<1>1. /\ pc[c] = "write" /\ items' = [items EXCEPT ![k] = x] /\ now' = now
      /\ Returns(c, <<"n", 1>>)
  BY DEF WriteBack
<1>2. k \in Uses[c] /\ k \in Key /\ read[c] \in Item /\ t \in Ttls /\ t \in Int
  BY <1>0, <1>1, ExpiredItem, CallingClient
<1>3. Store[k] = Abs(read[c]) /\ Store[k] # Absent
  <2>1. c \in Writer(k)
    BY <1>1 DEF Writer
  <2> QED
    BY <1>0, <1>2, <2>1, StoreFacts, AbsFacts DEF StoreAgrees
<1>4. Abs(x) = IF t <= 0 THEN Absent ELSE [Store[k] EXCEPT !.exp = now + t]
  <2>1. CASE t <= 0
    BY <2>1, AbsFacts
  <2>2. CASE ~(t <= 0)
    <3>1. now + t \in Nat \cup {NoTtl}
      <4>1. \A s \in Int : ~(s <= 0) => now + s \in Nat
        BY <1>0
      <4> QED
        BY <1>2, <2>2, <4>1
    <3>2. Abs([read[c] EXCEPT !.exp = now + t]) = [Abs(read[c]) EXCEPT !.exp = now + t]
      BY <1>2, <3>1, AbsExcept
    <3> QED
      BY <1>3, <2>2, <3>2
  <2> QED
    BY <2>1, <2>2
<1>5. Moves(c, "idle", NoCall, Absent, NoWalk)
  BY <1>0, <1>1, ReturnsOK
<1>6. Due' = Due /\ Due[c] = NoResult
  BY <1>1, <1>5, DueMoves, DueIs
<1> HIDE DEF x
<1>7. Store' = [Store EXCEPT ![k] = Abs(x)]
  <2>1. (\A j \in Key \ {k} : items'[j] = items[j]) /\ items'[k] = x
    BY <1>0, <1>1, <1>2
  <2>2. Store' = [Store EXCEPT ![k] = Abs(items'[k])]
    BY <1>0, <1>1, <1>5, <2>1, ReturnStep
  <2> QED
    BY <2>1, <2>2
<1> HIDE DEF k, t
<1>8. Store' = [Store EXCEPT ![k] = IF Store[k] = Absent \/ t <= 0 THEN Absent
                                    ELSE [Store[k] EXCEPT !.exp = now + t]]
  BY <1>3, <1>4, <1>7
<1>9. answer' = <<c>> \o <<"n", 1>>
  BY <1>1 DEF Returns
<1>10. Atomic!Expire(c, k, t)
  BY <1>3, <1>6, <1>8, <1>9 DEF Atomic!Expire, Atomic!Answers, Atomic!Number
<1> QED
  BY <1>1, <1>2, <1>6, <1>10, CommandStep DEF Atomic!Command

LEMMA SweepRefines ==
  ASSUME IInv, TypeInv', ExclusiveKeys, Sweep
  PROVE  Steps
<1>0. TypeInv /\ items \in [Key -> Item \cup {Absent}]
  BY DEF IInv, TypeInv
<1>1. /\ UNCHANGED <<now, client, answer>> /\ Due' = Due
      /\ \/ UNCHANGED items
         \/ \E k \in Key : isExpired(items[k]) /\ items' = [items EXCEPT ![k] = Absent]
  BY <1>0, SweepStep, DueKept
<1>2. CASE UNCHANGED items
  <2>1. Store' = Store
    BY <1>0, <1>1, <1>2, SameStore
  <2> QED
    BY <1>1, <2>1 DEF Steps
<1>3. ASSUME NEW k \in Key, isExpired(items[k]), items' = [items EXCEPT ![k] = Absent]
      PROVE  Steps
  <2>1. \A j \in Key \ {k} : Store'[j] = Store[j]
    BY <1>0, <1>1, <1>3, SameWriters
  <2>2. CASE Writer(k) # {}
    <3>1. Store' = Store
      BY <1>0, <1>1, <2>1, <2>2, SameWriters, StoreSame
    <3> QED
      BY <1>1, <3>1 DEF Steps
  <2>3. CASE Writer(k) = {}
    <3>1. Store'[k] = Absent /\ Store[k] = Abs(items[k])
      BY <1>0, <1>1, <1>3, <2>3, SameWriters, AbsFacts
    <3>2. Store' = [Store EXCEPT ![k] = Absent]
      BY <2>1, <3>1, StoreExcept
    <3>3. Atomic!Expired(Store[k])
      BY <1>0, <1>3, <3>1, AbsExpired
    <3>4. Atomic!Evict(k)
      BY <1>1, <3>2, <3>3 DEF Atomic!Evict
    <3> QED
      BY <1>1, <3>4 DEF Atomic!Next, Steps
  <2> QED
    BY <2>2, <2>3
<1> QED
  BY <1>1, <1>2, <1>3

LEMMA StepRefines ==
  ASSUME ExclusiveKeys, IInv, TypeInv', [Next]_vars
  PROVE  [Atomic!Next]_<<Store, now, Due, answer>>
<1> SUFFICES Steps
  BY DEF Steps
<1>0. TypeInv
  BY DEF IInv
<1>1. ASSUME NEW c \in Client, NEW k \in Uses[c],
             \E ms \in Names[c] : Sadd(c, k, ms) \/ Srem(c, k, ms)
      PROVE  Steps
  BY <1>1, SaddRefines, SremRefines
<1>2. ASSUME NEW c \in Client, NEW k \in Uses[c],
             \/ Smembers(c, k) \/ Scard(c, k) \/ TTL(c, k)
             \/ \E m \in UNION Names[c] : Sismember(c, k, m)
             \/ \E ttl \in Ttls : Expire(c, k, ttl)
      PROVE  Steps
  BY <1>2, LooksCases, LooksRefines
<1>3. ASSUME NEW c \in Client, Dump(c) PROVE Steps
  BY <1>3, DumpRefines
<1>4. ASSUME NEW c \in Client, Continue(c) PROVE Steps
  BY <1>4, CheckLiveRefines, WalkEndRefines, CheckExpiredRefines, passiveExpireRefines,
     WriteBackRefines DEF Continue
<1>5. CASE Tick
  <2>1. Store' = Store /\ Due' = Due
    BY <1>0, <1>5, SameStore, DueKept DEF Tick
  <2>2. Atomic!Tick
    BY <1>5, <2>1 DEF Tick, Atomic!Tick
  <2> QED
    BY <2>2 DEF Atomic!Next, Steps
<1>6. CASE UNCHANGED vars
  <2>1. Store' = Store /\ Due' = Due
    BY <1>0, <1>6, SameStore, DueKept DEF vars
  <2> QED
    BY <1>6, <2>1 DEF vars, Steps
<1>7. CASE Sweep
  BY <1>7, SweepRefines
<1> QED
  BY <1>1, <1>2, <1>3, <1>4, <1>5, <1>6, <1>7 DEF Next, Command

(* With a key per client, every command of the store of sets is atomic,    *)
(* with the clock and the expiration loop running (set.go:37-184).         *)
THEOREM SetImplementsSets ==
  ASSUME ExclusiveKeys
  PROVE  Spec => CommandsAtomic
<1>1. Init => Atomic!Init
  <2> SUFFICES ASSUME Init PROVE Atomic!Init
    OBVIOUS
  <2>1. \A k \in Key : Writer(k) = {} /\ items[k] = Absent
    BY DEF Init, Writer
  <2>2. Store = [k \in Key |-> Absent]
    BY <2>1 DEF Store
  <2>3. Due = [c \in Client |-> NoResult]
    BY DEF Init, Due
  <2> QED
    BY <2>2, <2>3 DEF Init, Atomic!Init
<1>2. IInv /\ IInv' /\ [Next]_vars => [Atomic!Next]_<<Store, now, Due, answer>>
  BY StepRefines DEF IInv
<1> QED
  BY <1>1, <1>2, SpecIInv, PTL DEF Spec, CommandsAtomic, Atomic!Spec
=============================================================================

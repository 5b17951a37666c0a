----------------------------- MODULE DictProofs -----------------------------
(***************************************************************************)
(* Theorems about Dict, for every set of clients, keys and values and any  *)
(* sampling parameters: the type invariant; and, when no two clients name  *)
(* the same key, that the copies the calls work on are current, that only  *)
(* expired items are deleted passively and that every command is atomic.   *)
(***************************************************************************)
EXTENDS Dict, TLAPS, FiniteSetTheorems

USE DictAssumption

-----------------------------------------------------------------------------
(* The shapes of items and of a call in progress.                          *)
LEMMA ItemFacts ==
  /\ Absent \notin Item
  /\ \A i \in Item : i = [value |-> i.value, exp |-> i.exp]
                    /\ i.value \in Value /\ i.exp \in Nat \cup {NoTtl}
  /\ \A v \in Value, e \in Nat \cup {NoTtl} : [value |-> v, exp |-> e] \in Item
  /\ \A i \in Item, e \in Nat \cup {NoTtl} :
       /\ [i EXCEPT !.exp = e] \in Item
       /\ [i EXCEPT !.exp = e].exp = e
       /\ [i EXCEPT !.exp = e].value = i.value
  BY DEF Item

LEMMA InitTypeOK == Init => TypeOK
<1> SUFFICES ASSUME Init PROVE TypeOK
  OBVIOUS
<1>1. ClientsOK
  BY DEF Init, ClientsOK, Idling
<1>2. SweepOK
  BY DEF Init, SweepOK, Asleep
<1> QED
  BY <1>1, <1>2 DEF Init, TypeOK

(* What holds of a call in progress keeps holding if it is not touched.    *)
LEMMA ClientsKept ==
  ASSUME ClientsOK, UNCHANGED client
  PROVE  ClientsOK'
  BY DEF ClientsOK, Idling, Calling, client

LEMMA ReturnsOK ==
  ASSUME ClientsOK, NEW c \in Client, NEW r, Returns(c, r)
  PROVE  /\ ClientsOK'
         /\ pc'[c] = "idle"
         /\ \A d \in Client \ {c} :
              pc'[d] = pc[d] /\ call'[d] = call[d] /\ read'[d] = read[d]
<1>1. /\ pc' = [pc EXCEPT ![c] = "idle"]
      /\ call' = [call EXCEPT ![c] = NoCall]
      /\ read' = [read EXCEPT ![c] = Absent]
  BY DEF Returns
<1>2. \A d \in Client \ {c} :
        pc'[d] = pc[d] /\ call'[d] = call[d] /\ read'[d] = read[d]
  BY <1>1 DEF ClientsOK
<1>3. pc'[c] = "idle" /\ call'[c] = NoCall /\ read'[c] = Absent
  BY <1>1 DEF ClientsOK
<1>4. /\ pc' \in [Client -> {"idle", "check", "passive", "write"}]
      /\ DOMAIN call' = Client /\ DOMAIN read' = Client
  BY <1>1 DEF ClientsOK
<1>5. ASSUME NEW d \in Client PROVE Idling(d)' \/ Calling(d)'
  <2>1. CASE d = c
    BY <1>3, <2>1 DEF Idling
  <2>2. CASE d # c
    BY <1>2, <2>2 DEF ClientsOK, Idling, Calling
  <2> QED
    BY <2>1, <2>2
<1> QED
  BY <1>2, <1>3, <1>4, <1>5 DEF ClientsOK

LEMMA HoldsOK ==
  ASSUME TypeOK, NEW c \in Client, NEW k \in Uses[c],
         NEW op, NEW arg, NEW next,
         Holds(c, op, k, arg, next),
         \/ op \in {"get", "ttl"} /\ next = "check"
         \/ op = "expire" /\ next = "write" /\ arg \in Ttls
         \/ op = "expireat" /\ next = "write" /\ arg \in 1 .. MaxTime
  PROVE  /\ ClientsOK'
         /\ pc'[c] = next
         /\ call'[c].op = op /\ call'[c].key = k /\ call'[c].arg = arg
         /\ read'[c] = items[k]
         /\ \A d \in Client \ {c} :
              pc'[d] = pc[d] /\ call'[d] = call[d] /\ read'[d] = read[d]
<1>1. /\ pc' = [pc EXCEPT ![c] = next]
      /\ call' = [call EXCEPT ![c] = [op |-> op, key |-> k, arg |-> arg]]
      /\ read' = [read EXCEPT ![c] = items[k]]
      /\ ClientsOK
  BY DEF Holds, TypeOK
<1>2. \A d \in Client \ {c} :
        pc'[d] = pc[d] /\ call'[d] = call[d] /\ read'[d] = read[d]
  BY <1>1 DEF ClientsOK
<1>3. /\ pc'[c] = next /\ call'[c] = [op |-> op, key |-> k, arg |-> arg]
      /\ read'[c] = items[k]
  BY <1>1 DEF ClientsOK
<1>4. /\ pc' \in [Client -> {"idle", "check", "passive", "write"}]
      /\ DOMAIN call' = Client /\ DOMAIN read' = Client
  BY <1>1 DEF ClientsOK
<1>5. items[k] \in Item
  BY DEF Holds, TypeOK
<1>6. ASSUME NEW d \in Client PROVE Idling(d)' \/ Calling(d)'
  <2>1. CASE d = c
    BY <1>3, <1>5, <2>1 DEF Calling
  <2>2. CASE d # c
    BY <1>1, <1>2, <2>2 DEF ClientsOK, Idling, Calling
  <2> QED
    BY <2>1, <2>2
<1> QED
  BY <1>2, <1>3, <1>4, <1>6 DEF ClientsOK

LEMMA CheckExpiredOK ==
  ASSUME TypeOK, NEW c \in Client, CheckExpired(c)
  PROVE  /\ ClientsOK'
         /\ pc'[c] = "passive"
         /\ \A d \in Client \ {c} : pc'[d] = pc[d]
<1>1. ClientsOK /\ pc' = [pc EXCEPT ![c] = "passive"] /\ pc[c] = "check"
  BY DEF CheckExpired, TypeOK
<1>2. pc'[c] = "passive" /\ \A d \in Client \ {c} : pc'[d] = pc[d]
  BY <1>1 DEF ClientsOK
<1>3. pc' \in [Client -> {"idle", "check", "passive", "write"}]
  BY <1>1 DEF ClientsOK
<1>4. ASSUME NEW d \in Client PROVE Idling(d)' \/ Calling(d)'
  <2>1. CASE d = c
    <3>1. Calling(c)
      BY <1>1 DEF ClientsOK, Idling
    <3> QED
      BY <1>1, <1>2, <2>1, <3>1 DEF Calling, CheckExpired
  <2>2. CASE d # c
    BY <1>1, <1>2, <2>2 DEF ClientsOK, Idling, Calling, CheckExpired
  <2> QED
    BY <2>1, <2>2
<1> QED
  BY <1>1, <1>2, <1>3, <1>4 DEF ClientsOK, CheckExpired

LEMMA RoundOK ==
  ASSUME NEW n \in Nat, sweep' = Round(n)
  PROVE  SweepOK'
<1>1. Present \subseteq Key
  BY DEF Present
<1>2. Cardinality(Present) \in Nat
  BY <1>1, FS_Subset, FS_CardinalityType
<1> DEFINE left == IF Cardinality(Present) < SampleSize
                   THEN Cardinality(Present) ELSE SampleSize
<1>3. left \in 0 .. SampleSize
  BY <1>2
<1>4. sweep' = [at |-> "sampling", round |-> n, keys |-> Present, left |-> left,
                checked |-> 0, expired |-> 0]
  BY DEF Round
<1> HIDE DEF left
<1> QED
  BY <1>1, <1>3, <1>4 DEF SweepOK

LEMMA AsleepOK == ASSUME sweep' = Asleep PROVE SweepOK'
  BY DEF SweepOK, Asleep

(* The loop: what it does to the items, and that its counts stay in range. *)
LEMMA SweepStep ==
  ASSUME TypeOK, Sweep
  PROVE  /\ SweepOK'
         /\ UNCHANGED <<now, client, answer>>
         /\ \/ UNCHANGED items
            \/ \E k \in Key : /\ isExpired(items[k])
                             /\ items' = [items EXCEPT ![k] = Absent]
<1>1. CASE SweepWake
  BY <1>1 DEF SweepWake, TypeOK, SweepOK
<1>2. CASE SweepLock
  BY <1>2, RoundOK, AsleepOK DEF SweepLock
<1>3. ASSUME NEW k \in Key, SweepSample(k)
      PROVE  /\ SweepOK'
             /\ UNCHANGED <<now, client, answer>>
             /\ \/ UNCHANGED items
                \/ isExpired(items[k]) /\ items' = [items EXCEPT ![k] = Absent]
  <2> DEFINE n == IF items[k] = Absent THEN sweep.checked ELSE sweep.checked + 1
             m == IF isExpired(items[k]) THEN sweep.expired + 1 ELSE sweep.expired
  <2>1. /\ sweep \in [at : {"asleep", "waking", "sampling"}, round : Nat,
                     keys : SUBSET Key, left : 0 .. SampleSize,
                     checked : Nat, expired : Nat]
        /\ sweep.left > 0 /\ sweep.expired <= sweep.checked
        /\ sweep.checked + sweep.left <= SampleSize
        /\ sweep.left \in Nat /\ sweep.checked \in Nat /\ sweep.expired \in Nat
    BY <1>3 DEF SweepSample, TypeOK, SweepOK
  <2>2. sweep' = [sweep EXCEPT !.left = sweep.left - 1, !.checked = n, !.expired = m]
    BY <1>3 DEF SweepSample
  <2>3. n \in Nat /\ m \in Nat /\ n <= sweep.checked + 1 /\ m <= n
    BY <2>1 DEF isExpired
  <2> HIDE DEF n, m
  <2>4. /\ sweep' \in [at : {"asleep", "waking", "sampling"}, round : Nat,
                      keys : SUBSET Key, left : 0 .. SampleSize,
                      checked : Nat, expired : Nat]
        /\ sweep'.left = sweep.left - 1 /\ sweep'.checked = n /\ sweep'.expired = m
    <3>1. sweep.left - 1 \in 0 .. SampleSize
      BY <2>1
    <3> QED
      BY <2>1, <2>2, <2>3, <3>1
  <2>5. SweepOK'
    BY <2>1, <2>3, <2>4 DEF SweepOK
  <2> QED
    BY <1>3, <2>5 DEF SweepSample
<1>4. CASE SweepRoundEnd
  <2>1. sweep.round + 1 \in Nat
    BY DEF TypeOK, SweepOK
  <2> QED
    BY <1>4, <2>1, RoundOK, AsleepOK DEF SweepRoundEnd
<1> QED
  BY <1>1, <1>2, <1>3, <1>4 DEF Sweep, SweepWake, SweepLock, SweepRoundEnd

-----------------------------------------------------------------------------
(* Type correctness.                                                       *)
LEMMA NextTypeOK == TypeOK /\ [Next]_vars => TypeOK'
<1> SUFFICES ASSUME TypeOK, [Next]_vars PROVE TypeOK'
  OBVIOUS
<1>0. /\ items \in [Key -> Item \cup {Absent}] /\ now \in 1 .. MaxTime
      /\ ClientsOK /\ SweepOK
      /\ \A c \in Client : Uses[c] \subseteq Key
  BY DEF TypeOK
<1>s. ASSUME UNCHANGED sweep PROVE SweepOK'
  BY <1>0, <1>s DEF SweepOK
<1>r. ASSUME NEW c \in Client, NEW k \in Uses[c], NEW op, NEW arg, NEW next,
             NEW miss,
             Misses(k, miss) \/ Holds(c, op, k, arg, next),
             \/ op \in {"get", "ttl"} /\ next = "check"
             \/ op = "expire" /\ next = "write" /\ arg \in Ttls
             \/ op = "expireat" /\ next = "write" /\ arg \in 1 .. MaxTime,
             UNCHANGED <<items, now, sweep>>
      PROVE  TypeOK'
  <2>1. ClientsOK'
    BY <1>0, <1>r, ClientsKept, HoldsOK DEF Misses
  <2> QED
    BY <1>0, <1>r, <1>s, <2>1 DEF TypeOK
<1>1. ASSUME NEW c \in Client, NEW k \in Uses[c], NEW v \in Value, NEW ttl \in Ttls,
             Set(c, k, v, ttl)
      PROVE  TypeOK'
  <2> DEFINE e == IF ttl > 0 THEN now + ttl ELSE NoTtl
  <2>1. e \in Nat \cup {NoTtl}
    BY <1>0
  <2>2. items' = [items EXCEPT ![k] = [value |-> v, exp |-> e]]
    BY <1>1 DEF Set
  <2> HIDE DEF e
  <2>3. items' \in [Key -> Item \cup {Absent}]
    BY <1>0, <2>1, <2>2, ItemFacts
  <2> QED
    BY <1>0, <1>1, <1>s, <2>3, ClientsKept DEF Set, TypeOK
<1>2. ASSUME NEW c \in Client, NEW ks \in SUBSET Uses[c], Delete(c, ks) PROVE TypeOK'
  BY <1>0, <1>2, <1>s, ClientsKept DEF Delete, TypeOK
<1>3. ASSUME NEW c \in Client, Dump(c) PROVE TypeOK'
  BY <1>0, <1>3, <1>s, ClientsKept DEF Dump, TypeOK
<1>4. ASSUME NEW c \in Client, NEW k \in Uses[c], Get(c, k) \/ TTL(c, k) PROVE TypeOK'
  BY <1>4, <1>r DEF Get, TTL
<1>5. ASSUME NEW c \in Client, NEW k \in Uses[c], NEW ttl \in Ttls, Expire(c, k, ttl)
      PROVE  TypeOK'
  BY <1>5, <1>r DEF Expire
<1>6. ASSUME NEW c \in Client, NEW k \in Uses[c], NEW at \in 1 .. MaxTime,
             ExpireAt(c, k, at)
      PROVE  TypeOK'
  BY <1>6, <1>r DEF ExpireAt
<1>7. ASSUME NEW c \in Client, CheckLive(c) PROVE TypeOK'
  <2>1. PICK r : Returns(c, r)
    BY <1>7 DEF CheckLive
  <2>2. ClientsOK'
    BY <1>0, <2>1, ReturnsOK
  <2> QED
    BY <1>0, <1>7, <1>s, <2>2 DEF CheckLive, TypeOK
<1>8. ASSUME NEW c \in Client, CheckExpired(c) PROVE TypeOK'
  BY <1>0, <1>8, <1>s, CheckExpiredOK DEF CheckExpired, TypeOK
<1>9. ASSUME NEW c \in Client, passiveExpire(c) PROVE TypeOK'
  <2>1. PICK r : Returns(c, r)
    BY <1>9 DEF passiveExpire
  <2>2. ClientsOK'
    BY <1>0, <2>1, ReturnsOK
  <2>3. items' \in [Key -> Item \cup {Absent}]
    BY <1>0, <1>9 DEF passiveExpire
  <2> QED
    BY <1>0, <1>9, <1>s, <2>2, <2>3 DEF passiveExpire, TypeOK
<1>10. ASSUME NEW c \in Client, WriteBack(c) PROVE TypeOK'
  <2>1. ClientsOK'
    BY <1>0, <1>10, ReturnsOK DEF WriteBack
  <2>2. Calling(c) /\ call[c].op \in {"expire", "expireat"}
    BY <1>0, <1>10 DEF WriteBack, ClientsOK, Idling, Calling
  <2>3. ASSUME ~Past(c) PROVE Deadline(c) \in Nat
    <3>1. CASE call[c].op = "expire"
      <4>1. call[c].arg \in Int /\ ~(call[c].arg <= 0) /\ now \in Nat
        <5>1. call[c].arg \in Int
          BY <2>2, <3>1 DEF Calling
        <5>2. ~(call[c].arg <= 0)
          BY <2>3, <3>1 DEF Past
        <5>3. now \in Nat
          BY <1>0
        <5> QED
          BY <5>1, <5>2, <5>3
      <4> QED
        BY <4>1, <3>1 DEF Deadline
    <3>2. CASE call[c].op = "expireat"
      BY <2>2, <3>2 DEF Deadline, Calling
    <3> QED
      BY <2>2, <3>1, <3>2
  <2>4. (IF Past(c) THEN Absent ELSE [read[c] EXCEPT !.exp = Deadline(c)])
          \in Item \cup {Absent}
    BY <2>2, <2>3, ItemFacts DEF Calling
  <2>5. items' \in [Key -> Item \cup {Absent}]
    BY <1>0, <1>10, <2>4 DEF WriteBack
  <2> QED
    BY <1>0, <1>10, <1>s, <2>1, <2>5 DEF WriteBack, TypeOK
<1>11. CASE Sweep
  BY <1>0, <1>11, SweepStep, ClientsKept DEF TypeOK
<1>12. CASE Tick
  BY <1>0, <1>12, <1>s, ClientsKept DEF Tick, TypeOK
<1>13. CASE UNCHANGED vars
  BY <1>0, <1>13, <1>s, ClientsKept DEF vars, client, TypeOK
<1> QED
  BY <1>1, <1>2, <1>3, <1>4, <1>5, <1>6, <1>7, <1>8, <1>9, <1>10, <1>11, <1>12, <1>13
     DEF Next, Command, Continue

(* Shapes and counters stay in range in every execution (dict.go).         *)
THEOREM TypeCorrect == Spec => []TypeOK
  BY InitTypeOK, NextTypeOK, PTL DEF Spec

-----------------------------------------------------------------------------
(* Copies stay current when no two clients name the same key.              *)
Current(c) ==
  pc[c] \in {"check", "write"} =>
    LET i == items[call[c].key]
    IN  i = read[c] \/ (i = Absent /\ isExpired(read[c]))

Targets(c) ==
  pc[c] = "passive" => LET i == items[call[c].key] IN i = Absent \/ isExpired(i)

Sound == \A c \in Client : Current(c) /\ Targets(c)
IInv  == TypeOK /\ Sound

LEMMA SoundParts == Sound <=> CopiesCurrent /\ PassiveTargetsExpired
  BY DEF Sound, Current, Targets, CopiesCurrent, PassiveTargetsExpired

LEMMA CallKey ==
  ASSUME TypeOK, NEW c \in Client, pc[c] # "idle"
  PROVE  Calling(c) /\ call[c].key \in Uses[c] /\ call[c].key \in Key
  BY DEF TypeOK, ClientsOK, Idling, Calling

LEMMA IdleSound ==
  ASSUME NEW c \in Client, pc[c] = "idle"
  PROVE  Current(c) /\ Targets(c)
  BY DEF Current, Targets

(* Another client's step, on keys of its own, does not disturb c.          *)
LEMMA OtherClient ==
  ASSUME TypeOK, ExclusiveKeys, NEW c \in Client, NEW d \in Client, c # d,
         Current(c), Targets(c),
         pc'[c] = pc[c], call'[c] = call[c], read'[c] = read[c], now' = now,
         \A k \in Key \ Uses[d] : items'[k] = items[k]
  PROVE  Current(c)' /\ Targets(c)'
<1>1. CASE pc[c] = "idle"
  BY <1>1 DEF Current, Targets
<1>2. CASE pc[c] # "idle"
  <2>1. call[c].key \in Key \ Uses[d]
    BY <1>2, CallKey DEF ExclusiveKeys
  <2> QED
    BY <2>1 DEF Current, Targets, isExpired
<1> QED
  BY <1>1, <1>2

LEMMA InitSound == Init => Sound
  BY DEF Init, Sound, Current, Targets

LEMMA NextSound ==
  ASSUME ExclusiveKeys
  PROVE  IInv /\ [Next]_vars => Sound'
<1> SUFFICES ASSUME IInv, [Next]_vars PROVE Sound'
  OBVIOUS
<1>0. /\ TypeOK
      /\ \A c \in Client : Current(c) /\ Targets(c)
      /\ items \in [Key -> Item \cup {Absent}] /\ now \in 1 .. MaxTime
      /\ \A c \in Client : Uses[c] \subseteq Key
  BY DEF IInv, Sound, TypeOK
<1>t. TypeOK'
  BY <1>0, NextTypeOK
(* A client's step: the client itself is sound after it, and the others    *)
(* are if the step leaves them and their keys alone.                       *)
<1>c. ASSUME NEW d \in Client, Current(d)' /\ Targets(d)', now' = now,
             \A c \in Client \ {d} :
               pc'[c] = pc[c] /\ call'[c] = call[c] /\ read'[c] = read[c],
             \A k \in Key \ Uses[d] : items'[k] = items[k]
      PROVE  Sound'
  BY <1>0, <1>c, OtherClient DEF Sound
<1>i. ASSUME NEW d \in Client, pc[d] = "idle", UNCHANGED <<client, now>>,
             \A k \in Key \ Uses[d] : items'[k] = items[k]
      PROVE  Sound'
  <2>1. Current(d)' /\ Targets(d)'
    BY <1>i DEF Current, Targets, client
  <2> QED
    BY <1>i, <2>1, <1>c DEF client
<1>r. ASSUME NEW d \in Client, NEW k \in Uses[d], NEW op, NEW arg, NEW next,
             NEW miss, pc[d] = "idle",
             Misses(k, miss) \/ Holds(d, op, k, arg, next),
             \/ op \in {"get", "ttl"} /\ next = "check"
             \/ op = "expire" /\ next = "write" /\ arg \in Ttls
             \/ op = "expireat" /\ next = "write" /\ arg \in 1 .. MaxTime,
             UNCHANGED <<items, now, sweep>>
      PROVE  Sound'
  <2>1. CASE Misses(k, miss)
    BY <2>1, <1>r, <1>i DEF Misses
  <2>2. CASE Holds(d, op, k, arg, next)
    <3>1. /\ pc'[d] = next /\ call'[d].key = k /\ read'[d] = items[k]
          /\ \A c \in Client \ {d} :
               pc'[c] = pc[c] /\ call'[c] = call[c] /\ read'[c] = read[c]
      BY <1>0, <1>r, <2>2, HoldsOK
    <3>2. Current(d)' /\ Targets(d)'
      BY <1>r, <3>1 DEF Current, Targets
    <3> QED
      BY <1>r, <3>1, <3>2, <1>c
  <2> QED
    BY <1>r, <2>1, <2>2
<1>1. ASSUME NEW c \in Client, NEW k \in Uses[c], NEW v \in Value, NEW ttl \in Ttls,
             Set(c, k, v, ttl)
      PROVE  Sound'
  <2>1. \A j \in Key \ Uses[c] : items'[j] = items[j]
    BY <1>0, <1>1 DEF Set
  <2> QED
    BY <1>1, <2>1, <1>i DEF Set
<1>2. ASSUME NEW c \in Client, NEW ks \in SUBSET Uses[c], Delete(c, ks) PROVE Sound'
  <2>1. \A j \in Key \ Uses[c] : items'[j] = items[j]
    BY <1>0, <1>2 DEF Delete
  <2> QED
    BY <1>2, <2>1, <1>i DEF Delete
<1>3. ASSUME NEW c \in Client, Dump(c) PROVE Sound'
  BY <1>3, <1>i DEF Dump
<1>4. ASSUME NEW c \in Client, NEW k \in Uses[c], Get(c, k) \/ TTL(c, k) PROVE Sound'
  BY <1>4, <1>r DEF Get, TTL
<1>5. ASSUME NEW c \in Client, NEW k \in Uses[c], NEW ttl \in Ttls, Expire(c, k, ttl)
      PROVE  Sound'
  BY <1>5, <1>r DEF Expire
<1>6. ASSUME NEW c \in Client, NEW k \in Uses[c], NEW at \in 1 .. MaxTime,
             ExpireAt(c, k, at)
      PROVE  Sound'
  BY <1>6, <1>r DEF ExpireAt
<1>e. ASSUME NEW c \in Client, NEW res, Returns(c, res), now' = now,
             \A k \in Key \ Uses[c] : items'[k] = items[k]
      PROVE  Sound'
  <2>1. /\ pc'[c] = "idle"
        /\ \A d \in Client \ {c} :
             pc'[d] = pc[d] /\ call'[d] = call[d] /\ read'[d] = read[d]
    BY <1>0, <1>e, ReturnsOK DEF TypeOK
  <2>2. Current(c)' /\ Targets(c)'
    BY <2>1 DEF Current, Targets
  <2> QED
    BY <1>e, <2>1, <2>2, <1>c
<1>7. ASSUME NEW c \in Client, CheckLive(c) PROVE Sound'
  <2>1. PICK r : Returns(c, r)
    BY <1>7 DEF CheckLive
  <2> QED
    BY <1>7, <2>1, <1>e DEF CheckLive
<1>8. ASSUME NEW c \in Client, CheckExpired(c) PROVE Sound'
  <2>1. pc'[c] = "passive" /\ \A d \in Client \ {c} : pc'[d] = pc[d]
    BY <1>0, <1>8, CheckExpiredOK
  <2>2. Current(c) /\ pc[c] = "check" /\ isExpired(read[c])
        /\ UNCHANGED <<items, now, call, read>>
    BY <1>0, <1>8 DEF CheckExpired
  <2>3. Current(c)' /\ Targets(c)'
    BY <2>1, <2>2 DEF Current, Targets, isExpired
  <2> QED
    BY <2>1, <2>2, <2>3, <1>c
<1>9. ASSUME NEW c \in Client, passiveExpire(c) PROVE Sound'
  <2>1. PICK r : Returns(c, r)
    BY <1>9 DEF passiveExpire
  <2>2. call[c].key \in Uses[c]
    BY <1>0, <1>9, CallKey DEF passiveExpire
  <2>3. \A k \in Key \ Uses[c] : items'[k] = items[k]
    BY <1>0, <1>9, <2>2 DEF passiveExpire
  <2> QED
    BY <1>9, <2>1, <2>3, <1>e DEF passiveExpire
<1>10. ASSUME NEW c \in Client, WriteBack(c) PROVE Sound'
  <2>2. call[c].key \in Uses[c]
    BY <1>0, <1>10, CallKey DEF WriteBack
  <2>3. \A k \in Key \ Uses[c] : items'[k] = items[k]
    BY <1>0, <1>10, <2>2 DEF WriteBack
  <2> QED
    BY <1>10, <2>3, <1>e DEF WriteBack
<1>11. CASE Sweep
  <2>1. /\ UNCHANGED <<now, client>>
        /\ \/ UNCHANGED items
           \/ \E k \in Key : isExpired(items[k]) /\ items' = [items EXCEPT ![k] = Absent]
    BY <1>0, <1>11, SweepStep
  <2>2. \A j \in Key : \/ items'[j] = items[j]
                       \/ isExpired(items[j]) /\ items'[j] = Absent
    BY <1>0, <2>1
  <2>3. ASSUME NEW c \in Client PROVE Current(c)' /\ Targets(c)'
    <3>1. CASE pc[c] = "idle"
      BY <2>1, <3>1 DEF Current, Targets, client
    <3>2. CASE pc[c] # "idle"
      <4>1. call[c].key \in Key /\ Current(c) /\ Targets(c)
        BY <1>0, <3>2, CallKey
      <4> QED
        BY <2>1, <2>2, <4>1 DEF Current, Targets, client, isExpired
    <3> QED
      BY <3>1, <3>2
  <2> QED
    BY <2>3 DEF Sound
<1>12. CASE Tick
  <2>1. UNCHANGED <<items, client>> /\ now' = now + 1
    BY <1>12 DEF Tick
  <2>2. \A i \in Item \cup {Absent} : isExpired(i) =>
          i # Absent /\ i.exp # NoTtl /\ now' > i.exp
    BY <1>0, <2>1, ItemFacts DEF isExpired
  <2>3. ASSUME NEW c \in Client PROVE Current(c)' /\ Targets(c)'
    <3>1. CASE pc[c] = "idle"
      BY <2>1, <3>1 DEF Current, Targets, client
    <3>2. CASE pc[c] # "idle"
      <4>1. /\ call[c].key \in Key /\ Current(c) /\ Targets(c)
            /\ read[c] \in Item /\ items[call[c].key] \in Item \cup {Absent}
        BY <1>0, <3>2, CallKey DEF Calling
      <4> QED
        BY <2>1, <2>2, <4>1 DEF Current, Targets, client, isExpired
    <3> QED
      BY <3>1, <3>2
  <2> QED
    BY <2>3 DEF Sound
<1>13. CASE UNCHANGED vars
  BY <1>0, <1>13 DEF Sound, Current, Targets, vars, isExpired
<1> QED
  BY <1>1, <1>2, <1>3, <1>4, <1>5, <1>6, <1>7, <1>8, <1>9, <1>10, <1>11, <1>12, <1>13
     DEF Next, Command, Continue

LEMMA SpecIInv ==
  ASSUME ExclusiveKeys
  PROVE  Spec => []IInv
<1>1. Init => IInv
  BY InitTypeOK, InitSound DEF IInv
<1>2. IInv /\ [Next]_vars => IInv'
  BY NextTypeOK, NextSound DEF IInv
<1> QED
  BY <1>1, <1>2, PTL DEF Spec

(* With a key per client, GET, TTL and EXPIRE never act on an outdated     *)
(* copy (dict.go:49-59, 75-132).                                           *)
THEOREM CopiesStayCurrent ==
  ASSUME ExclusiveKeys
  PROVE  Spec => []CopiesCurrent
<1>1. IInv => CopiesCurrent
  BY SoundParts DEF IInv
<1> QED
  BY <1>1, SpecIInv, PTL

(* With a key per client, passive expiration deletes only expired items    *)
(* (dict.go:33-37, 54-56, 125-128).                                        *)
THEOREM PassiveDeletesExpired ==
  ASSUME ExclusiveKeys
  PROVE  Spec => []PassiveTargetsExpired
<1>1. IInv => PassiveTargetsExpired
  BY SoundParts DEF IInv
<1> QED
  BY <1>1, SpecIInv, PTL

-----------------------------------------------------------------------------
(* Refinement.  Store[k] is the item of k, or the copy that the one client *)
(* between the halves of an EXPIRE of k is going to write back.            *)
StoreAgrees ==
  \A k \in Key :
    /\ Writer(k) = {} => Store[k] = items[k]
    /\ \A c \in Writer(k) : Store[k] = read[c]
    /\ \A c \in Client : k \in Uses[c] =>
         Writer(k) = IF pc[c] = "write" /\ call[c].key = k THEN {c} ELSE {}

LEMMA StoreFacts == TypeOK /\ ExclusiveKeys => StoreAgrees
<1> SUFFICES ASSUME TypeOK, ExclusiveKeys, NEW k \in Key
             PROVE  /\ Writer(k) = {} => Store[k] = items[k]
                    /\ \A c \in Writer(k) : Store[k] = read[c]
                    /\ \A c \in Client : k \in Uses[c] =>
                         Writer(k) = IF pc[c] = "write" /\ call[c].key = k
                                     THEN {c} ELSE {}
  BY DEF StoreAgrees
<1>1. \A c \in Writer(k) : c \in Client /\ k \in Uses[c]
  BY CallKey DEF Writer
<1>2. \A c, d \in Writer(k) : c = d
  BY <1>1 DEF ExclusiveKeys
<1>3. \A c \in Writer(k) : Writer(k) = {c}
  BY <1>2
<1>4. \A c \in Client : k \in Uses[c] =>
        Writer(k) = IF pc[c] = "write" /\ call[c].key = k THEN {c} ELSE {}
  BY <1>1 DEF Writer, ExclusiveKeys
<1>5. Store[k] = IF Writer(k) # {} THEN read[CHOOSE c \in Writer(k) : TRUE] ELSE items[k]
  BY DEF Store
<1>6. \A c \in Writer(k) : Store[k] = read[c]
  BY <1>3, <1>5
<1> QED
  BY <1>4, <1>5, <1>6

LEMMA StoreFactsNext == TypeOK' /\ ExclusiveKeys => StoreAgrees'
<1>1. (TypeOK /\ ExclusiveKeys => StoreAgrees)'
  BY StoreFacts, PTL
<1>2. ExclusiveKeys' <=> ExclusiveKeys
  BY DEF ExclusiveKeys
<1> QED
  BY <1>1, <1>2

(* A step of client c that touches no key but k is seen in Store[k] alone. *)
LEMMA OneKey ==
  ASSUME TypeOK, TypeOK', ExclusiveKeys, NEW c \in Client, NEW k \in Uses[c],
         \A d \in Client \ {c} :
           pc'[d] = pc[d] /\ call'[d] = call[d] /\ read'[d] = read[d],
         pc[c] # "idle" => call[c].key = k,
         pc'[c] # "idle" => call'[c].key = k,
         \A j \in Key \ {k} : items'[j] = items[j]
  PROVE  \A j \in Key \ {k} : Store'[j] = Store[j]
<1> SUFFICES ASSUME NEW j \in Key \ {k} PROVE Store'[j] = Store[j]
  OBVIOUS
<1>1. Writer(j)' = Writer(j) /\ c \notin Writer(j)
  BY DEF Writer
<1>2. CASE Writer(j) = {}
  BY <1>1, <1>2, StoreFacts, StoreFactsNext DEF StoreAgrees
<1>3. CASE Writer(j) # {}
  <2>1. PICK d \in Writer(j) : TRUE
    BY <1>3
  <2>2. d \in Client \ {c}
    BY <1>1, <2>1 DEF Writer
  <2>3. Store[j] = read[d] /\ Store'[j] = read'[d]
    BY <1>1, <2>1, StoreFacts, StoreFactsNext DEF StoreAgrees
  <2> QED
    BY <2>2, <2>3
<1> QED
  BY <1>2, <1>3

LEMMA StoreSame ==
  ASSUME \A j \in Key : Store'[j] = Store[j]
  PROVE  Store' = Store
  BY DEF Store

LEMMA StoreExcept ==
  ASSUME NEW k \in Key, NEW x, Store'[k] = x,
         \A j \in Key \ {k} : Store'[j] = Store[j]
  PROVE  Store' = [Store EXCEPT ![k] = x]
<1>1. /\ Store = [j \in Key |-> Store[j]]
      /\ Store' = [j \in Key |-> Store'[j]]
  BY DEF Store
<1> QED
  BY <1>1

(* A client that is idle, or does not write back, holds no key.            *)
LEMMA IdleStore ==
  ASSUME TypeOK, ExclusiveKeys, NEW c \in Client, NEW k \in Uses[c], pc[c] # "write"
  PROVE  Store[k] = items[k]
<1>1. k \in Key
  OBVIOUS
<1> QED
  BY <1>1, StoreFacts DEF StoreAgrees

LEMMA IdleStoreNext ==
  ASSUME TypeOK', ExclusiveKeys, NEW c \in Client, NEW k \in Uses[c], pc'[c] # "write"
  PROVE  Store'[k] = items'[k]
<1>1. k \in Key
  OBVIOUS
<1> QED
  BY <1>1, StoreFactsNext DEF StoreAgrees

LEMMA WriterStore ==
  ASSUME TypeOK, ExclusiveKeys, NEW c \in Client, pc[c] = "write"
  PROVE  Store[call[c].key] = read[c]
<1>1. call[c].key \in Key /\ c \in Writer(call[c].key)
  BY CallKey DEF Writer
<1> QED
  BY <1>1, StoreFacts DEF StoreAgrees

(* Where no key is written back anew, only the items can change Store.     *)
LEMMA SameWriters ==
  ASSUME TypeOK, TypeOK', ExclusiveKeys, UNCHANGED client
  PROVE  \A j \in Key :
           /\ Writer(j)' = Writer(j)
           /\ Writer(j) # {} => Store'[j] = Store[j]
           /\ Writer(j) = {} => Store[j] = items[j] /\ Store'[j] = items'[j]
<1> SUFFICES ASSUME NEW j \in Key
             PROVE  /\ Writer(j)' = Writer(j)
                    /\ Writer(j) # {} => Store'[j] = Store[j]
                    /\ Writer(j) = {} => Store[j] = items[j] /\ Store'[j] = items'[j]
  OBVIOUS
<1>1. Writer(j)' = Writer(j) /\ read' = read
  BY DEF Writer, client
<1>2. ASSUME Writer(j) # {} PROVE Store'[j] = Store[j]
  <2>1. PICK c \in Writer(j) : TRUE
    BY <1>2
  <2> QED
    BY <1>1, <2>1, StoreFacts, StoreFactsNext DEF StoreAgrees
<1> QED
  BY <1>1, <1>2, StoreFacts, StoreFactsNext DEF StoreAgrees

(* getItem is a step of its own: it shows nothing, or the answer.          *)
LEMMA ReadStep ==
  ASSUME TypeOK, TypeOK', ExclusiveKeys, NEW c \in Client, NEW k \in Uses[c],
         NEW op, NEW arg, NEW next, NEW miss, pc[c] = "idle",
         Misses(k, miss) \/ Holds(c, op, k, arg, next),
         \/ op \in {"get", "ttl"} /\ next = "check"
         \/ op = "expire" /\ next = "write" /\ arg \in Ttls
         \/ op = "expireat" /\ next = "write" /\ arg \in 1 .. MaxTime,
         UNCHANGED <<items, now, sweep>>
  PROVE  /\ Store' = Store
         /\ \/ answer' = answer
            \/ Store[k] = Absent /\ answer' = miss
<1>0. k \in Key /\ Store[k] = items[k]
  BY IdleStore
<1>1. CASE Misses(k, miss)
  <2>1. Store' = Store
    BY <1>1, SameWriters, StoreSame DEF Misses
  <2> QED
    BY <1>0, <1>1, <2>1 DEF Misses
<1>2. CASE Holds(c, op, k, arg, next)
  <2>1. /\ pc'[c] = next /\ call'[c].key = k /\ read'[c] = items[k]
        /\ \A d \in Client \ {c} :
             pc'[d] = pc[d] /\ call'[d] = call[d] /\ read'[d] = read[d]
    BY <1>2, HoldsOK
  <2>2. \A j \in Key \ {k} : Store'[j] = Store[j]
    BY <2>1, OneKey
  <2>3. Store'[k] = items[k]
    <3>1. CASE next = "write"
      BY <1>0, <2>1, <3>1, StoreFactsNext DEF StoreAgrees
    <3>2. CASE next # "write"
      BY <1>0, <2>1, <3>2, IdleStoreNext
    <3> QED
      BY <3>1, <3>2
  <2>4. Store' = Store
    BY <1>0, <2>2, <2>3, StoreSame
  <2> QED
    BY <1>2, <2>4 DEF Holds
<1> QED
  BY <1>1, <1>2

(* The end of a call of c on key k, which had the item i in the store.     *)
LEMMA ReturnStep ==
  ASSUME TypeOK, TypeOK', ExclusiveKeys, NEW c \in Client, pc[c] # "idle",
         NEW r, Returns(c, r),
         \A j \in Key \ {call[c].key} : items'[j] = items[j]
  PROVE  /\ call[c].key \in Key
         /\ Store' = [Store EXCEPT ![call[c].key] = items'[call[c].key]]
<1> DEFINE k == call[c].key
<1>1. k \in Key /\ k \in Uses[c]
  BY CallKey
<1>2. /\ pc'[c] = "idle"
      /\ \A d \in Client \ {c} :
           pc'[d] = pc[d] /\ call'[d] = call[d] /\ read'[d] = read[d]
  BY ReturnsOK DEF TypeOK
<1> HIDE DEF k
<1>3. \A j \in Key \ {k} : Store'[j] = Store[j]
  BY <1>1, <1>2, OneKey DEF k
<1>4. Store'[k] = items'[k]
  BY <1>1, <1>2, IdleStoreNext
<1>5. Store' = [Store EXCEPT ![k] = items'[k]]
  BY <1>1, <1>3, <1>4, StoreExcept
<1> QED
  BY <1>1, <1>5 DEF k

(* Each step of the lock-grained dictionary is one command of TTLMap, an   *)
(* eviction, a tick of the clock, or nothing a client can see.             *)
LEMMA StepRefines ==
  ASSUME ExclusiveKeys, IInv, TypeOK', [Next]_vars
  PROVE  [Atomic!Next]_<<Store, now, answer>>
<1>0. /\ TypeOK
      /\ \A c \in Client : Current(c) /\ Targets(c)
      /\ items \in [Key -> Item \cup {Absent}] /\ now \in 1 .. MaxTime
      /\ \A c \in Client : Uses[c] \subseteq Key
  BY DEF IInv, Sound, TypeOK
<1>a. ASSUME NEW c \in Client, Atomic!Command(c), now' = now
      PROVE  Atomic!Next
  BY <1>a DEF Atomic!Next
<1>x. \A i : Atomic!Expired(i) <=> isExpired(i)
  BY DEF Atomic!Expired, isExpired
<1>1. ASSUME NEW c \in Client, NEW k \in Uses[c], NEW v \in Value, NEW ttl \in Ttls,
             Set(c, k, v, ttl)
      PROVE  Atomic!Next
  <2> DEFINE i == [value |-> v, exp |-> IF ttl > 0 THEN now + ttl ELSE NoTtl]
  <2>1. /\ pc[c] = "idle" /\ items' = [items EXCEPT ![k] = i]
        /\ answer' = <<c, "ok">> /\ UNCHANGED <<now, client>>
    BY <1>1 DEF Set
  <2> HIDE DEF i
  <2>2. k \in Key /\ Writer(k) = {}
    BY <1>0, <2>1, StoreFacts DEF StoreAgrees
  <2>3. /\ Store'[k] = i
        /\ \A j \in Key \ {k} : Store'[j] = Store[j]
    BY <1>0, <2>1, <2>2, SameWriters
  <2>4. Store' = [Store EXCEPT ![k] = i]
    BY <2>2, <2>3, StoreExcept
  <2>5. Atomic!Set(c, k, v, ttl)
    BY <2>1, <2>4 DEF Atomic!Set, i
  <2> QED
    BY <2>1, <2>5, <1>a DEF Atomic!Command
<1>2. ASSUME NEW c \in Client, NEW ks \in SUBSET Uses[c], Delete(c, ks)
      PROVE  Atomic!Next
  <2>1. /\ pc[c] = "idle"
        /\ items' = [k \in Key |-> IF k \in ks THEN Absent ELSE items[k]]
        /\ answer' = <<c, "deleted", Cardinality({k \in ks : items[k] # Absent})>>
        /\ UNCHANGED <<now, client>>
    BY <1>2 DEF Delete
  <2>2. \A k \in ks : k \in Key /\ Writer(k) = {} /\ Store[k] = items[k]
    BY <1>0, <2>1, StoreFacts, IdleStore DEF StoreAgrees
  <2>3. \A j \in Key : Store'[j] = IF j \in ks THEN Absent ELSE Store[j]
    BY <1>0, <2>1, <2>2, SameWriters
  <2>4. Store' = [k \in Key |-> IF k \in ks THEN Absent ELSE Store[k]]
    <3>1. Store' = [j \in Key |-> Store'[j]]
      BY DEF Store
    <3> QED
      BY <2>3, <3>1
  <2>5. {k \in ks : items[k] # Absent} = {k \in ks : Store[k] # Absent}
    BY <2>2
  <2>6. \A S : Cardinality(S) = Atomic!Cardinality(S)
    BY DEF Cardinality, Atomic!Cardinality
  <2>7. Atomic!Delete(c, ks)
    BY <2>1, <2>4, <2>5, <2>6 DEF Atomic!Delete
  <2> QED
    BY <2>1, <2>7, <1>a DEF Atomic!Command
<1>3. ASSUME NEW c \in Client, Dump(c) PROVE Atomic!Next
  <2>1. UNCHANGED <<items, now, client>>
    BY <1>3 DEF Dump
  <2>2. Store' = Store
    BY <1>0, <2>1, SameWriters, StoreSame
  <2>3. \A j \in Key : \/ Store[j] = items[j]
                       \/ isExpired(Store[j]) /\ items[j] = Absent
    <3> SUFFICES ASSUME NEW j \in Key, Store[j] # items[j]
                 PROVE  isExpired(Store[j]) /\ items[j] = Absent
      OBVIOUS
    <3>1. PICK w \in Writer(j) : Store[j] = read[w]
      BY <1>0, StoreFacts DEF StoreAgrees
    <3>2. w \in Client /\ pc[w] = "write" /\ call[w].key = j
      BY <3>1 DEF Writer
    <3> QED
      BY <1>0, <3>1, <3>2 DEF Current
  <2>4. \A j \in Key : (items[j] # Absent /\ ~isExpired(items[j])) <=> Atomic!Live(j)
    BY <2>3, <1>x DEF Atomic!Live
  <2>5. \A j \in Key : Atomic!Live(j) => Store[j] = items[j]
    BY <2>3, <1>x DEF Atomic!Live
  <2>6. [k \in {j \in Key : items[j] # Absent /\ ~isExpired(items[j])} |-> items[k]]
          = [k \in {j \in Key : Atomic!Live(j)} |-> Store[k]]
    <3>1. {j \in Key : items[j] # Absent /\ ~isExpired(items[j])}
            = {j \in Key : Atomic!Live(j)}
      BY <2>4
    <3> QED
      BY <3>1, <2>5
  <2>7. Atomic!Dump(c)
    BY <1>3, <2>2, <2>6 DEF Dump, Atomic!Dump
  <2> QED
    BY <2>1, <2>7, <1>a DEF Atomic!Command
<1>4. ASSUME NEW c \in Client, NEW k \in Uses[c], Get(c, k)
      PROVE  [Atomic!Next]_<<Store, now, answer>>
  <2>1. /\ Store' = Store /\ now' = now
        /\ answer' = answer \/ (Store[k] = Absent /\ answer' = <<c, "nil">>)
    BY <1>0, <1>4, ReadStep DEF Get
  <2>2. Store[k] = Absent /\ answer' = <<c, "nil">> => Atomic!Get(c, k)
    BY <2>1 DEF Atomic!Get, Atomic!Live
  <2> QED
    BY <2>1, <2>2, <1>a DEF Atomic!Command
<1>5. ASSUME NEW c \in Client, NEW k \in Uses[c], TTL(c, k)
      PROVE  [Atomic!Next]_<<Store, now, answer>>
  <2>1. /\ Store' = Store /\ now' = now
        /\ answer' = answer \/ (Store[k] = Absent /\ answer' = <<c, "ttl", -2>>)
    BY <1>0, <1>5, ReadStep DEF TTL
  <2>2. Store[k] = Absent /\ answer' = <<c, "ttl", -2>> => Atomic!TTL(c, k)
    BY <2>1 DEF Atomic!TTL, Atomic!Live
  <2> QED
    BY <2>1, <2>2, <1>a DEF Atomic!Command
<1>6. ASSUME NEW c \in Client, NEW k \in Uses[c], NEW ttl \in Ttls, Expire(c, k, ttl)
      PROVE  [Atomic!Next]_<<Store, now, answer>>
  <2>1. /\ Store' = Store /\ now' = now
        /\ answer' = answer \/ (Store[k] = Absent /\ answer' = <<c, "redated", FALSE>>)
    BY <1>0, <1>6, ReadStep DEF Expire
  <2>2. Store[k] = Absent /\ answer' = <<c, "redated", FALSE>>
          => Atomic!Expire(c, k, ttl)
    BY <2>1 DEF Atomic!Expire, Atomic!Redate
  <2> QED
    BY <2>1, <2>2, <1>a DEF Atomic!Command
<1>7. ASSUME NEW c \in Client, NEW k \in Uses[c], NEW at \in 1 .. MaxTime,
             ExpireAt(c, k, at)
      PROVE  [Atomic!Next]_<<Store, now, answer>>
  <2>1. /\ Store' = Store /\ now' = now
        /\ answer' = answer \/ (Store[k] = Absent /\ answer' = <<c, "redated", FALSE>>)
    BY <1>0, <1>7, ReadStep DEF ExpireAt
  <2>2. Store[k] = Absent /\ answer' = <<c, "redated", FALSE>>
          => Atomic!ExpireAt(c, k, at)
    BY <2>1 DEF Atomic!ExpireAt, Atomic!Redate
  <2> QED
    BY <2>1, <2>2, <1>a DEF Atomic!Command
(* The second halves: k is the key of the call.                            *)
<1>8. ASSUME NEW c \in Client, CheckLive(c) PROVE Atomic!Next
  <2> DEFINE k == call[c].key
  <2>1. /\ k \in Uses[c] /\ k \in Key /\ pc[c] = "check" /\ ~isExpired(read[c])
        /\ read[c] \in Item /\ UNCHANGED <<items, now>>
    BY <1>0, <1>8, CallKey DEF CheckLive, Calling
  <2> HIDE DEF k
  <2>2. items[k] = read[c] /\ Store[k] = read[c]
    <3>1. items[k] = read[c]
      BY <1>0, <2>1 DEF Current, k
    <3> QED
      BY <1>0, <2>1, <3>1, IdleStore
  <2>3. PICK r : Returns(c, r)
    BY <1>8 DEF CheckLive
  <2>4. Store' = [Store EXCEPT ![k] = items'[k]]
    BY <1>0, <2>1, <2>3, ReturnStep DEF k
  <2>5. Store' = Store
    BY <2>1, <2>2, <2>4 DEF Store
  <2>6. Atomic!Live(k)
    BY <2>1, <2>2, <1>x, ItemFacts DEF Atomic!Live
  <2>7. \/ answer' = <<c, "value", read[c].value>>
        \/ read[c].exp = NoTtl /\ answer' = <<c, "ttl", -1>>
        \/ read[c].exp # NoTtl /\ answer' = <<c, "ttl", read[c].exp - now>>
    BY <1>8 DEF CheckLive, Returns
  <2>8. Atomic!Get(c, k) \/ Atomic!TTL(c, k)
    BY <2>2, <2>5, <2>6, <2>7 DEF Atomic!Get, Atomic!TTL
  <2> QED
    BY <2>1, <2>8, <1>a DEF Atomic!Command
<1>9. ASSUME NEW c \in Client, CheckExpired(c)
      PROVE  UNCHANGED <<Store, now, answer>>
  <2>1. /\ pc' = [pc EXCEPT ![c] = "passive"] /\ pc[c] = "check"
        /\ UNCHANGED <<items, now, call, read, answer>>
    BY <1>9 DEF CheckExpired
  <2>2. \A j \in Key : Writer(j)' = Writer(j)
    <3>1. \A d \in Client : (pc'[d] = "write") <=> (pc[d] = "write")
      BY <1>0, <2>1 DEF TypeOK, ClientsOK
    <3> QED
      BY <2>1, <3>1 DEF Writer
  <2>3. Store' = Store
    <3>1. ASSUME NEW j \in Key PROVE Store'[j] = Store[j]
      <4>1. CASE Writer(j) = {}
        BY <1>0, <2>1, <2>2, <4>1, StoreFacts, StoreFactsNext DEF StoreAgrees
      <4>2. CASE Writer(j) # {}
        <5>1. PICK d \in Writer(j) : TRUE
          BY <4>2
        <5> QED
          BY <1>0, <2>1, <2>2, <5>1, StoreFacts, StoreFactsNext DEF StoreAgrees
      <4> QED
        BY <4>1, <4>2
    <3> QED
      BY <3>1, StoreSame
  <2> QED
    BY <2>1, <2>3
<1>10. ASSUME NEW c \in Client, passiveExpire(c) PROVE Atomic!Next
  <2> DEFINE k == call[c].key
  <2>1. /\ k \in Uses[c] /\ k \in Key /\ pc[c] = "passive" /\ now' = now
        /\ items' = [items EXCEPT ![k] = Absent]
    BY <1>0, <1>10, CallKey DEF passiveExpire
  <2>2. items[k] = Absent \/ isExpired(items[k])
    BY <1>0, <2>1 DEF Targets
  <2> HIDE DEF k
  <2>3. PICK r : Returns(c, r)
    BY <1>10 DEF passiveExpire
  <2>4. Store' = [Store EXCEPT ![k] = Absent]
    <3>1. \A j \in Key \ {k} : items'[j] = items[j]
      BY <1>0, <2>1
    <3>2. Store' = [Store EXCEPT ![k] = items'[k]]
      BY <1>0, <2>1, <2>3, <3>1, ReturnStep DEF k
    <3> QED
      BY <1>0, <2>1, <3>2
  <2>5. Store[k] = items[k]
    BY <1>0, <2>1, IdleStore
  <2>6. ~Atomic!Live(k)
    BY <2>2, <2>5, <1>x DEF Atomic!Live
  <2>7. Store' = Store \/ (Atomic!Expired(Store[k]) /\ Store' = [Store EXCEPT ![k] = Absent])
    <3>1. CASE Store[k] = Absent
      BY <2>4, <3>1 DEF Store
    <3>2. CASE isExpired(Store[k])
      BY <2>4, <3>2, <1>x
    <3> QED
      BY <2>2, <2>5, <3>1, <3>2
  <2>8. answer' = <<c, "nil">> \/ answer' = <<c, "ttl", -2>>
    BY <1>10 DEF passiveExpire, Returns
  <2>9. Atomic!Get(c, k) \/ Atomic!TTL(c, k)
    BY <2>6, <2>7, <2>8 DEF Atomic!Get, Atomic!TTL
  <2> QED
    BY <2>1, <2>9, <1>a DEF Atomic!Command
<1>11. ASSUME NEW c \in Client, WriteBack(c) PROVE Atomic!Next
  <2> DEFINE k == call[c].key
             x == IF Past(c) THEN Absent ELSE [read[c] EXCEPT !.exp = Deadline(c)]
  <2>1. /\ k \in Uses[c] /\ k \in Key /\ pc[c] = "write" /\ now' = now
        /\ items' = [items EXCEPT ![k] = x] /\ read[c] \in Item
        /\ Returns(c, <<c, "redated", TRUE>>) /\ Calling(c)
    BY <1>0, <1>11, CallKey DEF WriteBack, Calling
  <2>2. Store[k] = read[c] /\ Store[k] # Absent
    BY <1>0, <2>1, WriterStore, ItemFacts
  <2> HIDE DEF k, x
  <2>3. Store' = [Store EXCEPT ![k] = x]
    <3>1. \A j \in Key \ {k} : items'[j] = items[j]
      BY <1>0, <2>1
    <3>2. Store' = [Store EXCEPT ![k] = items'[k]]
      BY <1>0, <2>1, <3>1, ReturnStep DEF k
    <3> QED
      BY <1>0, <2>1, <3>2
  <2>4. answer' = <<c, "redated", TRUE>>
    BY <2>1 DEF Returns
  <2>5. ASSUME NEW e, NEW dead, dead = Past(c), e = Deadline(c)
        PROVE  Atomic!Redate(c, k, e, dead)
    <3>1. x = IF dead THEN Absent ELSE [Store[k] EXCEPT !.exp = e]
      BY <2>2, <2>5 DEF x
    <3>2. Store' = [Store EXCEPT ![k] = IF dead THEN Absent
                                        ELSE [Store[k] EXCEPT !.exp = e]]
      BY <2>3, <3>1
    <3> QED
      BY <2>2, <2>4, <3>2 DEF Atomic!Redate
  <2>6. CASE call[c].op = "expire"
    <3>1. Past(c) = (call[c].arg <= 0) /\ Deadline(c) = now + call[c].arg
      BY <2>6 DEF Past, Deadline
    <3>2. Atomic!Expire(c, k, call[c].arg) /\ call[c].arg \in Ttls
      BY <2>1, <2>5, <2>6, <3>1 DEF Atomic!Expire, Calling
    <3> QED
      BY <2>1, <3>2, <1>a DEF Atomic!Command
  <2>7. CASE call[c].op = "expireat"
    <3>1. Past(c) = (call[c].arg < now) /\ Deadline(c) = call[c].arg
      BY <2>7 DEF Past, Deadline
    <3>2. Atomic!ExpireAt(c, k, call[c].arg) /\ call[c].arg \in 1 .. MaxTime
      BY <2>1, <2>5, <2>7, <3>1 DEF Atomic!ExpireAt, Calling
    <3> QED
      BY <2>1, <3>2, <1>a DEF Atomic!Command
  <2> QED
    BY <2>1, <2>6, <2>7 DEF Calling
<1>12. CASE Sweep
  <2>1. /\ UNCHANGED <<now, client, answer>>
        /\ \/ UNCHANGED items
           \/ \E k \in Key : isExpired(items[k]) /\ items' = [items EXCEPT ![k] = Absent]
    BY <1>0, <1>12, SweepStep
  <2>2. CASE UNCHANGED items
    <3>1. Store' = Store
      BY <1>0, <2>1, <2>2, SameWriters, StoreSame
    <3> QED
      BY <2>1, <3>1
  <2>3. ASSUME NEW k \in Key, isExpired(items[k]), items' = [items EXCEPT ![k] = Absent]
        PROVE  [Atomic!Next]_<<Store, now, answer>>
    <3>1. \A j \in Key \ {k} : Store'[j] = Store[j]
      BY <1>0, <2>1, <2>3, SameWriters
    <3>2. CASE Writer(k) # {}
      <4>1. Store' = Store
        BY <1>0, <2>1, <3>1, <3>2, SameWriters, StoreSame
      <4> QED
        BY <2>1, <4>1
    <3>3. CASE Writer(k) = {}
      <4>1. Store'[k] = Absent /\ Store[k] = items[k]
        BY <1>0, <2>1, <2>3, <3>3, SameWriters
      <4>2. Store' = [Store EXCEPT ![k] = Absent]
        BY <3>1, <4>1, StoreExcept
      <4>3. Atomic!Evict(k)
        BY <2>1, <2>3, <4>1, <4>2, <1>x DEF Atomic!Evict
      <4> QED
        BY <2>1, <4>3 DEF Atomic!Next
    <3> QED
      BY <3>2, <3>3
  <2> QED
    BY <2>1, <2>2, <2>3
<1>13. CASE Tick
  <2>1. Store' = Store
    BY <1>0, <1>13, SameWriters, StoreSame DEF Tick
  <2>2. Atomic!Tick
    BY <1>13, <2>1 DEF Tick, Atomic!Tick
  <2> QED
    BY <2>2 DEF Atomic!Next
<1>14. CASE UNCHANGED vars
  <2>1. Store' = Store
    BY <1>0, <1>14, SameWriters, StoreSame DEF vars, client
  <2> QED
    BY <1>14, <2>1 DEF vars
<1> QED
  BY <1>1, <1>2, <1>3, <1>4, <1>5, <1>6, <1>7, <1>8, <1>9, <1>10, <1>11, <1>12, <1>13, <1>14
     DEF Next, Command, Continue

(* With a key per client, every command of the dictionary is atomic, with  *)
(* the clock and the expiration loop running (dict.go:39-132, 143-196).    *)
THEOREM DictImplementsMap ==
  ASSUME ExclusiveKeys
  PROVE  Spec => CommandsAtomic
<1>1. Init => Atomic!Init
  <2> SUFFICES ASSUME Init PROVE Atomic!Init
    OBVIOUS
  <2>1. \A k \in Key : Writer(k) = {}
    BY DEF Init, Writer
  <2>2. Store = [k \in Key |-> items[k]]
    BY <2>1 DEF Store
  <2>3. \A k \in Key : items[k] = Absent
    BY DEF Init
  <2>4. Store = [k \in Key |-> Absent]
    BY <2>2, <2>3
  <2> QED
    BY <2>4 DEF Init, Atomic!Init
<1>2. IInv /\ IInv' /\ [Next]_vars => [Atomic!Next]_<<Store, now, answer>>
  BY StepRefines DEF IInv
<1> QED
  BY <1>1, <1>2, SpecIInv, PTL DEF Spec, CommandsAtomic, Atomic!Spec
=============================================================================

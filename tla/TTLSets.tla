------------------------------- MODULE TTLSets -------------------------------
(***************************************************************************)
(* What a store of sets with deadlines promises: every command takes       *)
(* effect at one instant, a set past its deadline reads as if it were      *)
(* gone, and it may be evicted at any time.  Until then SADD, SREM and     *)
(* SEXPIRE still find it: that is what the code does.  The result of a     *)
(* read is fixed at that instant and may be given later.                   *)
(***************************************************************************)
EXTENDS Integers, Sequences, FiniteSets

CONSTANTS Client, Key, Absent, NoTtl, NoResult, Uses, Names, Ttls, MaxTime

VARIABLES
  store,  \* store[k]: [members, exp], or Absent
  now,    \* the clock
  due,    \* due[c]: a result that is fixed but not given, or NoResult
  answer  \* the last answer given: <<client, result>>

Expired(set) == set # Absent /\ set.exp # NoTtl /\ now > set.exp
Live(k)      == store[k] # Absent /\ ~Expired(store[k])
Members(k)   == IF store[k] = Absent THEN {} ELSE store[k].members

Number(n) == <<"n", n>>

Answers(c, result) == answer' = <<c>> \o result /\ UNCHANGED due

Sadd(c, k, ms) ==
  /\ store' = [store EXCEPT ![k] =
       [members |-> Members(k) \cup ms,
        exp     |-> IF @ = Absent THEN NoTtl ELSE @.exp]]
  /\ Answers(c, Number(Cardinality(ms \ Members(k))))

Srem(c, k, ms) ==
  /\ LET left == Members(k) \ ms
     IN  store' = [store EXCEPT ![k] = IF left = {} THEN Absent
                                       ELSE [store[k] EXCEPT !.members = left]]
  /\ Answers(c, Number(Cardinality(ms \cap Members(k))))

(* A read of a key that is gone may evict it.                              *)
Reads(c, k, result) ==
  /\ Answers(c, result) \/ (due' = [due EXCEPT ![c] = result] /\ UNCHANGED answer)
  /\ \/ UNCHANGED store
     \/ Expired(store[k]) /\ store' = [store EXCEPT ![k] = Absent]

Smembers(c, k) == Reads(c, k, IF Live(k) THEN <<"members", Members(k)>> ELSE <<"nil">>)
Sismember(c, k, m) == Reads(c, k, Number(IF Live(k) /\ m \in Members(k) THEN 1 ELSE 0))
Scard(c, k) == Reads(c, k, Number(IF Live(k) THEN Cardinality(Members(k)) ELSE 0))
TTL(c, k) == Reads(c, k, Number(IF ~Live(k) THEN -2
                                ELSE IF store[k].exp = NoTtl THEN -1
                                ELSE store[k].exp - now))

Expire(c, k, ttl) ==
  /\ store' = [store EXCEPT ![k] = IF @ = Absent \/ ttl <= 0 THEN Absent
                                   ELSE [@ EXCEPT !.exp = now + ttl]]
  /\ Answers(c, Number(IF store[k] = Absent THEN 0 ELSE 1))

Dump(c) ==
  /\ Answers(c, <<"dump", [k \in {j \in Key : Live(j)} |-> store[k]]>>)
  /\ UNCHANGED store

Command(c) ==
  /\ due[c] = NoResult
  /\ \/ \E k \in Uses[c] :
          \/ \E ms \in Names[c] : Sadd(c, k, ms) \/ Srem(c, k, ms)
          \/ Smembers(c, k)
          \/ \E m \in UNION Names[c] : Sismember(c, k, m)
          \/ Scard(c, k)
          \/ TTL(c, k)
          \/ \E ttl \in Ttls : Expire(c, k, ttl)
     \/ Dump(c)

Give(c) ==
  /\ due[c] # NoResult
  /\ answer' = <<c>> \o due[c]
  /\ due' = [due EXCEPT ![c] = NoResult]
  /\ UNCHANGED store

Evict(k) ==
  /\ Expired(store[k])
  /\ store' = [store EXCEPT ![k] = Absent]
  /\ UNCHANGED <<due, answer>>

Tick == now < MaxTime /\ now' = now + 1 /\ UNCHANGED <<store, due, answer>>

Init ==
  /\ store  = [k \in Key |-> Absent]
  /\ now    = 1
  /\ due    = [c \in Client |-> NoResult]
  /\ answer = << >>

Next ==
  \/ (\E c \in Client : Command(c) \/ Give(c)) /\ UNCHANGED now
  \/ (\E k \in Key : Evict(k)) /\ UNCHANGED now
  \/ Tick

Spec == Init /\ [][Next]_<<store, now, due, answer>>
=============================================================================

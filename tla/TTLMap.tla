------------------------------- MODULE TTLMap -------------------------------
(***************************************************************************)
(* What a dictionary with expiring keys promises: every command takes      *)
(* effect at one instant, a key past its deadline answers as if it were    *)
(* gone, and it may be evicted at any time.  EXPIRE finds a key until it   *)
(* is evicted, its deadline passed or not: that is what the code does.     *)
(***************************************************************************)
EXTENDS Integers, FiniteSets

CONSTANTS Client, Key, Value, Absent, NoTtl, Uses, Ttls, MaxTime

VARIABLES
  store,  \* store[k]: the item of key k, or Absent
  now,    \* the clock
  answer  \* the last answer given: <<client, result>>

Expired(item) == item # Absent /\ item.exp # NoTtl /\ now > item.exp
Live(k)       == store[k] # Absent /\ ~Expired(store[k])

Set(c, k, v, ttl) ==
  /\ store' = [store EXCEPT ![k] =
                 [value |-> v, exp |-> IF ttl > 0 THEN now + ttl ELSE NoTtl]]
  /\ answer' = <<c, "ok">>

Get(c, k) ==
  /\ \/ Live(k)  /\ answer' = <<c, "value", store[k].value>>
     \/ ~Live(k) /\ answer' = <<c, "nil">>
  /\ \/ UNCHANGED store
     \/ Expired(store[k]) /\ store' = [store EXCEPT ![k] = Absent]

TTL(c, k) ==
  /\ \/ Live(k) /\ store[k].exp = NoTtl /\ answer' = <<c, "ttl", -1>>
     \/ Live(k) /\ store[k].exp # NoTtl
        /\ answer' = <<c, "ttl", store[k].exp - now>>
     \/ ~Live(k) /\ answer' = <<c, "ttl", -2>>
  /\ \/ UNCHANGED store
     \/ Expired(store[k]) /\ store' = [store EXCEPT ![k] = Absent]

Delete(c, ks) ==
  /\ store' = [k \in Key |-> IF k \in ks THEN Absent ELSE store[k]]
  /\ answer' = <<c, "deleted", Cardinality({k \in ks : store[k] # Absent})>>

(* dead: the new deadline has already passed, so the key goes at once.     *)
Redate(c, k, exp, dead) ==
  \/ /\ store[k] = Absent
     /\ answer' = <<c, "redated", FALSE>>
     /\ UNCHANGED store
  \/ /\ store[k] # Absent
     /\ store' = [store EXCEPT ![k] = IF dead THEN Absent ELSE [@ EXCEPT !.exp = exp]]
     /\ answer' = <<c, "redated", TRUE>>

Expire(c, k, ttl)  == Redate(c, k, now + ttl, ttl <= 0)
ExpireAt(c, k, at) == Redate(c, k, at, at < now)

Dump(c) ==
  /\ answer' = <<c, "dump", [k \in {j \in Key : Live(j)} |-> store[k]]>>
  /\ UNCHANGED store

Evict(k) ==
  /\ Expired(store[k])
  /\ store' = [store EXCEPT ![k] = Absent]
  /\ UNCHANGED answer

Command(c) ==
  \/ \E k \in Uses[c] :
       \/ \E v \in Value, ttl \in Ttls : Set(c, k, v, ttl)
       \/ Get(c, k)
       \/ TTL(c, k)
       \/ \E ttl \in Ttls : Expire(c, k, ttl)
       \/ \E at \in 1 .. MaxTime : ExpireAt(c, k, at)
  \/ \E ks \in SUBSET Uses[c] : Delete(c, ks)
  \/ Dump(c)

Tick == now < MaxTime /\ now' = now + 1 /\ UNCHANGED <<store, answer>>

Init == store = [k \in Key |-> Absent] /\ now = 1 /\ answer = << >>

Next ==
  \/ (\E c \in Client : Command(c)) /\ UNCHANGED now
  \/ (\E k \in Key : Evict(k)) /\ UNCHANGED now
  \/ Tick

Spec == Init /\ [][Next]_<<store, now, answer>>
=============================================================================

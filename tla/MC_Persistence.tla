--------------------------- MODULE MC_Persistence ---------------------------
(* Workloads for Persistence: which commands each client may send.         *)
EXTENDS Persistence, TLC

CONSTANTS c1, c2, k1, f1, f2

MCValue == 1 .. 2

Singletons == {{v} : v \in Value}

DictCommands(k) ==
  {SET(k, 1, 0), SET(k, 2, 1), DEL({k})} \cup {EXPIRE(k, t) : t \in {0, 2}}
SetCommands(k) ==
  {SADD(k, m) : m \in Singletons} \cup {SREM(k, m) : m \in Singletons \cup {Value}}
PushCommands(k) == {LPUSH(k, <<1, 2>>), RPUSH(k, <<2>>)}
ListCommands(k) == PushCommands(k) \cup {LPOP(k, 1), LPOP(k, 2), RPOP(k, 1), SORT(k, TRUE)}
HashCommands(k) ==
  {HSET(k, f1 :> v) : v \in Value} \cup {HSET(k, f1 :> 1 @@ f2 :> 1)}
    \cup {HDEL(k, {f}) : f \in {f1, f2}}

Alone(cmds) == [c \in {c1, c2} |-> IF c = c1 THEN cmds ELSE {}]

(* Each client writes stores of its own, so no key is written by both, up  *)
(* to the workloads of the configurations that end in a violation.         *)
MCWorkload ==
  [dict    |-> [c \in {c1, c2} |->
     IF c = c1 THEN DictCommands(k1) ELSE {SADD(k1, {1}), SREM(k1, {1})}],
   others  |-> [c \in {c1, c2} |->
     IF c = c1 THEN ListCommands(k1) ELSE SetCommands(k1) \cup HashCommands(k1)],
   rewrite |-> [c \in {c1, c2} |->
     IF c = c1 THEN {SET(k1, 1, 1), EXPIRE(k1, 2), LPUSH(k1, <<1, 2>>)}
               ELSE {SADD(k1, {1, 2}), SREM(k1, {1}), HSET(k1, f1 :> 1)}],
   both    |-> [c \in {c1, c2} |->
     IF c = c1 THEN {SET(k1, 1, 1), DEL({k1}), EXPIRE(k1, 2)}
               ELSE {SADD(k1, {1, 2}), SREM(k1, {1})}],
   save    |-> [c \in {c1, c2} |->
     IF c = c1 THEN {SET(k1, 1, 1), SADD(k1, {1, 2}), SEXPIRE(k1, 1)}
               ELSE {LPUSH(k1, <<1, 2>>), SORT(k1, FALSE), HSET(k1, f1 :> 1)}],
   saves   |-> [c \in {c1, c2} |->
     IF c = c1 THEN {SET(k1, 1, 1), SADD(k1, {1})} ELSE {RPUSH(k1, <<2>>)}],
   shared  |-> [c \in {c1, c2} |->
     IF c = c1 THEN {SET(k1, 1, 0)} ELSE {SET(k1, 2, 0), DEL({k1})}],
   set     |-> [c \in {c1, c2} |->
     IF c = c1 THEN {SET(k1, 1, 0)} ELSE {SADD(k1, {1})}],
   pexpireat |-> Alone({SET(k1, 1, 0), PEXPIREAT(k1, 2)}),
   extend  |-> Alone({SET(k1, 1, 1), EXPIRE(k1, 2)}),
   ttl     |-> Alone({SET(k1, 1, 1)}),
   push    |-> Alone(PushCommands(k1)),
   pop     |-> Alone({RPUSH(k1, <<2>>), LPOP(k1, 1)}),
   hset    |-> Alone({HSET(k1, f1 :> v) : v \in Value}),
   sexpire |-> Alone({SADD(k1, {1}), SEXPIRE(k1, 1)})]

Config(w, aofOn, rdbOn, jobs, time, log, list, states) ==
  [workload |-> w, aof |-> aofOn, rdb |-> rdbOn, jobs |-> jobs,
   maxTime |-> time,
   maxLog |-> log, maxList |-> list, maxSeen |-> states]

MCSetups == {Config("dict", TRUE, FALSE, {}, 4, 4, 1, 1),
             Config("others", TRUE, FALSE, {}, 1, 4, 3, 1),
             Config("rewrite", TRUE, FALSE, {"rewrite"}, 2, 3, 2, 1),
             Config("both", TRUE, TRUE, {"save1"}, 2, 3, 1, 2),
             Config("save", FALSE, TRUE, {"save1"}, 2, 1, 1, 2),
             Config("saves", FALSE, TRUE, Saves, 1, 1, 1, 3)}

(* Configurations that end in a violation.                                 *)
OneLog(w)    == {Config(w, TRUE, FALSE, {}, 2, 3, 2, 1)}
MCShared     == OneLog("shared")
MCPexpireat  == OneLog("pexpireat")
MCExtend     == OneLog("extend")
MCTtl        == OneLog("ttl")
MCPop        == OneLog("pop")
MCHset       == OneLog("hset")
MCSexpire    == OneLog("sexpire")
MCDetached   == {Config("set", TRUE, FALSE, {"rewrite"}, 2, 3, 2, 1)}
MCTwice      == {Config("push", TRUE, TRUE, {"save1"}, 2, 3, 2, 3)}
MCSnapshot   == {Config("save", FALSE, TRUE, {"save1"}, 2, 1, 2, 3)}
MCFlag       == {Config("saves", FALSE, TRUE, Saves, 2, 1, 1, 3)}
=============================================================================

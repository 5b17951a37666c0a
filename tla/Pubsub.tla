------------------------------- MODULE Pubsub -------------------------------
(***************************************************************************)
(* SUBSCRIBE, UNSUBSCRIBE and PUBLISH, with the connections that wait for  *)
(* messages in pubsubMode.  The registry has a lock; subName and subChan   *)
(* are one pair of variables for the whole process and have none, so the   *)
(* handlers' single statements interleave.  A connection subscribes at     *)
(* most once, for it never reads another command: the Go channel that its  *)
(* SUBSCRIBE makes is named after it.  Topics are names of one length, so  *)
(* that a read of subName during a write gives the old or the new one.     *)
(* A client may go away whenever it likes: commands of it that have come   *)
(* are still run, and then a read or a write fails, as they also do when   *)
(* their deadline passes.  So whether a client is there makes no state.    *)
(***************************************************************************)
EXTENDS Integers, Sequences, SequencesExt, FiniteSets

CONSTANTS
  Conn, Topic,
  None,      \* the nil channel, the empty name
  May,       \* May[c]: the commands that the client of c may send
  Wants,     \* Wants[c]: the topic it subscribes to
  MaxSent,   \* bound: MaxSent[c]: how many messages c publishes
  Buffer     \* the capacity of a Go channel: 100 in Subscribe

Commands == {"SUBSCRIBE", "BARE SUBSCRIBE", "UNSUBSCRIBE", "PUBLISH"}

ASSUME PubsubAssumption ==
  /\ May \in [Conn -> SUBSET Commands]
  /\ Wants \in [Conn -> Topic]
  /\ MaxSent \in [Conn -> Nat] /\ Buffer \in Nat \ {0}
  /\ None \notin Conn \cup Topic

VARIABLES
  channels,  \* channels[t]: the Go channels registered, oldest first
  queue,     \* queue[g]: the messages in Go channel g
  closed,    \* the Go channels that have been closed
  subName, subChan,  \* the variables of pubsub_command.go
  pc,        \* pc[c]: the next statement of c's handler
  name,      \* name[c]: what the handler of c has read from subName
  listen,    \* listen[c]: the Go channel that c takes messages from
  pub,       \* pub[c]: the PUBLISH of c: [topic, n, rest], rest to send to
  sent,      \* sent[c]: how many messages c has published
  got,       \* history: got[c]: the messages written to c's client
  alone      \* history: c's SUBSCRIBE ran with no other on those variables

shared   == <<subName, subChan>>
registry == <<channels, closed>>
vars == <<channels, queue, closed, subName, subChan, pc, name, listen, pub, sent,
          got, alone>>

Name  == Topic \cup {None}
NoPub == [topic |-> None, n |-> 0, rest |-> << >>]

Init ==
  /\ channels = [t \in Name |-> << >>]
  /\ queue    = [g \in Conn |-> << >>]
  /\ closed   = {}
  /\ subName  = None /\ subChan = None
  /\ pc       = [c \in Conn |-> "ready"]
  /\ name     = [c \in Conn |-> None]
  /\ listen   = [c \in Conn |-> None]
  /\ pub      = [c \in Conn |-> NoPub]
  /\ sent     = [c \in Conn |-> 0]
  /\ got      = [c \in Conn |-> << >>]
  /\ alone    = [c \in Conn |-> FALSE]

Goes(c, from, to) == pc[c] = from /\ pc' = [pc EXCEPT ![c] = to]
Reads(c, cmd)     == cmd \in May[c]

(* PUBLISH holds the registry's read lock until it has been round.         *)
Locked == \E c \in Conn : pc[c] = "publish"

(* The handlers between their first and last use of subName and subChan.   *)
Busy(c) == pc[c] \in {"named", "made", "assigned", "replied", "leaving", "left", "wiped"}

Enters(c, own) ==
  alone' = [d \in Conn |-> IF d = c THEN own ELSE alone[d] /\ ~Busy(d)]

-----------------------------------------------------------------------------
(* cmdSubscribe, statement by statement, and what pubsubMode begins with.  *)
SubscribeName(c) ==
  /\ Reads(c, "SUBSCRIBE") /\ Goes(c, "ready", "named")
  /\ subName' = Wants[c]
  /\ Enters(c, \A d \in Conn \ {c} : ~Busy(d))
  /\ UNCHANGED <<registry, queue, subChan, name, listen, pub, sent, got>>

Subscribe(c) ==
  /\ ~Locked /\ Goes(c, "named", "made")
  /\ channels' = [channels EXCEPT ![subName] = Append(@, c)]
  /\ UNCHANGED <<queue, closed, shared, name, listen, pub, sent, got, alone>>

SubscribeAssign(c) ==
  /\ Goes(c, "made", "assigned")
  /\ subChan' = c
  /\ UNCHANGED <<registry, queue, subName, name, listen, pub, sent, got, alone>>

SubscribeReply(c) ==
  /\ Goes(c, "assigned", "replied")
  /\ name' = [name EXCEPT ![c] = subName]
  /\ UNCHANGED <<registry, queue, shared, listen, pub, sent, got, alone>>

(* An error reply to SUBSCRIBE without its argument: pubsubMode all the    *)
(* same.                                                                   *)
SubscribeBare(c) ==
  /\ Reads(c, "BARE SUBSCRIBE") /\ Goes(c, "ready", "replied")
  /\ Enters(c, FALSE)
  /\ UNCHANGED <<registry, queue, shared, name, listen, pub, sent, got>>

(* Mutant of Capture: a listener without a channel waits.                  *)
CaptureNil(c) ==
  /\ Goes(c, "replied", "listening")
  /\ listen' = [listen EXCEPT ![c] = subChan]
  /\ UNCHANGED <<registry, queue, shared, name, pub, sent, got, alone>>

(* The reply is written, or cannot be and the handler returns;             *)
(* GetSubChannel gives whatever subChan is by now.                         *)
Capture(c) ==
  /\ \/ Goes(c, "replied", IF subChan = None THEN "ended" ELSE "listening")
        /\ listen' = [listen EXCEPT ![c] = subChan]
     \/ Goes(c, "replied", "ended") /\ UNCHANGED listen
  /\ UNCHANGED <<registry, queue, shared, name, pub, sent, got, alone>>

(* cmdUnsubscribe; it ends the latest subscription, whoever made it.       *)
UnsubscribeCheck(c) ==
  /\ Reads(c, "UNSUBSCRIBE") /\ subChan # None
  /\ Goes(c, "ready", "leaving")
  /\ name' = [name EXCEPT ![c] = subName]
  /\ Enters(c, FALSE)
  /\ UNCHANGED <<registry, queue, shared, listen, pub, sent, got>>

(* The first place of channel g in the slice of topic t.                   *)
At(g, t, i) ==
  /\ i \in DOMAIN channels[t] /\ channels[t][i] = g
  /\ \A j \in 1 .. i - 1 : channels[t][j] # g

(* Mutant of Unsubscribe: without the lock that PUBLISH holds.             *)
UnsubscribeUnlocked(c) ==
  /\ Goes(c, "leaving", "left")
  /\ \/ \E i \in DOMAIN channels[name[c]] :
          /\ At(subChan, name[c], i)
          /\ channels' = [channels EXCEPT ![name[c]] = RemoveAt(@, i)]
          /\ closed' = closed \cup {subChan}
     \/ subChan \notin Range(channels[name[c]]) /\ UNCHANGED registry
  /\ UNCHANGED <<queue, shared, name, listen, pub, sent, got, alone>>

(* Mutant of Unsubscribe: the channel is taken out and not closed.         *)
UnsubscribeLeavesOpen(c) ==
  /\ ~Locked /\ Goes(c, "leaving", "left")
  /\ \/ \E i \in DOMAIN channels[name[c]] :
          /\ At(subChan, name[c], i)
          /\ channels' = [channels EXCEPT ![name[c]] = RemoveAt(@, i)]
     \/ subChan \notin Range(channels[name[c]]) /\ UNCHANGED channels
  /\ UNCHANGED <<queue, closed, shared, name, listen, pub, sent, got, alone>>

Unsubscribe(c) ==
  /\ ~Locked /\ Goes(c, "leaving", "left")
  /\ \/ \E i \in DOMAIN channels[name[c]] :
          /\ At(subChan, name[c], i)
          /\ channels' = [channels EXCEPT ![name[c]] = RemoveAt(@, i)]
          /\ closed' = closed \cup {subChan}
     \/ subChan \notin Range(channels[name[c]]) /\ UNCHANGED registry
  /\ UNCHANGED <<queue, shared, name, listen, pub, sent, got, alone>>

UnsubscribeWipeChan(c) ==
  /\ Goes(c, "left", "wiped")
  /\ subChan' = None
  /\ UNCHANGED <<registry, queue, subName, name, listen, pub, sent, got, alone>>

UnsubscribeWipeName(c) ==
  /\ Goes(c, "wiped", "ready")
  /\ subName' = None
  /\ name' = [name EXCEPT ![c] = None]
  /\ UNCHANGED <<registry, queue, subChan, listen, pub, sent, got, alone>>

-----------------------------------------------------------------------------
(* PUBLISH takes the read lock, with other PUBLISHes, and sends to one     *)
(* subscriber after the other; a full channel is passed over.              *)
Publish(c, t) ==
  /\ Reads(c, "PUBLISH") /\ sent[c] < MaxSent[c]
  /\ sent' = [sent EXCEPT ![c] = @ + 1]
  /\ IF channels[t] = << >> THEN pc[c] = "ready" /\ UNCHANGED <<pc, pub>>
     ELSE /\ Goes(c, "ready", "publish")
          /\ pub' = [pub EXCEPT ![c] = [topic |-> t, n |-> sent[c] + 1,
                                        rest |-> channels[t]]]
  /\ UNCHANGED <<registry, queue, shared, name, listen, got, alone>>

Message(c) == [from |-> c, n |-> pub[c].n, topic |-> pub[c].topic]

(* Mutant of Send: a goroutine per message sends it, in no order.          *)
SendByGoroutines(c) ==
  /\ pc[c] = "publish" /\ pub[c].rest # << >>
  /\ LET g == Head(pub[c].rest)
     IN  IF Len(queue[g]) < Buffer
         THEN \E i \in 1 .. Len(queue[g]) + 1 :
                queue' = [queue EXCEPT ![g] = InsertAt(@, i, Message(c))]
         ELSE UNCHANGED queue
  /\ pub' = [pub EXCEPT ![c] = [topic |-> @.topic, n |-> @.n, rest |-> Tail(@.rest)]]
  /\ UNCHANGED <<registry, shared, pc, name, listen, sent, got, alone>>

Send(c) ==
  /\ pc[c] = "publish" /\ pub[c].rest # << >>
  /\ LET g == Head(pub[c].rest)
     IN  queue' = IF Len(queue[g]) < Buffer
                  THEN [queue EXCEPT ![g] = Append(@, Message(c))] ELSE queue
  /\ pub' = [pub EXCEPT ![c] = [topic |-> @.topic, n |-> @.n, rest |-> Tail(@.rest)]]
  /\ UNCHANGED <<registry, shared, pc, name, listen, sent, got, alone>>

PublishEnd(c) ==
  /\ pub[c].rest = << >> /\ Goes(c, "publish", "ready")
  /\ pub' = [pub EXCEPT ![c] = NoPub]
  /\ UNCHANGED <<registry, queue, shared, name, listen, sent, got, alone>>

Id(m) == [from |-> m.from, n |-> m.n]

(* Mutant of Receive: it asks GetSubChannel again for every message.       *)
ReceiveAnew(c) ==
  /\ pc[c] = "listening" /\ subChan # None /\ queue[subChan] # << >>
  /\ queue' = [queue EXCEPT ![subChan] = Tail(@)]
  /\ \/ /\ got' = [got EXCEPT ![c] = Append(@, Id(Head(queue[subChan])))]
        /\ UNCHANGED pc
     \/ Goes(c, "listening", "ended") /\ UNCHANGED got
  /\ UNCHANGED <<registry, shared, name, listen, pub, sent, alone>>

(* pubsubMode: take a message and write it.  A write that fails, and that  *)
(* alone, ends the handler; nothing unsubscribes.                          *)
Receive(c) ==
  /\ pc[c] = "listening" /\ queue[listen[c]] # << >>
  /\ queue' = [queue EXCEPT ![listen[c]] = Tail(@)]
  /\ \/ /\ got' = [got EXCEPT ![c] = Append(@, Id(Head(queue[listen[c]])))]
        /\ UNCHANGED pc
     \/ Goes(c, "listening", "ended") /\ UNCHANGED got
  /\ UNCHANGED <<registry, shared, name, listen, pub, sent, alone>>

(* Mutant of ListenEnd: the loop goes on reading from the closed channel.  *)
ListenSpins(c) ==
  /\ listen[c] \in closed /\ queue[listen[c]] = << >>
  /\ Goes(c, "listening", "listening")
  /\ UNCHANGED <<registry, queue, shared, name, listen, pub, sent, got, alone>>

ListenEnd(c) ==
  /\ listen[c] \in closed /\ queue[listen[c]] = << >>
  /\ Goes(c, "listening", "ended")
  /\ UNCHANGED <<registry, queue, shared, name, listen, pub, sent, got, alone>>

(* The client has gone, or has sent nothing for too long.                  *)
ReadFails(c) ==
  /\ Goes(c, "ready", "ended")
  /\ UNCHANGED <<registry, queue, shared, name, listen, pub, sent, got, alone>>

Command(c) ==
  \/ SubscribeName(c) \/ SubscribeBare(c) \/ UnsubscribeCheck(c)
  \/ \E t \in Topic : Publish(c, t)

Continue(c) ==
  \/ Subscribe(c) \/ SubscribeAssign(c) \/ SubscribeReply(c) \/ Capture(c)
  \/ Unsubscribe(c) \/ UnsubscribeWipeChan(c) \/ UnsubscribeWipeName(c)
  \/ Send(c) \/ PublishEnd(c)
  \/ Receive(c) \/ ListenEnd(c) \/ ReadFails(c)

Next ==
  \/ \E c \in Conn : Command(c)
  \/ \E c \in Conn : Continue(c)

Spec == Init /\ [][Next]_vars

(* A goroutine that can go on goes on, reads and writes having deadlines;  *)
(* nothing is assumed of the clients.                                      *)
(* The registry's lock is fair to its writers: publishing is bounded here. *)
FairSpec == Spec /\ \A c \in Conn : WF_vars(Continue(c))

-----------------------------------------------------------------------------
(* Type invariant: shapes of the registry, channels and handlers.          *)
Sent == [from : Conn, n : Nat \ {0}, topic : Topic]

(* A PUBLISH has the rest of its topic's slice to go round.                *)
RoundOf(c) ==
  /\ pub[c].topic \in Topic /\ pub[c].n = sent[c] /\ pub[c].n > 0
  /\ LET subs == channels[pub[c].topic]
     IN  \E i \in 1 .. Len(subs) + 1 : pub[c].rest = SubSeq(subs, i, Len(subs))

TypeOK ==
  /\ channels \in [Name -> Seq(Conn)]
  /\ queue \in [Conn -> Seq(Sent)] /\ \A g \in Conn : Len(queue[g]) <= Buffer
  /\ closed \subseteq Conn
  /\ subName \in Name /\ subChan \in Conn \cup {None}
  /\ pc \in [Conn -> {"ready", "named", "made", "assigned", "replied", "listening",
                      "leaving", "left", "wiped", "publish", "ended"}]
  /\ name \in [Conn -> Name]
  /\ listen \in [Conn -> Conn \cup {None}]
  /\ \A c \in Conn : pc[c] = "listening" => listen[c] # None
  /\ \A c \in Conn : IF pc[c] = "publish" THEN RoundOf(c) ELSE pub[c] = NoPub
  /\ sent \in [Conn -> Nat] /\ \A c \in Conn : sent[c] <= MaxSent[c]
  /\ got \in [Conn -> Seq([from : Conn, n : Nat \ {0}])]
  /\ alone \in [Conn -> BOOLEAN]

(* No PUBLISH panics by sending on a closed channel and no UNSUBSCRIBE by  *)
(* closing one twice: what is registered, or still to be sent to, is open, *)
(* and registered once (pubsub.go:30-43, 64-70).                           *)
RegisteredOpen ==
  /\ \A t \in Name : Range(channels[t]) \cap closed = {} /\ IsInjective(channels[t])
  /\ \A c \in Conn : Range(pub[c].rest) \cap closed = {}
  /\ \A t, u \in Name : t # u => Range(channels[t]) \cap Range(channels[u]) = {}

(* A client gets the messages of each publisher in the order they were     *)
(* published and none twice, also where channels are shared or full        *)
(* (pubsub.go:45-74, server.go:301-308).                                   *)
PublisherOrder ==
  \A c \in Conn : \A i, j \in DOMAIN got[c] :
    i < j /\ got[c][i].from = got[c][j].from => got[c][i].n < got[c][j].n

(* A SUBSCRIBE during which no other SUBSCRIBE or UNSUBSCRIBE ran makes    *)
(* its connection listen to its own channel, registered under its topic    *)
(* until it is closed, with messages of that topic only, whatever the       *)
(* others do later (pubsub_command.go:28-42, server.go:290-308).           *)
OwnSubscription ==
  \A c \in Conn : pc[c] = "listening" /\ alone[c] =>
    /\ listen[c] = c /\ name[c] = Wants[c]
    /\ c \in closed \/ c \in Range(channels[Wants[c]])
    /\ \A i \in DOMAIN queue[c] : queue[c][i].topic = Wants[c]

Subscribers == {c \in Conn : May[c] \cap {"SUBSCRIBE", "BARE SUBSCRIBE"} # {}}
Listens(c)  == pc[c] = "listening"

(* The handler of an unsubscribed connection ends, after the messages that *)
(* were sent before (server.go:301-309).                                   *)
UnsubscribedEnds ==
  \A c \in Subscribers : Listens(c) /\ listen[c] \in closed ~> ~Listens(c)

(* What is in the channel of a connection that listens is taken out, by it *)
(* or by one that shares the channel, unless its handler ends              *)
(* (pubsub.go:64-70, server.go:301-308).                                   *)
QueueDrains ==
  \A c \in Subscribers :
    Listens(c) /\ queue[listen[c]] # << >> ~> ~(Listens(c) /\ queue[listen[c]] # << >>)

-----------------------------------------------------------------------------
(* What the documentation says, and the code does not do.                  *)

(* SUBSCRIBE channel: a client that has subscribed gets the messages of    *)
(* its own channel.                                                        *)
OwnChannel ==
  \A c \in Conn : pc[c] = "listening" => listen[c] = c

(* UNSUBSCRIBE ends the caller's subscription, no one else's.              *)
OthersKeepTheirs ==
  [][\A c \in Conn : Unsubscribe(c) => closed' \subseteq closed \cup {c}]_vars

(* Two subscribers of one topic see its messages in the same order.        *)
SameOrder ==
  \A c, d \in Conn : \A i, j \in DOMAIN got[c] : \A k, l \in DOMAIN got[d] :
    i < j /\ got[c][i] = got[d][l] /\ got[c][j] = got[d][k] => l < k

(* The registry forgets the channels of handlers that have ended.          *)
NoOrphans ==
  \A c \in Conn : pc[c] = "ended" ~> \A t \in Name : c \notin Range(channels[t])
=============================================================================

---------------------------- MODULE PubsubProofs ----------------------------
(***************************************************************************)
(* Theorems about Pubsub, for any connections, topics, buffer and number   *)
(* of messages: type correctness, no send on a closed channel, the order   *)
(* of a publisher's messages, and what a SUBSCRIBE that runs alone gets.   *)
(***************************************************************************)
EXTENDS Pubsub, SequenceTheorems, TLAPS

-----------------------------------------------------------------------------
(* The inductive invariant.                                                *)

Points == {"ready", "named", "made", "assigned", "replied", "listening",
           "leaving", "left", "wiped", "publish", "ended"}

(* The variables' types, of those that no message is in.                   *)
Shapes ==
  /\ channels \in [Name -> Seq(Conn)]
  /\ closed \subseteq Conn
  /\ subName \in Name /\ subChan \in Conn \cup {None}
  /\ pc \in [Conn -> Points]
  /\ name \in [Conn -> Name]
  /\ listen \in [Conn -> Conn \cup {None}]
  /\ \A c \in Conn : pc[c] = "listening" => listen[c] # None
  /\ pub \in [Conn -> [topic : Name, n : Nat, rest : Seq(Conn)]]
  /\ sent \in [Conn -> Nat] /\ \A c \in Conn : sent[c] <= MaxSent[c]
  /\ alone \in [Conn -> BOOLEAN]

(* What a PUBLISH has still to send to is the end of its topic's slice:    *)
(* for as long as it holds the lock, that slice stays.                     *)
Rounds == \A c \in Conn : IF pc[c] = "publish" THEN RoundOf(c) ELSE pub[c] = NoPub

(* Who is registered, or was, has made its subscription: a channel is      *)
(* registered once, and not after it has been closed.                      *)
Made == {"made", "assigned", "replied", "listening", "ended"}

Registered ==
  /\ \A t \in Name : IsInjective(channels[t]) /\ Range(channels[t]) \cap closed = {}
  /\ \A t, u \in Name : t # u => Range(channels[t]) \cap Range(channels[u]) = {}
  /\ \A t \in Name : \A g \in Range(channels[t]) : pc[g] \in Made
  /\ \A g \in closed : pc[g] \in Made

-----------------------------------------------------------------------------
(* Slices of channels.                                                     *)

(* What a name is registered with is a sequence of channels.               *)
LEMMA Slices == ASSUME Shapes, NEW t \in Name PROVE channels[t] \in Seq(Conn)
BY DEF Shapes

(* The members of a slice.                                                *)
LEMMA RangeOf == ASSUME NEW s \in Seq(Conn) PROVE Range(s) = {s[i] : i \in 1 .. Len(s)}
BY DEF Range

(* Appending a channel that is not there keeps a slice without duplicates. *)
LEMMA AppendChannel ==
  ASSUME NEW s \in Seq(Conn), IsInjective(s), NEW g \in Conn, g \notin Range(s)
  PROVE  /\ Append(s, g) \in Seq(Conn) /\ IsInjective(Append(s, g))
         /\ Range(Append(s, g)) = Range(s) \cup {g}
<1> DEFINE t == Append(s, g)
<1>1. /\ t \in Seq(Conn) /\ Len(s) \in Nat /\ DOMAIN s = 1 .. Len(s) /\ DOMAIN t = 1 .. Len(s) + 1
      /\ t[Len(s) + 1] = g /\ \A i \in 1 .. Len(s) : t[i] = s[i]
  OBVIOUS
<1> HIDE DEF t
<1>2. IsInjective(t)
  BY <1>1 DEF IsInjective, Range
<1>3. Range(t) = Range(s) \cup {g}
  BY <1>1 DEF Range
<1> QED
  BY <1>1, <1>2, <1>3 DEF t

(* Removing one place of a slice without duplicates removes its channel.   *)
LEMMA RemoveChannel ==
  ASSUME NEW s \in Seq(Conn), IsInjective(s), NEW i \in DOMAIN s
  PROVE  /\ RemoveAt(s, i) \in Seq(Conn) /\ IsInjective(RemoveAt(s, i))
         /\ Range(RemoveAt(s, i)) = Range(s) \ {s[i]}
<1> DEFINE a == SubSeq(s, 1, i - 1)
           b == SubSeq(s, i + 1, Len(s))
           t == a \o b
<1>1. Len(s) \in Nat /\ i \in 1 .. Len(s) /\ DOMAIN s = 1 .. Len(s)
  OBVIOUS
<1>2. /\ a \in Seq(Conn) /\ Len(a) = i - 1 /\ \A j \in 1 .. i - 1 : a[j] = s[j]
  BY <1>1
<1>3. /\ b \in Seq(Conn) /\ Len(b) = Len(s) - i /\ \A j \in 1 .. Len(s) - i : b[j] = s[i + j]
  BY <1>1
<1> HIDE DEF a, b
<1>4. t \in Seq(Conn) /\ Len(t) = Len(s) - 1 /\ DOMAIN t = 1 .. Len(s) - 1
  <2>1. t \in Seq(Conn) /\ Len(t) = Len(a) + Len(b)
    BY <1>2, <1>3, ConcatProperties
  <2> HIDE DEF t
  <2>2. Len(t) = Len(s) - 1
    BY <1>1, <1>2, <1>3, <2>1
  <2> QED
    BY <2>1, <2>2
<1>5. \A j \in 1 .. i - 1 : t[j] = s[j]
  BY <1>1, <1>2, <1>3
<1>6. ASSUME NEW j \in i .. Len(s) - 1 PROVE t[j] = s[j + 1]
  <2>1. t[j] = b[j - (i - 1)]
    BY <1>1, <1>2, <1>3
  <2>2. j - (i - 1) \in 1 .. Len(s) - i /\ i + (j - (i - 1)) = j + 1
    BY <1>1
  <2> QED
    BY <1>3, <2>1, <2>2
<1> HIDE DEF t
<1>7. \A j \in DOMAIN t : \E k \in DOMAIN s : k # i /\ t[j] = s[k] /\ k = (IF j < i THEN j ELSE j + 1)
  <2> SUFFICES ASSUME NEW j \in DOMAIN t
               PROVE  \E k \in DOMAIN s : k # i /\ t[j] = s[k] /\ k = (IF j < i THEN j ELSE j + 1)
    OBVIOUS
  <2>1. CASE j < i
    BY <1>1, <1>4, <1>5, <2>1
  <2>2. CASE ~(j < i)
    <3>1. j \in i .. Len(s) - 1 /\ j + 1 \in DOMAIN s /\ j + 1 # i
      BY <1>1, <1>4, <2>2
    <3> QED
      BY <1>6, <2>2, <3>1
  <2> QED
    BY <2>1, <2>2
<1>8. IsInjective(t)
  <2> SUFFICES ASSUME NEW j \in DOMAIN t, NEW k \in DOMAIN t, t[j] = t[k] PROVE j = k
    BY DEF IsInjective
  <2>1. PICK p \in DOMAIN s : t[j] = s[p] /\ p = (IF j < i THEN j ELSE j + 1)
    BY <1>7
  <2>2. PICK q \in DOMAIN s : t[k] = s[q] /\ q = (IF k < i THEN k ELSE k + 1)
    BY <1>7
  <2>3. p = q
    BY <2>1, <2>2 DEF IsInjective
  <2> QED
    BY <1>1, <1>4, <2>1, <2>2, <2>3
<1>9. Range(t) \subseteq Range(s) \ {s[i]}
  BY <1>7 DEF IsInjective, Range
<1>10. ASSUME NEW j \in DOMAIN s, j # i PROVE s[j] \in Range(t)
  <2>1. CASE j < i
    <3>1. j \in DOMAIN t /\ t[j] = s[j]
      BY <1>1, <1>4, <1>5, <2>1
    <3> QED
      BY <3>1 DEF Range
  <2>2. CASE j > i
    <3>1. j - 1 \in i .. Len(s) - 1 /\ (j - 1) + 1 = j /\ j - 1 \in DOMAIN t
      BY <1>1, <1>4, <2>2
    <3>2. t[j - 1] = s[j]
      BY <1>6, <3>1
    <3> QED
      BY <3>1, <3>2 DEF Range
  <2> QED
    BY <1>1, <1>10, <2>1, <2>2
<1>11. Range(t) = Range(s) \ {s[i]}
  BY <1>9, <1>10 DEF Range
<1>12. RemoveAt(s, i) = t
  BY DEF RemoveAt, t, a, b
<1> QED
  BY <1>4, <1>8, <1>11, <1>12

-----------------------------------------------------------------------------
(* The invariant's first parts hold initially.                             *)
LEMMA InitBase == Init => Shapes /\ Rounds /\ Registered
<1> SUFFICES ASSUME Init PROVE Shapes /\ Rounds /\ Registered
  OBVIOUS
<1>1. Shapes
  BY PubsubAssumption DEF PubsubAssumption, Init, Shapes, Points, NoPub, Name
<1>2. Rounds
  BY DEF Init, Rounds
<1>3. \A t \in Name : Range(channels[t]) = {} /\ IsInjective(channels[t])
  BY DEF Init, Range, IsInjective
<1> QED
  BY <1>1, <1>2, <1>3 DEF Init, Registered

(* Whoever enters the handlers of subName and subChan knows if it is       *)
(* alone.                                                                  *)
LEMMA AloneTyped ==
  ASSUME Shapes, NEW c \in Conn, NEW own \in BOOLEAN, Enters(c, own)
  PROVE  /\ alone' \in [Conn -> BOOLEAN]
         /\ alone'[c] = own
         /\ \A d \in Conn \ {c} : alone'[d] = (alone[d] /\ ~Busy(d))
BY DEF Enters, Shapes

(* A PUBLISH counts one message, and no more than the bound.               *)
LEMMA SentBounded ==
  ASSUME Shapes, NEW c \in Conn, sent[c] < MaxSent[c], sent' = [sent EXCEPT ![c] = @ + 1]
  PROVE  sent' \in [Conn -> Nat] /\ \A d \in Conn : sent'[d] <= MaxSent[d]
<1> USE DEF Shapes
<1>1. sent[c] \in Nat /\ MaxSent[c] \in Nat
  BY PubsubAssumption DEF PubsubAssumption
<1>2. sent[c] + 1 <= MaxSent[c]
  BY <1>1
<1>3. ASSUME NEW d \in Conn PROVE sent'[d] <= MaxSent[d]
  <2>1. CASE d = c
    BY <1>1, <1>2, <2>1
  <2>2. CASE d # c
    BY <2>2
  <2> QED
    BY <2>1, <2>2
<1> QED
  BY <1>3

(* Every step keeps the types.                                             *)
LEMMA ShapesKept ==
  ASSUME Shapes, Rounds, Registered, [Next]_vars
  PROVE  Shapes'
<1> USE DEF Shapes, Points, Name, Goes, registry, shared
<1>1. CASE UNCHANGED vars
  BY <1>1 DEF vars
<1>2. ASSUME NEW c \in Conn, SubscribeName(c) PROVE Shapes'
  <2>1. alone' \in [Conn -> BOOLEAN]
    BY <1>2, AloneTyped DEF SubscribeName
  <2>2. subName' \in Name
    BY <1>2, PubsubAssumption DEF SubscribeName, PubsubAssumption
  <2>3. pc' \in [Conn -> Points]
    BY <1>2 DEF SubscribeName
  <2>4. \A d \in Conn : pc'[d] = "listening" => pc[d] = "listening"
    BY <1>2 DEF SubscribeName
  <2> QED
    BY <1>2, <2>1, <2>2, <2>3, <2>4 DEF SubscribeName
<1>3. ASSUME NEW c \in Conn, SubscribeBare(c) PROVE Shapes'
  <2>1. alone' \in [Conn -> BOOLEAN]
    BY <1>3, AloneTyped DEF SubscribeBare
  <2> QED
    BY <1>3, <2>1 DEF SubscribeBare
<1>4. ASSUME NEW c \in Conn, UnsubscribeCheck(c) PROVE Shapes'
  <2>1. alone' \in [Conn -> BOOLEAN]
    BY <1>4, AloneTyped DEF UnsubscribeCheck
  <2> QED
    BY <1>4, <2>1 DEF UnsubscribeCheck
<1>5. ASSUME NEW c \in Conn, NEW t \in Topic, Publish(c, t) PROVE Shapes'
  <2>1. sent' \in [Conn -> Nat] /\ \A d \in Conn : sent'[d] <= MaxSent[d]
    BY <1>5, SentBounded DEF Publish
  <2>2. pc' \in [Conn -> Points] /\ \A d \in Conn : pc'[d] = "listening" => pc[d] = "listening"
    BY <1>5 DEF Publish
  <2>3. t \in Name /\ sent[c] + 1 \in Nat /\ channels[t] \in Seq(Conn)
    OBVIOUS
  <2>4. pub' \in [Conn -> [topic : Name, n : Nat, rest : Seq(Conn)]]
    <3>1. CASE UNCHANGED pub
      BY <3>1
    <3>2. CASE pub' = [pub EXCEPT ![c] = [topic |-> t, n |-> sent[c] + 1, rest |-> channels[t]]]
      BY <2>3, <3>2
    <3> QED
      BY <1>5, <3>1, <3>2 DEF Publish
  <2> QED
    BY <1>5, <2>1, <2>2, <2>4 DEF Publish
<1>6. ASSUME NEW c \in Conn, Subscribe(c) PROVE Shapes'
  BY <1>6 DEF Subscribe
<1>7. ASSUME NEW c \in Conn, SubscribeAssign(c) PROVE Shapes'
  BY <1>7 DEF SubscribeAssign
<1>8. ASSUME NEW c \in Conn, SubscribeReply(c) PROVE Shapes'
  BY <1>8 DEF SubscribeReply
<1>9. ASSUME NEW c \in Conn, Capture(c) PROVE Shapes'
  <2>1. CASE Goes(c, "replied", "ended") /\ UNCHANGED listen
    BY <1>9, <2>1 DEF Capture
  <2>2. CASE subChan = None /\ Goes(c, "replied", "ended") /\ listen' = [listen EXCEPT ![c] = subChan]
    BY <1>9, <2>2 DEF Capture
  <2>3. CASE subChan # None /\ Goes(c, "replied", "listening") /\ listen' = [listen EXCEPT ![c] = subChan]
    BY <1>9, <2>3 DEF Capture
  <2> QED
    BY <1>9, <2>1, <2>2, <2>3 DEF Capture
<1>10. ASSUME NEW c \in Conn, Unsubscribe(c) PROVE Shapes'
  <2>1. /\ pc' \in [Conn -> Points] /\ \A d \in Conn : pc'[d] = "listening" => pc[d] = "listening"
        /\ UNCHANGED <<queue, shared, name, listen, pub, sent, got, alone>>
        /\ name[c] \in Name
    BY <1>10 DEF Unsubscribe
  <2>2. CASE UNCHANGED registry
    BY <2>1, <2>2
  <2>3. ASSUME NEW i \in DOMAIN channels[name[c]], At(subChan, name[c], i),
               channels' = [channels EXCEPT ![name[c]] = RemoveAt(@, i)],
               closed' = closed \cup {subChan}
        PROVE  Shapes'
    <3>1. RemoveAt(channels[name[c]], i) \in Seq(Conn)
      BY <2>1, RemoveChannel DEF Registered
    <3>2. subChan \in Conn
      BY <2>1, <2>3 DEF At
    <3>3. channels' \in [Name -> Seq(Conn)] /\ closed' \subseteq Conn
      BY <2>1, <2>3, <3>1, <3>2
    <3> QED
      BY <2>1, <3>3
  <2> QED
    BY <1>10, <2>2, <2>3 DEF Unsubscribe
<1>11. ASSUME NEW c \in Conn, UnsubscribeWipeChan(c) PROVE Shapes'
  BY <1>11 DEF UnsubscribeWipeChan
<1>12. ASSUME NEW c \in Conn, UnsubscribeWipeName(c) PROVE Shapes'
  BY <1>12 DEF UnsubscribeWipeName
<1>13. ASSUME NEW c \in Conn, Send(c) PROVE Shapes'
  <2>1. pub[c].topic \in Name /\ pub[c].n \in Nat /\ pub[c].rest \in Seq(Conn) /\ pub[c].rest # << >>
    BY <1>13 DEF Send
  <2>2. Tail(pub[c].rest) \in Seq(Conn)
    BY <2>1
  <2>3. pub' = [pub EXCEPT ![c] = [topic |-> pub[c].topic, n |-> pub[c].n, rest |-> Tail(pub[c].rest)]]
    BY <1>13 DEF Send
  <2>4. pub' \in [Conn -> [topic : Name, n : Nat, rest : Seq(Conn)]]
    BY <2>1, <2>2, <2>3
  <2> QED
    BY <1>13, <2>4 DEF Send
<1>14. ASSUME NEW c \in Conn, PublishEnd(c) PROVE Shapes'
  <2>1. NoPub \in [topic : Name, n : Nat, rest : Seq(Conn)]
    BY DEF NoPub
  <2>2. pub' \in [Conn -> [topic : Name, n : Nat, rest : Seq(Conn)]]
    BY <1>14, <2>1 DEF PublishEnd
  <2> QED
    BY <1>14, <2>2 DEF PublishEnd
<1>15. ASSUME NEW c \in Conn, Receive(c) PROVE Shapes'
  BY <1>15 DEF Receive
<1>16. ASSUME NEW c \in Conn, ListenEnd(c) PROVE Shapes'
  BY <1>16 DEF ListenEnd
<1>17. ASSUME NEW c \in Conn, ReadFails(c) PROVE Shapes'
  BY <1>17 DEF ReadFails
<1> QED
  BY <1>1, <1>2, <1>3, <1>4, <1>5, <1>6, <1>7, <1>8, <1>9, <1>10, <1>11,
     <1>12, <1>13, <1>14, <1>15, <1>16, <1>17 DEF Next, Command, Continue

(* No PUBLISH begins, goes on or ends, and no topic's slice changes.       *)
Apart ==
  /\ UNCHANGED <<channels, pub, sent>>
  /\ \A d \in Conn : pc'[d] = "publish" <=> pc[d] = "publish"

(* The end of a slice, less its first channel, is an end of the slice.     *)
LEMMA TailOfSlice ==
  ASSUME NEW s \in Seq(Conn), NEW i \in 1 .. Len(s) + 1, SubSeq(s, i, Len(s)) # << >>
  PROVE  i + 1 \in 1 .. Len(s) + 1 /\ Tail(SubSeq(s, i, Len(s))) = SubSeq(s, i + 1, Len(s))
<1> DEFINE a == SubSeq(s, i, Len(s))
           b == SubSeq(s, i + 1, Len(s))
<1>1. Len(s) \in Nat /\ i \in Nat \ {0}
  OBVIOUS
<1>2. i <= Len(s)
  <2>1. CASE i = Len(s) + 1
    BY <1>1, <2>1, SubSeqProperties
  <2> QED
    BY <1>1, <2>1
<1>3. a \in Seq(Conn) /\ Len(a) = Len(s) - i + 1 /\ \A j \in 1 .. Len(s) - i + 1 : a[j] = s[i + j - 1]
  BY <1>1, <1>2, SubSeqProperties
<1>4. b \in Seq(Conn) /\ Len(b) = Len(s) - i /\ \A j \in 1 .. Len(s) - i : b[j] = s[i + j]
  BY <1>1, <1>2, SubSeqProperties
<1>5. Tail(a) \in Seq(Conn) /\ Len(Tail(a)) = Len(a) - 1 /\ \A j \in 1 .. Len(a) - 1 : Tail(a)[j] = a[j + 1]
  BY <1>3, HeadTailProperties
<1> HIDE DEF a, b
<1>6. Len(Tail(a)) = Len(b)
  <2>1. \A n, k \in Nat : (n - k + 1) - 1 = n - k
    OBVIOUS
  <2>2. Len(Tail(a)) = (Len(s) - i + 1) - 1
    BY <1>3, <1>5
  <2> QED
    BY <1>1, <1>4, <2>1, <2>2
<1>7. ASSUME NEW j \in 1 .. Len(b) PROVE Tail(a)[j] = b[j]
  <2>1. j \in 1 .. Len(a) - 1 /\ j + 1 \in 1 .. Len(s) - i + 1 /\ i + (j + 1) - 1 = i + j
    BY <1>1, <1>2, <1>3, <1>4
  <2> QED
    BY <1>3, <1>4, <1>5, <2>1
<1>8. Tail(a) = b
  BY <1>4, <1>5, <1>6, <1>7, SeqEqual
<1> QED
  BY <1>1, <1>2, <1>8 DEF a, b

(* The steps that touch what a PUBLISH goes round.                         *)
LEMMA RoundSteps ==
  ASSUME Shapes, [Next]_vars
  PROVE  \/ Apart
         \/ \E c \in Conn : \/ \E t \in Topic : Publish(c, t)
                            \/ Send(c) \/ PublishEnd(c) \/ Subscribe(c) \/ Unsubscribe(c)
<1> DEFINE G == \/ Apart
                \/ \E c \in Conn : \/ \E t \in Topic : Publish(c, t)
                                   \/ Send(c) \/ PublishEnd(c) \/ Subscribe(c) \/ Unsubscribe(c)
<1> USE DEF Shapes, Goes, registry, Apart
<1>1. CASE UNCHANGED vars
  BY <1>1 DEF vars
<1>2. ASSUME NEW c \in Conn, SubscribeName(c) PROVE G
  BY <1>2 DEF SubscribeName
<1>3. ASSUME NEW c \in Conn, SubscribeBare(c) PROVE G
  BY <1>3 DEF SubscribeBare
<1>4. ASSUME NEW c \in Conn, UnsubscribeCheck(c) PROVE G
  BY <1>4 DEF UnsubscribeCheck
<1>5. ASSUME NEW c \in Conn, NEW t \in Topic, Publish(c, t) PROVE G
  BY <1>5
<1>6. ASSUME NEW c \in Conn, Subscribe(c) PROVE G
  BY <1>6
<1>7. ASSUME NEW c \in Conn, SubscribeAssign(c) PROVE G
  BY <1>7 DEF SubscribeAssign
<1>8. ASSUME NEW c \in Conn, SubscribeReply(c) PROVE G
  BY <1>8 DEF SubscribeReply
<1>9. ASSUME NEW c \in Conn, Capture(c) PROVE G
  <2>1. UNCHANGED <<channels, pub, sent>> /\ pc[c] = "replied"
    BY <1>9 DEF Capture
  <2>2. \E x \in {"listening", "ended"} : pc' = [pc EXCEPT ![c] = x]
    BY <1>9 DEF Capture
  <2> QED
    BY <2>1, <2>2
<1>10. ASSUME NEW c \in Conn, Unsubscribe(c) PROVE G
  BY <1>10
<1>11. ASSUME NEW c \in Conn, UnsubscribeWipeChan(c) PROVE G
  BY <1>11 DEF UnsubscribeWipeChan
<1>12. ASSUME NEW c \in Conn, UnsubscribeWipeName(c) PROVE G
  BY <1>12 DEF UnsubscribeWipeName
<1>13. ASSUME NEW c \in Conn, Send(c) PROVE G
  BY <1>13
<1>14. ASSUME NEW c \in Conn, PublishEnd(c) PROVE G
  BY <1>14
<1>15. ASSUME NEW c \in Conn, Receive(c) PROVE G
  BY <1>15 DEF Receive
<1>16. ASSUME NEW c \in Conn, ListenEnd(c) PROVE G
  BY <1>16 DEF ListenEnd
<1>17. ASSUME NEW c \in Conn, ReadFails(c) PROVE G
  BY <1>17 DEF ReadFails
<1> QED
  BY <1>1, <1>2, <1>3, <1>4, <1>5, <1>6, <1>7, <1>8, <1>9, <1>10, <1>11,
     <1>12, <1>13, <1>14, <1>15, <1>16, <1>17 DEF Next, Command, Continue

(* Every step keeps the rest of a round an end of its slice: registering   *)
(* and unregistering need the lock.                                        *)
LEMMA RoundsKept == ASSUME Shapes, Rounds, [Next]_vars PROVE Rounds'
<1> USE DEF Rounds
<1>1. CASE Apart
  <2> SUFFICES ASSUME NEW d \in Conn
               PROVE  (IF pc[d] = "publish" THEN RoundOf(d) ELSE pub[d] = NoPub)'
    OBVIOUS
  <2>1. RoundOf(d)' <=> RoundOf(d)
    BY <1>1 DEF Apart, RoundOf
  <2> QED
    BY <1>1, <2>1 DEF Apart
<1>2. ASSUME NEW c \in Conn, NEW t \in Topic, Publish(c, t) PROVE Rounds'
  <2>1. \A d \in Conn \ {c} : RoundOf(d)' <=> RoundOf(d)
    BY <1>2 DEF Publish, RoundOf, registry, Shapes
  <2>2. \A d \in Conn \ {c} : pc'[d] = pc[d] /\ pub'[d] = pub[d]
    BY <1>2 DEF Publish, Goes, Shapes
  <2>3. CASE pc' = pc /\ pub' = pub /\ pc[c] = "ready"
    BY <2>1, <2>2, <2>3
  <2>4. CASE /\ pc' = [pc EXCEPT ![c] = "publish"]
             /\ pub' = [pub EXCEPT ![c] = [topic |-> t, n |-> sent[c] + 1, rest |-> channels[t]]]
    <3>1. pc'[c] = "publish" /\ pub'[c] = [topic |-> t, n |-> sent[c] + 1, rest |-> channels[t]]
      BY <2>4 DEF Shapes
    <3>2. sent'[c] = sent[c] + 1 /\ sent[c] \in Nat /\ channels' = channels
      BY <1>2 DEF Publish, Shapes, registry
    <3>3. channels[t] \in Seq(Conn)
      BY DEF Shapes, Name
    <3>4. channels[t] = SubSeq(channels[t], 1, Len(channels[t])) /\ 1 \in 1 .. Len(channels[t]) + 1
      BY <3>3
    <3>5. RoundOf(c)'
      BY <3>1, <3>2, <3>4 DEF RoundOf
    <3> QED
      BY <2>1, <2>2, <3>1, <3>5
  <2> QED
    BY <1>2, <2>3, <2>4 DEF Publish, Goes
<1>3. ASSUME NEW c \in Conn, Send(c) PROVE Rounds'
  <2>1. /\ UNCHANGED <<pc, channels, sent>> /\ pc[c] = "publish" /\ pub[c].rest # << >>
        /\ pub' = [pub EXCEPT ![c] = [topic |-> pub[c].topic, n |-> pub[c].n, rest |-> Tail(pub[c].rest)]]
        /\ pub[c].topic \in Topic
    BY <1>3 DEF Send, registry, RoundOf
  <2>2. \A d \in Conn \ {c} : pub'[d] = pub[d]
    BY <2>1 DEF Shapes
  <2>3. \A d \in Conn \ {c} : RoundOf(d)' <=> RoundOf(d)
    BY <2>1, <2>2 DEF RoundOf
  <2> DEFINE subs == channels[pub[c].topic]
  <2>4. PICK i \in 1 .. Len(subs) + 1 : pub[c].rest = SubSeq(subs, i, Len(subs))
    BY <2>1 DEF RoundOf
  <2>5. subs \in Seq(Conn)
    BY <2>1 DEF Shapes, Name
  <2> HIDE DEF subs
  <2>6. i + 1 \in 1 .. Len(subs) + 1 /\ Tail(pub[c].rest) = SubSeq(subs, i + 1, Len(subs))
    BY <2>1, <2>4, <2>5, TailOfSlice
  <2>7. /\ pub'[c].topic = pub[c].topic /\ pub'[c].n = pub[c].n
        /\ pub'[c].rest = Tail(pub[c].rest)
    BY <2>1 DEF Shapes
  <2>8. RoundOf(c)'
    BY <2>1, <2>6, <2>7 DEF RoundOf, subs
  <2> QED
    BY <2>1, <2>2, <2>3, <2>8
<1>4. ASSUME NEW c \in Conn, PublishEnd(c) PROVE Rounds'
  <2>1. /\ UNCHANGED <<channels, sent>> /\ pc' = [pc EXCEPT ![c] = "ready"]
        /\ pub' = [pub EXCEPT ![c] = NoPub]
    BY <1>4 DEF PublishEnd, registry, Goes
  <2>2. \A d \in Conn \ {c} : pub'[d] = pub[d] /\ pc'[d] = pc[d]
    BY <2>1 DEF Shapes
  <2>3. pub'[c] = NoPub /\ pc'[c] = "ready"
    BY <2>1 DEF Shapes
  <2>4. \A d \in Conn \ {c} : RoundOf(d)' <=> RoundOf(d)
    BY <2>1, <2>2 DEF RoundOf
  <2> QED
    BY <2>2, <2>3, <2>4
<1>5. ASSUME NEW c \in Conn, Subscribe(c) \/ Unsubscribe(c) PROVE Rounds'
  <2>1. \A d \in Conn : pc[d] # "publish"
    BY <1>5 DEF Subscribe, Unsubscribe, Locked
  <2>2. /\ pub' = pub
        /\ pc' = [pc EXCEPT ![c] = "made"] \/ pc' = [pc EXCEPT ![c] = "left"]
    BY <1>5 DEF Subscribe, Unsubscribe, Goes
  <2>3. \A d \in Conn : pc'[d] # "publish"
    BY <2>1, <2>2 DEF Shapes
  <2> QED
    BY <2>1, <2>2, <2>3
<1> QED
  BY <1>1, <1>2, <1>3, <1>4, <1>5, RoundSteps

(* The registry stays, and so does what has been made.                     *)
Lasting ==
  /\ UNCHANGED <<channels, closed>>
  /\ \A d \in Conn : pc[d] \in Made => pc'[d] \in Made

(* The steps that touch the registry.                                      *)
LEMMA RegistrySteps ==
  ASSUME Shapes, [Next]_vars
  PROVE  \/ Lasting
         \/ \E c \in Conn : Subscribe(c) \/ Unsubscribe(c)
<1> DEFINE G == Lasting \/ \E c \in Conn : Subscribe(c) \/ Unsubscribe(c)
<1> USE DEF Shapes, Goes, registry, Lasting, Made
<1>1. CASE UNCHANGED vars
  BY <1>1 DEF vars
<1>2. ASSUME NEW c \in Conn, SubscribeName(c) PROVE G
  BY <1>2 DEF SubscribeName
<1>3. ASSUME NEW c \in Conn, SubscribeBare(c) PROVE G
  BY <1>3 DEF SubscribeBare
<1>4. ASSUME NEW c \in Conn, UnsubscribeCheck(c) PROVE G
  BY <1>4 DEF UnsubscribeCheck
<1>5. ASSUME NEW c \in Conn, NEW t \in Topic, Publish(c, t) PROVE G
  BY <1>5 DEF Publish
<1>6. ASSUME NEW c \in Conn, Subscribe(c) PROVE G
  BY <1>6
<1>7. ASSUME NEW c \in Conn, SubscribeAssign(c) PROVE G
  BY <1>7 DEF SubscribeAssign
<1>8. ASSUME NEW c \in Conn, SubscribeReply(c) PROVE G
  BY <1>8 DEF SubscribeReply
<1>9. ASSUME NEW c \in Conn, Capture(c) PROVE G
  <2>1. UNCHANGED registry
    BY <1>9 DEF Capture
  <2>2. \E x \in {"listening", "ended"} : pc' = [pc EXCEPT ![c] = x]
    BY <1>9 DEF Capture
  <2> QED
    BY <2>1, <2>2
<1>10. ASSUME NEW c \in Conn, Unsubscribe(c) PROVE G
  BY <1>10
<1>11. ASSUME NEW c \in Conn, UnsubscribeWipeChan(c) PROVE G
  BY <1>11 DEF UnsubscribeWipeChan
<1>12. ASSUME NEW c \in Conn, UnsubscribeWipeName(c) PROVE G
  BY <1>12 DEF UnsubscribeWipeName
<1>13. ASSUME NEW c \in Conn, Send(c) PROVE G
  BY <1>13 DEF Send
<1>14. ASSUME NEW c \in Conn, PublishEnd(c) PROVE G
  BY <1>14 DEF PublishEnd
<1>15. ASSUME NEW c \in Conn, Receive(c) PROVE G
  BY <1>15 DEF Receive
<1>16. ASSUME NEW c \in Conn, ListenEnd(c) PROVE G
  BY <1>16 DEF ListenEnd
<1>17. ASSUME NEW c \in Conn, ReadFails(c) PROVE G
  BY <1>17 DEF ReadFails
<1> QED
  BY <1>1, <1>2, <1>3, <1>4, <1>5, <1>6, <1>7, <1>8, <1>9, <1>10, <1>11,
     <1>12, <1>13, <1>14, <1>15, <1>16, <1>17 DEF Next, Command, Continue

(* Every step keeps each channel registered once, and not after its close. *)
LEMMA RegisteredKept == ASSUME Shapes, Registered, [Next]_vars PROVE Registered'
<1>1. CASE Lasting
  <2>1. \A t \in Name : Range(channels[t]) \subseteq Conn
    BY Slices, RangeOf
  <2> QED
    BY <1>1, <2>1 DEF Lasting, Registered, Shapes
<1>2. ASSUME NEW c \in Conn, Subscribe(c) PROVE Registered'
  <2>1. /\ pc[c] = "named" /\ pc' = [pc EXCEPT ![c] = "made"] /\ closed' = closed
        /\ channels' = [channels EXCEPT ![subName] = Append(channels[subName], c)]
        /\ subName \in Name /\ channels[subName] \in Seq(Conn)
    BY <1>2 DEF Subscribe, Goes, registry, Shapes
  <2>2. c \notin closed /\ \A t \in Name : c \notin Range(channels[t])
    BY <2>1 DEF Registered, Made
  <2>3. /\ IsInjective(channels'[subName])
        /\ Range(channels'[subName]) = Range(channels[subName]) \cup {c}
    BY <2>1, <2>2, AppendChannel DEF Registered, Shapes
  <2>4. \A t \in Name \ {subName} : channels'[t] = channels[t]
    BY <2>1 DEF Shapes
  <2>5. \A d \in Conn : pc[d] \in Made \/ d = c => pc'[d] \in Made
    BY <2>1 DEF Shapes, Made
  <2>6. \A t \in Name : Range(channels[t]) \subseteq Conn
    BY Slices, RangeOf
  <2>7. \A t \in Name : IsInjective(channels'[t]) /\ Range(channels'[t]) \cap closed' = {}
    BY <2>1, <2>2, <2>3, <2>4 DEF Registered
  <2>8. \A t, u \in Name : t # u => Range(channels'[t]) \cap Range(channels'[u]) = {}
    BY <2>1, <2>2, <2>3, <2>4 DEF Registered
  <2>9. \A t \in Name : \A g \in Range(channels'[t]) : pc'[g] \in Made
    BY <2>1, <2>3, <2>4, <2>5, <2>6 DEF Registered
  <2>10. \A g \in closed' : pc'[g] \in Made
    BY <2>1, <2>5 DEF Registered, Shapes
  <2> QED
    BY <2>7, <2>8, <2>9, <2>10 DEF Registered
<1>3. ASSUME NEW c \in Conn, Unsubscribe(c) PROVE Registered'
  <2>1. /\ pc[c] = "leaving" /\ pc' = [pc EXCEPT ![c] = "left"] /\ name[c] \in Name
    BY <1>3 DEF Unsubscribe, Goes, Shapes
  <2>2. \A d \in Conn : pc[d] \in Made => pc'[d] \in Made
    BY <2>1 DEF Shapes, Made
  <2>3. \A t \in Name : Range(channels[t]) \subseteq Conn
    BY Slices, RangeOf
  <2>4. CASE UNCHANGED registry
    BY <2>2, <2>3, <2>4 DEF Registered, registry, Shapes
  <2>5. ASSUME NEW i \in DOMAIN channels[name[c]], At(subChan, name[c], i),
               channels' = [channels EXCEPT ![name[c]] = RemoveAt(@, i)],
               closed' = closed \cup {subChan}
        PROVE  Registered'
    <3> DEFINE t == name[c]
    <3>1. channels[t] \in Seq(Conn) /\ channels[t][i] = subChan /\ subChan \in Range(channels[t])
      BY <2>1, <2>5, Slices DEF At, Range
    <3>2. /\ IsInjective(channels'[t])
          /\ Range(channels'[t]) = Range(channels[t]) \ {subChan}
      BY <2>1, <2>5, <3>1, RemoveChannel DEF Registered, Shapes
    <3>3. \A u \in Name \ {t} : channels'[u] = channels[u]
      BY <2>1, <2>5 DEF Shapes
    <3> HIDE DEF t
    <3>4. t \in Name
      BY <2>1 DEF t
    <3>5. \A u \in Name : IsInjective(channels'[u]) /\ Range(channels'[u]) \subseteq Range(channels[u])
      BY <3>2, <3>3 DEF Registered
    <3>6. \A u \in Name : Range(channels'[u]) \cap closed' = {}
      BY <2>5, <3>1, <3>2, <3>3, <3>4 DEF Registered
    <3>7. \A u \in Name : \A g \in Range(channels'[u]) : pc'[g] \in Made
      BY <2>2, <2>3, <3>5 DEF Registered
    <3>8. \A g \in closed' : pc'[g] \in Made
      BY <2>2, <2>3, <2>5, <3>1, <3>4 DEF Registered, Shapes
    <3> QED
      BY <3>5, <3>6, <3>7, <3>8 DEF Registered
  <2> QED
    BY <1>3, <2>4, <2>5 DEF Unsubscribe
<1> QED
  BY <1>1, <1>2, <1>3, RegistrySteps

Ids == [from : Conn, n : Nat \ {0}]

(* The messages of d that went past channel g: sent to it or dropped.      *)
Passed(g, d) == IF g \in Range(pub[d].rest) THEN sent[d] - 1 ELSE sent[d]

(* In order of their publishers; within what went past the channel; all of *)
(* one sequence before those of another.                                   *)
InOrder(s) == \A i, j \in DOMAIN s : i < j /\ s[i].from = s[j].from => s[i].n < s[j].n
Within(s, g) ==
  \A i \in DOMAIN s, d \in Conn : s[i].from = d => s[i].n <= Passed(g, d)
Before(s, r) == \A i \in DOMAIN s, j \in DOMAIN r : s[i].from = r[j].from => s[i].n < r[j].n

(* What is in a channel is in order and went past it; what a listener got  *)
(* is in order and before what its channel still has.                      *)
Queues ==
  /\ queue \in [Conn -> Seq(Sent)] /\ \A g \in Conn : Len(queue[g]) <= Buffer
  /\ got \in [Conn -> Seq(Ids)]
  /\ \A g \in Conn : /\ pc[g] \notin Made => queue[g] = << >>
                     /\ InOrder(queue[g]) /\ Within(queue[g], g)
  /\ \A c \in Conn : /\ pc[c] \notin {"listening", "ended"} => got[c] = << >>
                     /\ InOrder(got[c])
                     /\ pc[c] = "listening" => /\ Within(got[c], listen[c])
                                               /\ Before(got[c], queue[listen[c]])

-----------------------------------------------------------------------------
(* Messages in sequence.                                                   *)

(* A message later than all of its publisher's keeps a sequence in order.  *)
LEMMA OrderAppended ==
  ASSUME NEW R, \A r \in R : r.from \in Conn /\ r.n \in Nat,
         NEW s \in Seq(R), NEW x \in R, InOrder(s),
         \A i \in DOMAIN s : s[i].from = x.from => s[i].n < x.n
  PROVE  InOrder(Append(s, x))
<1> DEFINE t == Append(s, x)
<1>1. /\ Len(s) \in Nat /\ DOMAIN s = 1 .. Len(s) /\ DOMAIN t = 1 .. Len(s) + 1
      /\ t[Len(s) + 1] = x /\ \A i \in 1 .. Len(s) : t[i] = s[i]
  OBVIOUS
<1> HIDE DEF t
<1> SUFFICES ASSUME NEW i \in DOMAIN t, NEW j \in DOMAIN t, i < j, t[i].from = t[j].from
             PROVE  t[i].n < t[j].n
  BY DEF InOrder, t
<1>2. i \in 1 .. Len(s) /\ t[i] = s[i]
  BY <1>1
<1>3. CASE j \in 1 .. Len(s)
  BY <1>1, <1>2, <1>3 DEF InOrder
<1>4. CASE j = Len(s) + 1
  BY <1>1, <1>2, <1>4
<1> QED
  BY <1>1, <1>3, <1>4

(* The rest of a sequence in order is in order, and after its head.        *)
LEMMA OrderTail ==
  ASSUME NEW R, \A r \in R : r.from \in Conn /\ r.n \in Nat,
         NEW s \in Seq(R), s # << >>, InOrder(s)
  PROVE  /\ InOrder(Tail(s)) /\ \A i \in DOMAIN Tail(s) : i + 1 \in DOMAIN s /\ Tail(s)[i] = s[i + 1]
         /\ \A i \in DOMAIN Tail(s) : Tail(s)[i].from = Head(s).from => Head(s).n < Tail(s)[i].n
         /\ 1 \in DOMAIN s /\ Head(s) = s[1]
<1> DEFINE t == Tail(s)
<1>1. /\ Len(s) \in Nat \ {0} /\ DOMAIN s = 1 .. Len(s) /\ DOMAIN t = 1 .. Len(s) - 1
      /\ \A i \in 1 .. Len(s) - 1 : t[i] = s[i + 1]
      /\ Head(s) = s[1]
  BY HeadTailProperties
<1> HIDE DEF t
<1>2. \A i \in DOMAIN t : i + 1 \in DOMAIN s /\ t[i] = s[i + 1] /\ 1 < i + 1
  BY <1>1
<1>3. InOrder(t)
  <2> SUFFICES ASSUME NEW i \in DOMAIN t, NEW j \in DOMAIN t, i < j, t[i].from = t[j].from
               PROVE  t[i].n < t[j].n
    BY DEF InOrder
  <2>1. i + 1 \in DOMAIN s /\ j + 1 \in DOMAIN s /\ i + 1 < j + 1
    BY <1>1
  <2> QED
    BY <1>2, <2>1 DEF InOrder
<1>4. 1 \in DOMAIN s
  BY <1>1
<1>5. \A i \in DOMAIN t : t[i].from = Head(s).from => Head(s).n < t[i].n
  BY <1>1, <1>2, <1>4 DEF InOrder
<1> QED
  BY <1>1, <1>2, <1>3, <1>4, <1>5 DEF t

(* The end of a slice without duplicates begins with a channel that is not *)
(* in the rest of it.                                                      *)
LEMMA SliceOnce ==
  ASSUME NEW s \in Seq(Conn), IsInjective(s), NEW i \in 1 .. Len(s) + 1,
         NEW r, r = SubSeq(s, i, Len(s)), r # << >>
  PROVE  /\ r \in Seq(Conn) /\ Head(r) \in Range(r) /\ Head(r) \in Conn
         /\ Range(r) \subseteq Range(s)
         /\ Range(Tail(r)) = Range(r) \ {Head(r)}
<1>1. Len(s) \in Nat /\ i \in Nat \ {0} /\ DOMAIN s = 1 .. Len(s)
  OBVIOUS
<1>2. r \in Seq(Conn) /\ DOMAIN r = 1 .. Len(s) - i + 1 /\ \A j \in 1 .. Len(s) - i + 1 : r[j] = s[i + j - 1]
  BY <1>1, SubSeqProperties
<1>3. /\ Len(r) \in Nat \ {0} /\ DOMAIN r = 1 .. Len(r) /\ DOMAIN Tail(r) = 1 .. Len(r) - 1
      /\ \A j \in 1 .. Len(r) - 1 : Tail(r)[j] = r[j + 1]
      /\ Head(r) = r[1] /\ 1 \in DOMAIN r
  BY <1>2, HeadTailProperties
<1>4. \A j \in DOMAIN r : i + j - 1 \in DOMAIN s
  BY <1>1, <1>2
<1>5. \A j, k \in DOMAIN r : r[j] = r[k] => j = k
  <2> SUFFICES ASSUME NEW j \in DOMAIN r, NEW k \in DOMAIN r, r[j] = r[k] PROVE j = k
    OBVIOUS
  <2>1. i + j - 1 = i + k - 1
    BY <1>2, <1>4 DEF IsInjective
  <2>2. j \in Nat /\ k \in Nat
    BY <1>3
  <2> QED
    BY <1>1, <2>1, <2>2
<1>6. Range(r) \subseteq Range(s)
  BY <1>2, <1>4 DEF Range
<1>7. Range(Tail(r)) \subseteq Range(r) \ {Head(r)}
  <2>1. \A j \in DOMAIN Tail(r) : j + 1 \in DOMAIN r /\ Tail(r)[j] = r[j + 1] /\ j + 1 # 1
    BY <1>3
  <2> QED
    <3> SUFFICES ASSUME NEW j \in DOMAIN Tail(r) PROVE Tail(r)[j] \in Range(r) \ {Head(r)}
      BY DEF Range
    <3>1. r[j + 1] # r[1]
      BY <1>3, <1>5, <2>1
    <3> QED
      BY <1>3, <2>1, <3>1 DEF Range
<1>8. ASSUME NEW j \in DOMAIN r, j # 1 PROVE r[j] \in Range(Tail(r))
  <2>1. j - 1 \in DOMAIN Tail(r) /\ (j - 1) + 1 = j
    BY <1>3, <1>8
  <2>2. Tail(r)[j - 1] = r[j]
    BY <1>3, <2>1
  <2> QED
    BY <2>1, <2>2 DEF Range
<1>9. Range(r) \ {Head(r)} \subseteq Range(Tail(r))
  <2> SUFFICES ASSUME NEW x \in Range(r), x # Head(r) PROVE x \in Range(Tail(r))
    OBVIOUS
  <2>1. PICK j \in DOMAIN r : x = r[j]
    BY DEF Range
  <2> QED
    BY <1>3, <1>8, <2>1
<1>10. Head(r) \in Range(r) /\ Head(r) \in Conn
  BY <1>2, <1>3 DEF Range
<1> QED
  BY <1>2, <1>6, <1>7, <1>9, <1>10

(* No message moves, and no one begins to listen or to be registered.      *)
Aside ==
  /\ UNCHANGED <<queue, got, listen>>
  /\ \A d \in Conn : /\ pc[d] \in Made => pc'[d] \in Made
                     /\ pc'[d] = "listening" => pc[d] = "listening"
                     /\ pc[d] \in {"listening", "ended"} => pc'[d] \in {"listening", "ended"}

(* The steps that move messages, or by which a handler begins to listen.   *)
LEMMA QueueSteps ==
  ASSUME Shapes, [Next]_vars
  PROVE  Aside \/ \E c \in Conn : Send(c) \/ Receive(c) \/ Capture(c)
<1> DEFINE G == Aside \/ \E c \in Conn : Send(c) \/ Receive(c) \/ Capture(c)
<1> USE DEF Shapes, Goes, Aside, Made
<1>1. CASE UNCHANGED vars
  BY <1>1 DEF vars
<1>2. ASSUME NEW c \in Conn, SubscribeName(c) PROVE G
  BY <1>2 DEF SubscribeName
<1>3. ASSUME NEW c \in Conn, SubscribeBare(c) PROVE G
  BY <1>3 DEF SubscribeBare
<1>4. ASSUME NEW c \in Conn, UnsubscribeCheck(c) PROVE G
  BY <1>4 DEF UnsubscribeCheck
<1>5. ASSUME NEW c \in Conn, NEW t \in Topic, Publish(c, t) PROVE G
  BY <1>5 DEF Publish
<1>6. ASSUME NEW c \in Conn, Subscribe(c) PROVE G
  BY <1>6 DEF Subscribe
<1>7. ASSUME NEW c \in Conn, SubscribeAssign(c) PROVE G
  BY <1>7 DEF SubscribeAssign
<1>8. ASSUME NEW c \in Conn, SubscribeReply(c) PROVE G
  BY <1>8 DEF SubscribeReply
<1>9. ASSUME NEW c \in Conn, Capture(c) PROVE G
  BY <1>9
<1>10. ASSUME NEW c \in Conn, Unsubscribe(c) PROVE G
  BY <1>10 DEF Unsubscribe
<1>11. ASSUME NEW c \in Conn, UnsubscribeWipeChan(c) PROVE G
  BY <1>11 DEF UnsubscribeWipeChan
<1>12. ASSUME NEW c \in Conn, UnsubscribeWipeName(c) PROVE G
  BY <1>12 DEF UnsubscribeWipeName
<1>13. ASSUME NEW c \in Conn, Send(c) PROVE G
  BY <1>13
<1>14. ASSUME NEW c \in Conn, PublishEnd(c) PROVE G
  BY <1>14 DEF PublishEnd
<1>15. ASSUME NEW c \in Conn, Receive(c) PROVE G
  BY <1>15
<1>16. ASSUME NEW c \in Conn, ListenEnd(c) PROVE G
  BY <1>16 DEF ListenEnd
<1>17. ASSUME NEW c \in Conn, ReadFails(c) PROVE G
  BY <1>17 DEF ReadFails
<1> QED
  BY <1>1, <1>2, <1>3, <1>4, <1>5, <1>6, <1>7, <1>8, <1>9, <1>10, <1>11,
     <1>12, <1>13, <1>14, <1>15, <1>16, <1>17 DEF Next, Command, Continue

(* A PUBLISH sends its last message, to a channel registered for its       *)
(* topic.                                                                  *)
LEMMA SentTo ==
  ASSUME Shapes, Rounds, Registered, NEW c \in Conn, pc[c] = "publish", pub[c].rest # << >>
  PROVE  /\ pub[c].topic \in Topic /\ pub[c].n = sent[c] /\ sent[c] \in Nat \ {0}
         /\ pub[c].rest \in Seq(Conn) /\ Head(pub[c].rest) \in Conn
         /\ Head(pub[c].rest) \in Range(pub[c].rest)
         /\ Range(pub[c].rest) \subseteq Range(channels[pub[c].topic])
         /\ Range(Tail(pub[c].rest)) = Range(pub[c].rest) \ {Head(pub[c].rest)}
<1> DEFINE subs == channels[pub[c].topic]
<1>1. pub[c].topic \in Topic /\ pub[c].n = sent[c] /\ pub[c].n > 0 /\ sent[c] \in Nat
  BY DEF Rounds, RoundOf, Shapes
<1>2. PICK i \in 1 .. Len(subs) + 1 : pub[c].rest = SubSeq(subs, i, Len(subs))
  BY DEF Rounds, RoundOf
<1>3. subs \in Seq(Conn) /\ IsInjective(subs)
  BY <1>1 DEF Shapes, Name, Registered
<1> HIDE DEF subs
<1>4. /\ pub[c].rest \in Seq(Conn) /\ Head(pub[c].rest) \in Conn
      /\ Head(pub[c].rest) \in Range(pub[c].rest)
      /\ Range(pub[c].rest) \subseteq Range(subs)
      /\ Range(Tail(pub[c].rest)) = Range(pub[c].rest) \ {Head(pub[c].rest)}
  BY <1>2, <1>3, SliceOnce
<1>5. sent[c] \in Nat \ {0}
  BY ONLY <1>1
<1> QED
  BY <1>1, <1>4, <1>5 DEF subs

(* How many messages went past a channel is a number.                      *)
LEMMA PassedNat ==
  ASSUME Shapes, Rounds, Registered, NEW g \in Conn, NEW d \in Conn
  PROVE  Passed(g, d) \in Nat /\ (g \in Range(pub[d].rest) => pc[d] = "publish" /\ sent[d] > 0)
<1>1. sent[d] \in Nat
  BY DEF Shapes
<1>2. CASE g \in Range(pub[d].rest)
  <2>1. pub[d].rest # << >>
    BY <1>2 DEF Range
  <2>2. pc[d] = "publish"
    BY <2>1 DEF Rounds, NoPub
  <2>3. sent[d] \in Nat \ {0}
    BY <2>1, <2>2, SentTo
  <2> QED
    BY <1>2, <2>2, <2>3 DEF Passed
<1>3. CASE g \notin Range(pub[d].rest)
  BY <1>1, <1>3 DEF Passed
<1> QED
  BY <1>2, <1>3

(* It never shrinks.                                                       *)
LEMMA PassedGrows ==
  ASSUME Shapes, Rounds, Registered, [Next]_vars, NEW g \in Conn, NEW d \in Conn
  PROVE  Passed(g, d) <= Passed(g, d)'
<1>1. Passed(g, d) \in Nat /\ sent[d] \in Nat
  BY PassedNat DEF Shapes
<1>2. ASSUME Passed(g, d)' = Passed(g, d) PROVE Passed(g, d) <= Passed(g, d)'
  BY <1>1, <1>2
<1>3. CASE Apart
  BY <1>2, <1>3 DEF Apart, Passed
<1>4. ASSUME NEW c \in Conn, NEW t \in Topic, Publish(c, t) PROVE Passed(g, d) <= Passed(g, d)'
  <2>1. CASE d # c
    BY <1>2, <1>4, <2>1 DEF Publish, Passed, Shapes
  <2>2. CASE d = c
    <3>1. pc[c] = "ready" /\ sent'[c] = sent[c] + 1
      BY <1>4 DEF Publish, Goes, Shapes
    <3>2. pub[c].rest = << >>
      BY <3>1 DEF Rounds, NoPub
    <3>3. Passed(g, d) = sent[c]
      BY <2>2, <3>2 DEF Passed, Range
    <3>4. Passed(g, d)' = sent[c] + 1 \/ Passed(g, d)' = (sent[c] + 1) - 1
      BY <2>2, <3>1 DEF Passed
    <3> QED
      BY ONLY <1>1, <2>2, <3>3, <3>4
  <2> QED
    BY <2>1, <2>2
<1>5. ASSUME NEW c \in Conn, Send(c) PROVE Passed(g, d) <= Passed(g, d)'
  <2>1. /\ sent' = sent /\ pc[c] = "publish" /\ pub[c].rest # << >>
        /\ pub' = [pub EXCEPT ![c] = [topic |-> pub[c].topic, n |-> pub[c].n, rest |-> Tail(pub[c].rest)]]
    BY <1>5 DEF Send
  <2>2. pub'[c].rest = Tail(pub[c].rest) /\ \A e \in Conn \ {c} : pub'[e] = pub[e]
    BY <2>1 DEF Shapes
  <2>3. Range(Tail(pub[c].rest)) \subseteq Range(pub[c].rest)
    BY <2>1, SentTo
  <2>4. Range(pub'[d].rest) \subseteq Range(pub[d].rest)
    BY <2>2, <2>3
  <2>5. Passed(g, d)' = Passed(g, d) \/ (Passed(g, d) = sent[d] - 1 /\ Passed(g, d)' = sent[d])
    BY <2>1, <2>4 DEF Passed
  <2> QED
    BY ONLY <1>1, <2>5
<1>6. ASSUME NEW c \in Conn, PublishEnd(c) PROVE Passed(g, d) <= Passed(g, d)'
  <2>1. sent' = sent /\ pub[c].rest = << >> /\ pub' = [pub EXCEPT ![c] = NoPub]
    BY <1>6 DEF PublishEnd
  <2>2. pub'[c].rest = << >> /\ \A e \in Conn \ {c} : pub'[e] = pub[e]
    BY <2>1 DEF NoPub, Shapes
  <2>3. pub'[d].rest = pub[d].rest
    BY <2>1, <2>2
  <2> QED
    BY <1>2, <2>1, <2>3 DEF Passed
<1>7. ASSUME NEW c \in Conn, Subscribe(c) \/ Unsubscribe(c) PROVE Passed(g, d) <= Passed(g, d)'
  BY <1>2, <1>7 DEF Subscribe, Unsubscribe, Passed
<1> QED
  BY <1>3, <1>4, <1>5, <1>6, <1>7, RoundSteps

(* So a sequence within what went past a channel stays so.                 *)
LEMMA WithinKept ==
  ASSUME Shapes, Rounds, Registered, [Next]_vars, NEW g \in Conn,
         NEW R, \A r \in R : r.n \in Nat,
         NEW s \in Seq(R), Within(s, g)
  PROVE  \A i \in DOMAIN s, d \in Conn : s[i].from = d => s[i].n <= Passed(g, d)'
<1> SUFFICES ASSUME NEW i \in DOMAIN s, NEW d \in Conn, s[i].from = d
             PROVE  s[i].n <= Passed(g, d)'
  OBVIOUS
<1>1. s[i].n \in Nat
  OBVIOUS
<1>2. s[i].n <= Passed(g, d)
  BY DEF Within
<1>3. Passed(g, d) \in Nat /\ Passed(g, d) <= Passed(g, d)'
  BY PassedNat, PassedGrows
<1>4. Passed(g, d)' \in Int
  <2>1. sent'[d] \in Nat
    BY ShapesKept DEF Shapes
  <2> QED
    BY <2>1 DEF Passed
<1> QED
  BY ONLY <1>1, <1>2, <1>3, <1>4

(* The fields of messages.                                                 *)
LEMMA Typed ==
  /\ \A r \in Sent : r.from \in Conn /\ r.n \in Nat /\ r.topic \in Topic
  /\ \A r \in Ids : r.from \in Conn /\ r.n \in Nat
BY DEF Sent, Ids

(* Where a sequence stays, what is within its channel stays so.            *)
LEMMA StillQueues ==
  ASSUME Shapes, Rounds, Registered, Queues, [Next]_vars, NEW g \in Conn
  PROVE  /\ \A i \in DOMAIN queue[g], d \in Conn :
              queue[g][i].from = d => queue[g][i].n <= Passed(g, d)'
         /\ \A c \in Conn : Within(got[c], g) =>
              \A i \in DOMAIN got[c], d \in Conn :
                got[c][i].from = d => got[c][i].n <= Passed(g, d)'
<1>1. queue[g] \in Seq(Sent) /\ Within(queue[g], g) /\ \A c \in Conn : got[c] \in Seq(Ids)
  BY DEF Queues
<1>2. (\A r \in Sent : r.n \in Nat) /\ \A r \in Ids : r.n \in Nat
  BY Typed
<1>3. \A i \in DOMAIN queue[g], d \in Conn :
        queue[g][i].from = d => queue[g][i].n <= Passed(g, d)'
  BY <1>1, <1>2, WithinKept
<1>4. ASSUME NEW c \in Conn, Within(got[c], g)
      PROVE  \A i \in DOMAIN got[c], d \in Conn :
               got[c][i].from = d => got[c][i].n <= Passed(g, d)'
  BY <1>1, <1>2, <1>4, WithinKept
<1> QED
  BY <1>3, <1>4

(* Steps that move no message keep the order.                              *)
LEMMA AsideKeeps == ASSUME Shapes, Rounds, Registered, Queues, [Next]_vars, Aside PROVE Queues'
<1>1. queue' = queue /\ got' = got /\ listen' = listen
  BY DEF Aside
<1>2. \A g \in Conn : InOrder(queue'[g]) /\ Within(queue[g], g)'
  BY <1>1, StillQueues DEF Queues, Within
<1>3. \A c \in Conn : pc'[c] = "listening" =>
        Within(got[c], listen[c])' /\ Before(got'[c], queue'[listen'[c]])
  <2> SUFFICES ASSUME NEW c \in Conn, pc'[c] = "listening"
               PROVE  Within(got[c], listen[c])' /\ Before(got'[c], queue'[listen'[c]])
    OBVIOUS
  <2>1. pc[c] = "listening" /\ listen[c] \in Conn
    BY DEF Aside, Shapes
  <2> QED
    BY <1>1, <2>1, StillQueues DEF Queues, Within
<1>4. \A c \in Conn : /\ pc'[c] \notin Made => queue'[c] = << >>
                      /\ pc'[c] \notin {"listening", "ended"} => got'[c] = << >>
  BY <1>1 DEF Aside, Queues
<1> QED
  BY <1>1, <1>2, <1>3, <1>4 DEF Queues

(* A handler that begins to listen has got nothing.                        *)
LEMMA CaptureKeeps ==
  ASSUME Shapes, Rounds, Registered, Queues, [Next]_vars, NEW c \in Conn, Capture(c)
  PROVE  Queues'
<1>1. queue' = queue /\ got' = got /\ pc[c] = "replied"
  BY DEF Capture, Goes
<1>2. /\ \A d \in Conn \ {c} : listen'[d] = listen[d] /\ pc'[d] = pc[d]
      /\ pc'[c] \in {"listening", "ended"}
  <2>1. \/ listen' = listen
        \/ listen' = [listen EXCEPT ![c] = subChan]
    BY DEF Capture
  <2>2. pc' = [pc EXCEPT ![c] = "listening"] \/ pc' = [pc EXCEPT ![c] = "ended"]
    BY DEF Capture, Goes
  <2> QED
    BY <2>1, <2>2 DEF Shapes
<1>3. got[c] = << >>
  BY <1>1 DEF Queues
<1>4. \A g \in Conn : InOrder(queue'[g]) /\ Within(queue[g], g)'
  BY <1>1, StillQueues DEF Queues, Within
<1>5. ASSUME NEW d \in Conn, pc'[d] = "listening"
      PROVE  Within(got[d], listen[d])' /\ Before(got'[d], queue'[listen'[d]])
  <2>1. CASE d = c
    BY <1>1, <1>3, <2>1 DEF Within, Before
  <2>2. CASE d # c
    <3>1. pc[d] = "listening" /\ listen[d] \in Conn /\ listen'[d] = listen[d]
      BY <1>2, <1>5, <2>2 DEF Shapes
    <3> QED
      BY <1>1, <3>1, StillQueues DEF Queues, Within
  <2> QED
    BY <2>1, <2>2
<1>6. \A d \in Conn : /\ pc'[d] \notin Made => queue'[d] = << >>
                      /\ pc'[d] \notin {"listening", "ended"} => got'[d] = << >>
  BY <1>1, <1>2 DEF Queues, Made
<1> QED
  BY <1>1, <1>4, <1>5, <1>6 DEF Queues

(* A message sent is later than all that went past its channel.            *)
LEMMA SendKeeps ==
  ASSUME Shapes, Rounds, Registered, Queues, [Next]_vars, NEW c \in Conn, Send(c)
  PROVE  Queues'
<1>0. pc[c] = "publish" /\ pub[c].rest # << >>
  BY DEF Send
<1>g. PICK g \in Conn : g = Head(pub[c].rest)
  BY <1>0, SentTo
<1>m. PICK m \in Sent : m = Message(c)
  BY <1>0, SentTo DEF Message, Sent
<1>1. /\ pc' = pc /\ got' = got /\ listen' = listen /\ sent' = sent
      /\ pc[c] = "publish" /\ pub[c].rest # << >>
      /\ pub' = [pub EXCEPT ![c] = [topic |-> pub[c].topic, n |-> pub[c].n, rest |-> Tail(pub[c].rest)]]
      /\ queue' = IF Len(queue[g]) < Buffer
                  THEN [queue EXCEPT ![g] = Append(@, m)] ELSE queue
  BY <1>g, <1>m DEF Send, shared, registry
<1>2. /\ pub[c].topic \in Topic /\ pub[c].n = sent[c] /\ sent[c] \in Nat \ {0} /\ g \in Conn
      /\ g \in Range(pub[c].rest) /\ g \in Range(channels[pub[c].topic])
      /\ g \notin Range(Tail(pub[c].rest))
  BY <1>1, <1>g, SentTo
<1>3. m.from = c /\ m.n = sent[c]
  BY <1>2, <1>m DEF Message
<1>4. pc[g] \in Made
  BY <1>2 DEF Registered, Name
<1>5. Passed(g, c) = sent[c] - 1 /\ Passed(g, c)' = sent[c]
  <2>1. pub'[c].rest = Tail(pub[c].rest)
    BY <1>1 DEF Shapes
  <2> QED
    BY <1>1, <1>2, <2>1 DEF Passed
<1>6. /\ queue[g] \in Seq(Sent) /\ InOrder(queue[g]) /\ Within(queue[g], g)
      /\ queue \in [Conn -> Seq(Sent)] /\ got \in [Conn -> Seq(Ids)]
  BY <1>2 DEF Queues
<1>7. ASSUME NEW n \in Nat, n <= Passed(g, c) PROVE n < m.n
  BY ONLY <1>2, <1>3, <1>5, <1>7
<1>8. CASE queue' = queue
  <2>1. \A d \in Conn : InOrder(queue'[d]) /\ Within(queue[d], d)'
    BY <1>8, StillQueues DEF Queues, Within
  <2>2. \A d \in Conn : pc'[d] = "listening" =>
          Within(got[d], listen[d])' /\ Before(got'[d], queue'[listen'[d]])
    <3> SUFFICES ASSUME NEW d \in Conn, pc'[d] = "listening"
                 PROVE  Within(got[d], listen[d])' /\ Before(got'[d], queue'[listen'[d]])
      OBVIOUS
    <3>1. pc[d] = "listening" /\ listen[d] \in Conn
      BY <1>1 DEF Shapes
    <3> QED
      BY <1>1, <1>8, <3>1, StillQueues DEF Queues, Within
  <2> QED
    BY <1>1, <1>8, <2>1, <2>2 DEF Queues
<1>9. ASSUME Len(queue[g]) < Buffer, queue' = [queue EXCEPT ![g] = Append(@, m)] PROVE Queues'
  <2>0. PICK s \in Seq(Sent) : s = queue[g]
    BY <1>6
  <2> DEFINE t == Append(s, m)
  <2>1. /\ s \in Seq(Sent) /\ Len(s) \in Nat /\ Len(s) < Buffer /\ Buffer \in Nat
    BY <1>9, <2>0, PubsubAssumption DEF PubsubAssumption
  <2>2. /\ t \in Seq(Sent) /\ Len(t) = Len(s) + 1
        /\ DOMAIN s = 1 .. Len(s) /\ DOMAIN t = 1 .. Len(s) + 1
        /\ t[Len(s) + 1] = m /\ \A i \in 1 .. Len(s) : t[i] = s[i]
    BY <1>3, <2>1
  <2>3. queue'[g] = t /\ \A d \in Conn \ {g} : queue'[d] = queue[d]
    BY <1>6, <1>9, <2>0
  <2>4. queue' \in [Conn -> Seq(Sent)]
    BY <1>6, <1>9, <2>0, <2>2
  <2>5. InOrder(s) /\ Within(s, g)
    BY <1>6, <2>0
  <2>6. InOrder(t)
    <3>1. \A i \in DOMAIN s : s[i].from = m.from => s[i].n < m.n
      BY <1>3, <1>7, <2>1, <2>5, Typed DEF Within
    <3> QED
      BY <1>3, <2>1, <2>5, <3>1, Typed, OrderAppended
  <2> HIDE DEF t
  <2>7. Len(t) <= Buffer
    BY ONLY <2>1, <2>2
  <2>8. \A i \in DOMAIN t, d \in Conn : t[i].from = d => t[i].n <= Passed(g, d)'
    <3> SUFFICES ASSUME NEW i \in DOMAIN t, NEW d \in Conn, t[i].from = d
                 PROVE  t[i].n <= Passed(g, d)'
      OBVIOUS
    <3>1. CASE i \in 1 .. Len(s)
      BY <2>0, <2>2, <3>1, StillQueues
    <3>2. CASE i = Len(s) + 1
      <4>1. t[i].n = sent[c] /\ d = c
        BY <1>3, <2>2, <3>2
      <4>2. sent[c] <= sent[c]
        BY ONLY <1>2
      <4> QED
        BY <1>5, <4>1, <4>2
    <3> QED
      BY <2>1, <2>2, <3>1, <3>2
  <2>9. ASSUME NEW d \in Conn
        PROVE  Len(queue'[d]) <= Buffer /\ InOrder(queue'[d]) /\ Within(queue[d], d)'
    <3>1. CASE d = g
      BY <2>3, <2>6, <2>7, <2>8, <3>1 DEF Within
    <3>2. CASE d # g
      BY <2>3, <3>2, StillQueues DEF Queues, Within
    <3> QED
      BY <3>1, <3>2
  <2>10. ASSUME NEW d \in Conn, pc'[d] = "listening"
         PROVE  Within(got[d], listen[d])' /\ Before(got'[d], queue'[listen'[d]])
    <3>1. /\ pc[d] = "listening" /\ listen[d] \in Conn /\ got[d] \in Seq(Ids)
          /\ Within(got[d], listen[d]) /\ Before(got[d], queue[listen[d]])
      BY <1>1, <1>6, <2>10 DEF Shapes, Queues
    <3>2. Within(got[d], listen[d])'
      BY <1>1, <3>1, StillQueues DEF Within
    <3>3. CASE listen[d] # g
      BY <1>1, <2>3, <3>1, <3>2, <3>3
    <3>4. CASE listen[d] = g
      <4>1. ASSUME NEW i \in DOMAIN got[d], NEW j \in DOMAIN t, got[d][i].from = t[j].from
            PROVE  got[d][i].n < t[j].n
        <5>1. CASE j \in 1 .. Len(s)
          BY <2>2, <3>1, <3>4, <2>0, <4>1, <5>1 DEF Before
        <5>2. CASE j = Len(s) + 1
          <6>1. got[d][i].n \in Nat /\ got[d][i].from = c
            BY <1>3, <2>2, <3>1, <4>1, <5>2, Typed
          <6>2. got[d][i].n <= Passed(g, c)
            BY <3>1, <3>4, <6>1 DEF Within
          <6> QED
            BY <1>7, <2>2, <5>2, <6>1, <6>2
        <5> QED
          BY <2>1, <2>2, <5>1, <5>2
      <4>2. Before(got[d], t)
        BY <4>1 DEF Before
      <4>3. got'[d] = got[d] /\ queue'[listen'[d]] = t
        BY <1>1, <2>3, <3>4
      <4> QED
        BY <3>2, <4>2, <4>3
    <3> QED
      BY <3>3, <3>4
  <2>11. \A d \in Conn : /\ pc'[d] \notin Made => queue'[d] = << >>
                         /\ pc'[d] \notin {"listening", "ended"} => got'[d] = << >>
    BY <1>1, <1>4, <2>3 DEF Queues
  <2> QED
    BY <1>1, <1>6, <2>4, <2>9, <2>10, <2>11 DEF Queues
<1> QED
  BY <1>1, <1>8, <1>9

(* A message taken is later than what any listener of the channel got, and *)
(* earlier than what is left.                                              *)
LEMMA ReceiveKeeps ==
  ASSUME Shapes, Rounds, Registered, Queues, [Next]_vars, NEW c \in Conn, Receive(c)
  PROVE  Queues'
<1>1. /\ pc[c] = "listening" /\ queue[listen[c]] # << >> /\ listen[c] \in Conn
      /\ listen' = listen /\ queue' = [queue EXCEPT ![listen[c]] = Tail(@)]
  BY DEF Receive, shared, registry, Shapes
<1>g. PICK g \in Conn : g = listen[c]
  BY <1>1
<1>2. queue[g] \in Seq(Sent) /\ got[c] \in Seq(Ids) /\ InOrder(queue[g]) /\ InOrder(got[c])
      /\ Within(queue[g], g) /\ Within(got[c], g) /\ Before(got[c], queue[g])
  BY <1>1, <1>g DEF Queues
<1>s. PICK s \in Seq(Sent) : s = queue[g] /\ s # << >>
  BY <1>1, <1>2, <1>g
<1> DEFINE t == Tail(s)
<1>3. /\ InOrder(t) /\ \A i \in DOMAIN t : i + 1 \in DOMAIN s /\ t[i] = s[i + 1]
      /\ \A i \in DOMAIN t : t[i].from = Head(s).from => Head(s).n < t[i].n
      /\ 1 \in DOMAIN s /\ Head(s) = s[1]
  <2>1. \A r \in Sent : r.from \in Conn /\ r.n \in Nat
    BY Typed
  <2> QED
    BY <1>2, <1>s, <2>1, OrderTail
<1>4. t \in Seq(Sent) /\ Len(t) <= Buffer
  <2>1. Len(s) \in Nat /\ Len(s) <= Buffer /\ Buffer \in Nat /\ t \in Seq(Sent) /\ Len(t) = Len(s) - 1
    BY <1>s, HeadTailProperties, PubsubAssumption DEF Queues, PubsubAssumption
  <2> QED
    BY ONLY <2>1
<1>5. queue'[g] = t /\ \A d \in Conn \ {g} : queue'[d] = queue[d]
  BY <1>1, <1>g, <1>s DEF Queues
<1>6. queue' \in [Conn -> Seq(Sent)]
  BY <1>1, <1>g, <1>s, <1>4 DEF Queues
<1> HIDE DEF t
<1>7. \A i \in DOMAIN t, d \in Conn : t[i].from = d => t[i].n <= Passed(g, d)'
  BY <1>3, <1>s, StillQueues
<1>8. PICK x \in Ids : x = Id(Head(s)) /\ x.from = Head(s).from /\ x.n = Head(s).n
  <2>1. Head(s) \in Sent
    BY <1>3
  <2>2. Head(s).from \in Conn /\ Head(s).n \in Nat \ {0}
    BY <2>1 DEF Sent
  <2>3. Id(Head(s)) = [from |-> Head(s).from, n |-> Head(s).n]
    BY DEF Id
  <2> QED
    BY <2>2, <2>3 DEF Ids
<1>9. \/ got' = [got EXCEPT ![c] = Append(got[c], x)] /\ pc' = pc
      \/ got' = got /\ pc' = [pc EXCEPT ![c] = "ended"]
  BY <1>8, <1>g, <1>s DEF Receive, Goes
<1>10. ASSUME NEW d \in Conn
       PROVE  Len(queue'[d]) <= Buffer /\ InOrder(queue'[d]) /\ Within(queue[d], d)'
  <2>1. CASE d = g
    BY <1>3, <1>4, <1>5, <1>7, <2>1 DEF Within
  <2>2. CASE d # g
    BY <1>5, <2>2, StillQueues DEF Queues, Within
  <2> QED
    BY <2>1, <2>2
<1>11. \A d \in Conn : pc'[d] \notin Made => queue'[d] = << >>
  <2>1. \A d \in Conn : pc'[d] \notin Made => pc[d] \notin Made
    BY <1>9 DEF Made, Shapes
  <2>2. queue[g] # << >>
    BY <1>1, <1>g
  <2> QED
    BY <1>5, <2>1, <2>2 DEF Queues
(* What an earlier listener got comes before what is left.                 *)
<1>12. ASSUME NEW d \in Conn, pc[d] = "listening"
       PROVE  Before(got[d], queue'[listen[d]])
  <2>1. Before(got[d], queue[listen[d]]) /\ listen[d] \in Conn
    BY <1>12 DEF Queues, Shapes
  <2>2. CASE listen[d] = g
    <3>1. Before(got[d], t)
      BY <1>3, <1>s, <2>1, <2>2 DEF Before
    <3> QED
      BY <1>5, <2>2, <3>1
  <2>3. CASE listen[d] # g
    BY <1>5, <2>1, <2>3
  <2> QED
    BY <2>2, <2>3
<1>13. CASE got' = got /\ pc' = [pc EXCEPT ![c] = "ended"]
  <2>1. ASSUME NEW d \in Conn, pc'[d] = "listening"
        PROVE  Within(got[d], listen[d])' /\ Before(got'[d], queue'[listen'[d]])
    <3>1. pc[d] = "listening" /\ listen[d] \in Conn /\ Within(got[d], listen[d])
      BY <1>13, <2>1 DEF Shapes, Queues
    <3>2. Within(got[d], listen[d])'
      BY <1>1, <1>13, <3>1, StillQueues DEF Within
    <3> QED
      BY <1>1, <1>12, <1>13, <3>1, <3>2
  <2>2. \A d \in Conn : pc'[d] \notin {"listening", "ended"} => got'[d] = << >>
    BY <1>13 DEF Queues, Shapes
  <2> QED
    BY <1>6, <1>10, <1>11, <1>13, <2>1, <2>2 DEF Queues
<1>14. CASE got' = [got EXCEPT ![c] = Append(got[c], x)] /\ pc' = pc
  <2>0. PICK r \in Seq(Ids) : r = got[c]
    BY <1>2
  <2> DEFINE u == Append(r, x)
  <2>1. /\ u \in Seq(Ids) /\ Len(r) \in Nat
        /\ DOMAIN r = 1 .. Len(r) /\ DOMAIN u = 1 .. Len(r) + 1
        /\ u[Len(r) + 1] = x /\ \A i \in 1 .. Len(r) : u[i] = r[i]
    OBVIOUS
  <2>2. InOrder(u)
    <3>1. \A i \in DOMAIN r : r[i].from = x.from => r[i].n < x.n
      BY <1>2, <1>3, <1>8, <1>s, <2>0 DEF Before
    <3>2. \A y \in Ids : y.from \in Conn /\ y.n \in Nat
      BY Typed
    <3> QED
      BY <1>2, <2>0, <3>1, <3>2, OrderAppended
  <2> HIDE DEF u
  <2>3. got'[c] = u /\ got' \in [Conn -> Seq(Ids)] /\ \A d \in Conn \ {c} : got'[d] = got[d]
    BY <1>14, <2>0, <2>1 DEF Queues, u
  <2>4. \A i \in DOMAIN u, d \in Conn : u[i].from = d => u[i].n <= Passed(g, d)'
    <3> SUFFICES ASSUME NEW i \in DOMAIN u, NEW d \in Conn, u[i].from = d
                 PROVE  u[i].n <= Passed(g, d)'
      OBVIOUS
    <3>1. CASE i \in 1 .. Len(r)
      BY <1>2, <2>0, <2>1, <3>1, StillQueues
    <3>2. CASE i = Len(r) + 1
      BY <1>3, <1>8, <1>s, <2>1, <3>2, StillQueues
    <3> QED
      BY <2>1, <3>1, <3>2
  <2>5. Before(u, t)
    <3> SUFFICES ASSUME NEW i \in DOMAIN u, NEW j \in DOMAIN t, u[i].from = t[j].from
                 PROVE  u[i].n < t[j].n
      BY DEF Before
    <3>1. CASE i \in 1 .. Len(r)
      <4>1. Before(r, t)
        BY <1>2, <1>3, <1>s, <2>0 DEF Before
      <4> QED
        BY <2>1, <3>1, <4>1 DEF Before
    <3>2. CASE i = Len(r) + 1
      BY <1>3, <1>8, <2>1, <3>2
    <3> QED
      BY <2>1, <3>1, <3>2
  <2>6. ASSUME NEW d \in Conn, pc'[d] = "listening"
        PROVE  Within(got[d], listen[d])' /\ Before(got'[d], queue'[listen'[d]])
    <3>1. pc[d] = "listening" /\ listen[d] \in Conn /\ Within(got[d], listen[d])
      BY <1>14, <2>6 DEF Shapes, Queues
    <3>2. CASE d = c
      BY <1>1, <1>5, <1>g, <2>3, <2>4, <2>5, <3>2 DEF Within
    <3>3. CASE d # c
      <4>1. Within(got[d], listen[d])'
        BY <1>1, <2>3, <3>1, <3>3, StillQueues DEF Within
      <4> QED
        BY <1>1, <1>12, <2>3, <3>1, <3>3, <4>1
    <3> QED
      BY <3>2, <3>3
  <2>7. \A d \in Conn : InOrder(got'[d])
    BY <2>2, <2>3 DEF Queues
  <2>8. \A d \in Conn : pc'[d] \notin {"listening", "ended"} => got'[d] = << >>
    BY <1>1, <1>14, <2>3 DEF Queues
  <2> QED
    BY <1>6, <1>10, <1>11, <2>3, <2>6, <2>7, <2>8 DEF Queues
<1> QED
  BY <1>9, <1>13, <1>14

(* Every step keeps the messages in order.                                 *)
LEMMA QueuesKept ==
  ASSUME Shapes, Rounds, Registered, Queues, [Next]_vars
  PROVE  Queues'
BY QueueSteps, AsideKeeps, CaptureKeeps, SendKeeps, ReceiveKeeps

(* A SUBSCRIBE that is alone on subName and subChan finds there what it    *)
(* has written.                                                            *)
Turn(c) ==
  alone[c] =>
    /\ pc[c] \in {"named"} \cup Made
    /\ Busy(c) => \A d \in Conn \ {c} : ~Busy(d)
    /\ pc[c] \in {"named", "made", "assigned"} => subName = Wants[c]
    /\ pc[c] \in {"assigned", "replied"} => subChan = c
    /\ pc[c] \in {"replied", "listening"} => name[c] = Wants[c]
    /\ pc[c] = "listening" => listen[c] = c

(* The channel of c is registered under its topic, or was.                 *)
Placed(c) == c \in closed \/ c \in Range(channels[Wants[c]])

(* What OwnSubscription needs of a handler on its way to listening.        *)
Own ==
  \A c \in Conn :
    /\ Turn(c)
    /\ alone[c] /\ pc[c] \in Made => Placed(c)
    /\ alone[c] => \A i \in DOMAIN queue[c] : queue[c][i].topic = Wants[c]

(* Every step leaves to a SUBSCRIBE that is alone what it has written.     *)
LEMMA TurnsKept ==
  ASSUME Shapes, [Next]_vars, \A d \in Conn : Turn(d)
  PROVE  \A d \in Conn : Turn(d)'
<1> USE DEF Shapes, Goes, Turn, Busy, shared, registry, Made
<1>1. CASE UNCHANGED vars
  BY <1>1 DEF vars
<1>2. ASSUME NEW c \in Conn, SubscribeName(c) PROVE \A d \in Conn : Turn(d)'
  <2>1. pc[c] = "ready" /\ pc'[c] = "named" /\ \A d \in Conn \ {c} : pc'[d] = pc[d]
    BY <1>2 DEF SubscribeName
  <2>2. /\ UNCHANGED <<name, listen>> /\ subName' = Wants[c]
        /\ alone'[c] => \A d \in Conn \ {c} : ~Busy(d)
        /\ \A d \in Conn \ {c} : alone'[d] => alone[d] /\ ~Busy(d)
    BY <1>2, AloneTyped DEF SubscribeName
  <2>3. Turn(c)'
    BY <2>1, <2>2
  <2>4. ASSUME NEW e \in Conn \ {c} PROVE Turn(e)'
    BY <2>1, <2>2
  <2> QED
    BY <2>3, <2>4
<1>3. ASSUME NEW c \in Conn, SubscribeBare(c) PROVE \A d \in Conn : Turn(d)'
  <2>1. pc[c] = "ready" /\ pc'[c] = "replied" /\ \A d \in Conn \ {c} : pc'[d] = pc[d]
    BY <1>3 DEF SubscribeBare
  <2>2. /\ UNCHANGED <<shared, listen>> /\ ~alone'[c]
        /\ \A d \in Conn \ {c} : name'[d] = name[d] /\ (alone'[d] => alone[d] /\ ~Busy(d))
    BY <1>3, AloneTyped DEF SubscribeBare
  <2>3. Turn(c)'
    BY <2>2
  <2>4. ASSUME NEW e \in Conn \ {c} PROVE Turn(e)'
    BY <2>1, <2>2
  <2> QED
    BY <2>3, <2>4
<1>4. ASSUME NEW c \in Conn, UnsubscribeCheck(c) PROVE \A d \in Conn : Turn(d)'
  <2>1. pc[c] = "ready" /\ pc'[c] = "leaving" /\ \A d \in Conn \ {c} : pc'[d] = pc[d]
    BY <1>4 DEF UnsubscribeCheck
  <2>2. /\ UNCHANGED <<shared, listen>> /\ ~alone'[c]
        /\ \A d \in Conn \ {c} : name'[d] = name[d] /\ (alone'[d] => alone[d] /\ ~Busy(d))
    BY <1>4, AloneTyped DEF UnsubscribeCheck
  <2>3. Turn(c)'
    BY <2>2
  <2>4. ASSUME NEW e \in Conn \ {c} PROVE Turn(e)'
    BY <2>1, <2>2
  <2> QED
    BY <2>3, <2>4
<1>5. ASSUME NEW c \in Conn, NEW t \in Topic, Publish(c, t) PROVE \A d \in Conn : Turn(d)'
  <2>1. /\ pc[c] = "ready" /\ pc'[c] \in {"ready", "publish"} /\ \A d \in Conn \ {c} : pc'[d] = pc[d]
        /\ UNCHANGED <<shared, name, listen, alone>>
    BY <1>5 DEF Publish
  <2>3. Turn(c)'
    BY <2>1
  <2>4. ASSUME NEW e \in Conn \ {c} PROVE Turn(e)'
    BY <2>1
  <2> QED
    BY <2>3, <2>4
<1>6. ASSUME NEW c \in Conn, Subscribe(c) PROVE \A d \in Conn : Turn(d)'
  BY <1>6 DEF Subscribe
<1>7. ASSUME NEW c \in Conn, SubscribeAssign(c) PROVE \A d \in Conn : Turn(d)'
  BY <1>7 DEF SubscribeAssign
<1>8. ASSUME NEW c \in Conn, SubscribeReply(c) PROVE \A d \in Conn : Turn(d)'
  BY <1>8 DEF SubscribeReply
<1>9. ASSUME NEW c \in Conn, Capture(c) PROVE \A d \in Conn : Turn(d)'
  <2>1. /\ pc[c] = "replied" /\ pc'[c] \in {"listening", "ended"}
        /\ (pc'[c] = "listening" => listen'[c] = subChan)
        /\ \A d \in Conn \ {c} : pc'[d] = pc[d] /\ listen'[d] = listen[d]
        /\ UNCHANGED <<shared, name, alone>>
    BY <1>9 DEF Capture
  <2>3. Turn(c)'
    BY <2>1
  <2>4. ASSUME NEW e \in Conn \ {c} PROVE Turn(e)'
    BY <2>1
  <2> QED
    BY <2>3, <2>4
<1>10. ASSUME NEW c \in Conn, Unsubscribe(c) PROVE \A d \in Conn : Turn(d)'
  BY <1>10 DEF Unsubscribe
<1>11. ASSUME NEW c \in Conn, UnsubscribeWipeChan(c) PROVE \A d \in Conn : Turn(d)'
  BY <1>11 DEF UnsubscribeWipeChan
<1>12. ASSUME NEW c \in Conn, UnsubscribeWipeName(c) PROVE \A d \in Conn : Turn(d)'
  BY <1>12 DEF UnsubscribeWipeName
<1>13. ASSUME NEW c \in Conn, Send(c) PROVE \A d \in Conn : Turn(d)'
  BY <1>13 DEF Send
<1>14. ASSUME NEW c \in Conn, PublishEnd(c) PROVE \A d \in Conn : Turn(d)'
  BY <1>14 DEF PublishEnd
<1>15. ASSUME NEW c \in Conn, Receive(c) PROVE \A d \in Conn : Turn(d)'
  <2>1. /\ pc[c] = "listening" /\ pc'[c] \in {"listening", "ended"}
        /\ \A d \in Conn \ {c} : pc'[d] = pc[d]
        /\ UNCHANGED <<shared, name, listen, alone>>
    BY <1>15 DEF Receive
  <2>3. Turn(c)'
    BY <2>1
  <2>4. ASSUME NEW e \in Conn \ {c} PROVE Turn(e)'
    BY <2>1
  <2> QED
    BY <2>3, <2>4
<1>16. ASSUME NEW c \in Conn, ListenEnd(c) PROVE \A d \in Conn : Turn(d)'
  BY <1>16 DEF ListenEnd
<1>17. ASSUME NEW c \in Conn, ReadFails(c) PROVE \A d \in Conn : Turn(d)'
  BY <1>17 DEF ReadFails
<1> QED
  BY <1>1, <1>2, <1>3, <1>4, <1>5, <1>6, <1>7, <1>8, <1>9, <1>10, <1>11,
     <1>12, <1>13, <1>14, <1>15, <1>16, <1>17 DEF Next, Command, Continue

(* Who is alone and registered was so before.                              *)
Settled ==
  /\ UNCHANGED <<channels, closed>>
  /\ \A d \in Conn : alone'[d] /\ pc'[d] \in Made => alone[d] /\ pc[d] \in Made

(* The steps that touch the registry, and who is alone.                    *)
LEMMA SettledSteps ==
  ASSUME Shapes, [Next]_vars, \A d \in Conn : Turn(d)
  PROVE  Settled \/ \E c \in Conn : Subscribe(c) \/ Unsubscribe(c)
<1> DEFINE G == Settled \/ \E c \in Conn : Subscribe(c) \/ Unsubscribe(c)
<1> USE DEF Shapes, Goes, registry, Settled, Made
<1>1. CASE UNCHANGED vars
  BY <1>1 DEF vars
<1>2. ASSUME NEW c \in Conn, SubscribeName(c) PROVE G
  <2>1. /\ pc[c] = "ready" /\ pc'[c] = "named" /\ \A d \in Conn \ {c} : pc'[d] = pc[d]
        /\ UNCHANGED <<channels, closed, queue>>
    BY <1>2 DEF SubscribeName
  <2>2. /\ pc'[c] \in Made => ~alone'[c]
        /\ \A d \in Conn \ {c} : alone'[d] => alone[d]
    BY <1>2, <2>1, AloneTyped DEF SubscribeName
  <2> QED
    BY <2>1, <2>2
<1>3. ASSUME NEW c \in Conn, SubscribeBare(c) PROVE G
  <2>1. /\ pc[c] = "ready" /\ pc'[c] = "replied" /\ \A d \in Conn \ {c} : pc'[d] = pc[d]
        /\ UNCHANGED <<channels, closed, queue>>
    BY <1>3 DEF SubscribeBare
  <2>2. /\ pc'[c] \in Made => ~alone'[c]
        /\ \A d \in Conn \ {c} : alone'[d] => alone[d]
    BY <1>3, <2>1, AloneTyped DEF SubscribeBare
  <2> QED
    BY <2>1, <2>2
<1>4. ASSUME NEW c \in Conn, UnsubscribeCheck(c) PROVE G
  <2>1. /\ pc[c] = "ready" /\ pc'[c] = "leaving" /\ \A d \in Conn \ {c} : pc'[d] = pc[d]
        /\ UNCHANGED <<channels, closed, queue>>
    BY <1>4 DEF UnsubscribeCheck
  <2>2. /\ pc'[c] \in Made => ~alone'[c]
        /\ \A d \in Conn \ {c} : alone'[d] => alone[d]
    BY <1>4, <2>1, AloneTyped DEF UnsubscribeCheck
  <2> QED
    BY <2>1, <2>2
<1>5. ASSUME NEW c \in Conn, NEW t \in Topic, Publish(c, t) PROVE G
  BY <1>5 DEF Publish
<1>6. ASSUME NEW c \in Conn, Subscribe(c) PROVE G
  BY <1>6
<1>7. ASSUME NEW c \in Conn, SubscribeAssign(c) PROVE G
  <2>1. pc' = [pc EXCEPT ![c] = "assigned"] /\ pc[c] = "made"
    BY <1>7 DEF SubscribeAssign
  <2> QED
    BY <1>7, <2>1 DEF SubscribeAssign
<1>8. ASSUME NEW c \in Conn, SubscribeReply(c) PROVE G
  BY <1>8 DEF SubscribeReply
<1>9. ASSUME NEW c \in Conn, Capture(c) PROVE G
  <2>1. pc[c] = "replied" /\ \E x \in {"listening", "ended"} : pc' = [pc EXCEPT ![c] = x]
    BY <1>9 DEF Capture
  <2> QED
    BY <1>9, <2>1 DEF Capture
<1>10. ASSUME NEW c \in Conn, Unsubscribe(c) PROVE G
  BY <1>10
<1>11. ASSUME NEW c \in Conn, UnsubscribeWipeChan(c) PROVE G
  BY <1>11 DEF UnsubscribeWipeChan
<1>12. ASSUME NEW c \in Conn, UnsubscribeWipeName(c) PROVE G
  BY <1>12 DEF UnsubscribeWipeName
<1>13. ASSUME NEW c \in Conn, Send(c) PROVE G
  BY <1>13 DEF Send
<1>14. ASSUME NEW c \in Conn, PublishEnd(c) PROVE G
  BY <1>14 DEF PublishEnd
<1>15. ASSUME NEW c \in Conn, Receive(c) PROVE G
  BY <1>15 DEF Receive
<1>16. ASSUME NEW c \in Conn, ListenEnd(c) PROVE G
  BY <1>16 DEF ListenEnd
<1>17. ASSUME NEW c \in Conn, ReadFails(c) PROVE G
  <2>1. pc[c] = "ready" /\ ~alone[c]
    BY <1>17 DEF ReadFails, Turn
  <2> QED
    BY <1>17, <2>1 DEF ReadFails
<1> QED
  BY <1>1, <1>2, <1>3, <1>4, <1>5, <1>6, <1>7, <1>8, <1>9, <1>10, <1>11,
     <1>12, <1>13, <1>14, <1>15, <1>16, <1>17 DEF Next, Command, Continue

(* Every step keeps the channel of who subscribed alone in its place.      *)
LEMMA PlacedKept ==
  ASSUME Shapes, Registered, [Next]_vars, \A d \in Conn : Turn(d),
         \A d \in Conn : alone[d] /\ pc[d] \in Made => Placed(d)
  PROVE  \A d \in Conn : alone'[d] /\ pc'[d] \in Made => Placed(d)'
<1>1. CASE Settled
  BY <1>1 DEF Settled, Placed
<1>2. ASSUME NEW c \in Conn, Subscribe(c) PROVE \A d \in Conn : alone'[d] /\ pc'[d] \in Made => Placed(d)'
  <2>1. /\ pc[c] = "named" /\ pc' = [pc EXCEPT ![c] = "made"] /\ closed' = closed /\ alone' = alone
        /\ channels' = [channels EXCEPT ![subName] = Append(channels[subName], c)]
        /\ subName \in Name /\ channels[subName] \in Seq(Conn)
    BY <1>2 DEF Subscribe, Goes, registry, Shapes
  <2>2. c \notin closed /\ \A t \in Name : c \notin Range(channels[t])
    BY <2>1 DEF Registered, Made
  <2>3. Range(channels'[subName]) = Range(channels[subName]) \cup {c}
    BY <2>1, <2>2, AppendChannel DEF Registered, Shapes
  <2>4. \A t \in Name \ {subName} : channels'[t] = channels[t]
    BY <2>1 DEF Shapes
  <2>5. \A d \in Conn : Wants[d] \in Name
    BY PubsubAssumption DEF PubsubAssumption, Name
  <2>6. alone[c] => subName = Wants[c]
    BY <2>1 DEF Turn
  <2>7. \A d \in Conn \ {c} : pc'[d] = pc[d]
    BY <2>1 DEF Shapes
  <2>8. alone'[c] => Placed(c)'
    BY <2>1, <2>3, <2>6 DEF Placed
  <2>9. ASSUME NEW d \in Conn \ {c}, alone'[d] /\ pc'[d] \in Made PROVE Placed(d)'
    <3>1. Placed(d)
      BY <2>1, <2>7, <2>9
    <3>2. Range(channels[Wants[d]]) \subseteq Range(channels'[Wants[d]])
      BY <2>3, <2>4, <2>5
    <3> QED
      BY <2>1, <3>1, <3>2 DEF Placed
  <2> QED
    BY <2>8, <2>9
<1>3. ASSUME NEW c \in Conn, Unsubscribe(c) PROVE \A d \in Conn : alone'[d] /\ pc'[d] \in Made => Placed(d)'
  <2>1. /\ pc[c] = "leaving" /\ pc' = [pc EXCEPT ![c] = "left"] /\ name[c] \in Name /\ alone' = alone
    BY <1>3 DEF Unsubscribe, Goes, Shapes
  <2>2. \A d \in Conn : pc'[d] \in Made => pc[d] \in Made
    BY <2>1 DEF Shapes, Made
  <2>3. CASE UNCHANGED registry
    BY <2>1, <2>2, <2>3 DEF registry, Placed
  <2>4. ASSUME NEW i \in DOMAIN channels[name[c]], At(subChan, name[c], i),
               channels' = [channels EXCEPT ![name[c]] = RemoveAt(@, i)],
               closed' = closed \cup {subChan}
        PROVE  \A d \in Conn : alone'[d] /\ pc'[d] \in Made => Placed(d)'
    <3>1. channels[name[c]] \in Seq(Conn) /\ channels[name[c]][i] = subChan
      BY <2>1, <2>4, Slices DEF At
    <3>2. Range(channels'[name[c]]) = Range(channels[name[c]]) \ {subChan}
      BY <2>1, <2>4, <3>1, RemoveChannel DEF Registered, Shapes
    <3>3. \A u \in Name \ {name[c]} : channels'[u] = channels[u]
      BY <2>1, <2>4 DEF Shapes
    <3>4. \A d \in Conn : Wants[d] \in Name
      BY PubsubAssumption DEF PubsubAssumption, Name
    <3> SUFFICES ASSUME NEW d \in Conn, alone'[d], pc'[d] \in Made PROVE Placed(d)'
      OBVIOUS
    <3>5. Placed(d)
      BY <2>1, <2>2
    <3> QED
      BY <2>4, <3>2, <3>3, <3>4, <3>5 DEF Placed
  <2> QED
    BY <1>3, <2>3, <2>4 DEF Unsubscribe
<1> QED
  BY <1>1, <1>2, <1>3, SettledSteps

(* Only a SUBSCRIBE that begins becomes alone.                             *)
(* Of the steps, only the first of a SUBSCRIBE makes it alone.             *)
LEMMA AloneSteps ==
  ASSUME Shapes, [Next]_vars
  PROVE  \A d \in Conn : alone'[d] => alone[d] \/ pc[d] = "ready"
<1> USE DEF Shapes, Goes
<1>1. CASE UNCHANGED vars
  BY <1>1 DEF vars
<1>2. ASSUME NEW c \in Conn, SubscribeName(c) PROVE \A d \in Conn : alone'[d] => alone[d] \/ pc[d] = "ready"
  <2>1. pc[c] = "ready" /\ \A d \in Conn \ {c} : alone'[d] => alone[d]
    BY <1>2, AloneTyped DEF SubscribeName
  <2> QED
    BY <2>1
<1>3. ASSUME NEW c \in Conn, SubscribeBare(c) PROVE \A d \in Conn : alone'[d] => alone[d] \/ pc[d] = "ready"
  <2>1. pc[c] = "ready" /\ \A d \in Conn \ {c} : alone'[d] => alone[d]
    BY <1>3, AloneTyped DEF SubscribeBare
  <2> QED
    BY <2>1
<1>4. ASSUME NEW c \in Conn, UnsubscribeCheck(c) PROVE \A d \in Conn : alone'[d] => alone[d] \/ pc[d] = "ready"
  <2>1. pc[c] = "ready" /\ \A d \in Conn \ {c} : alone'[d] => alone[d]
    BY <1>4, AloneTyped DEF UnsubscribeCheck
  <2> QED
    BY <2>1
<1>5. ASSUME NEW c \in Conn, NEW t \in Topic, Publish(c, t) PROVE \A d \in Conn : alone'[d] => alone[d] \/ pc[d] = "ready"
  BY <1>5 DEF Publish
<1>6. ASSUME NEW c \in Conn, Subscribe(c) PROVE \A d \in Conn : alone'[d] => alone[d] \/ pc[d] = "ready"
  BY <1>6 DEF Subscribe
<1>7. ASSUME NEW c \in Conn, SubscribeAssign(c) PROVE \A d \in Conn : alone'[d] => alone[d] \/ pc[d] = "ready"
  BY <1>7 DEF SubscribeAssign
<1>8. ASSUME NEW c \in Conn, SubscribeReply(c) PROVE \A d \in Conn : alone'[d] => alone[d] \/ pc[d] = "ready"
  BY <1>8 DEF SubscribeReply
<1>9. ASSUME NEW c \in Conn, Capture(c) PROVE \A d \in Conn : alone'[d] => alone[d] \/ pc[d] = "ready"
  BY <1>9 DEF Capture
<1>10. ASSUME NEW c \in Conn, Unsubscribe(c) PROVE \A d \in Conn : alone'[d] => alone[d] \/ pc[d] = "ready"
  BY <1>10 DEF Unsubscribe
<1>11. ASSUME NEW c \in Conn, UnsubscribeWipeChan(c) PROVE \A d \in Conn : alone'[d] => alone[d] \/ pc[d] = "ready"
  BY <1>11 DEF UnsubscribeWipeChan
<1>12. ASSUME NEW c \in Conn, UnsubscribeWipeName(c) PROVE \A d \in Conn : alone'[d] => alone[d] \/ pc[d] = "ready"
  BY <1>12 DEF UnsubscribeWipeName
<1>13. ASSUME NEW c \in Conn, Send(c) PROVE \A d \in Conn : alone'[d] => alone[d] \/ pc[d] = "ready"
  BY <1>13 DEF Send
<1>14. ASSUME NEW c \in Conn, PublishEnd(c) PROVE \A d \in Conn : alone'[d] => alone[d] \/ pc[d] = "ready"
  BY <1>14 DEF PublishEnd
<1>15. ASSUME NEW c \in Conn, Receive(c) PROVE \A d \in Conn : alone'[d] => alone[d] \/ pc[d] = "ready"
  BY <1>15 DEF Receive
<1>16. ASSUME NEW c \in Conn, ListenEnd(c) PROVE \A d \in Conn : alone'[d] => alone[d] \/ pc[d] = "ready"
  BY <1>16 DEF ListenEnd
<1>17. ASSUME NEW c \in Conn, ReadFails(c) PROVE \A d \in Conn : alone'[d] => alone[d] \/ pc[d] = "ready"
  BY <1>17 DEF ReadFails
<1> QED
  BY <1>1, <1>2, <1>3, <1>4, <1>5, <1>6, <1>7, <1>8, <1>9, <1>10, <1>11,
     <1>12, <1>13, <1>14, <1>15, <1>16, <1>17 DEF Next, Command, Continue

(* A channel that is registered under one topic gets no other's messages.  *)
LEMMA TopicsKept ==
  ASSUME Shapes, Rounds, Registered, Queues, Own, [Next]_vars
  PROVE  \A d \in Conn : alone'[d] => \A i \in DOMAIN queue'[d] : queue'[d][i].topic = Wants[d]
<1>1. ASSUME NEW d \in Conn, alone'[d]
      PROVE  \A i \in DOMAIN queue[d] : queue[d][i].topic = Wants[d]
  <2>1. CASE alone[d]
    BY <2>1 DEF Own
  <2>2. CASE pc[d] = "ready"
    <3>1. queue[d] = << >>
      BY <2>2 DEF Queues, Made
    <3> QED
      BY <3>1
  <2> QED
    BY <1>1, <2>1, <2>2, AloneSteps
<1>2. CASE queue' = queue
  BY <1>1, <1>2
<1>3. ASSUME NEW c \in Conn, Send(c)
      PROVE  \A d \in Conn : alone'[d] => \A i \in DOMAIN queue'[d] : queue'[d][i].topic = Wants[d]
  <2>0. pc[c] = "publish" /\ pub[c].rest # << >>
    BY <1>3 DEF Send
  <2>g. PICK g \in Conn : g = Head(pub[c].rest)
    BY <2>0, SentTo
  <2>m. PICK m \in Sent : m = Message(c)
    BY <2>0, SentTo DEF Message, Sent
  <2>1. CASE queue' = queue
    BY <1>2, <2>1
  <2>2. CASE queue' = [queue EXCEPT ![g] = Append(@, m)]
    <3> SUFFICES ASSUME NEW d \in Conn, alone'[d], NEW i \in DOMAIN queue'[d]
                 PROVE  queue'[d][i].topic = Wants[d]
      OBVIOUS
    <3>1. CASE d # g
      BY <1>1, <2>2, <3>1 DEF Queues
    <3>2. CASE d = g
      <4>1. PICK s \in Seq(Sent) : s = queue[g]
        BY DEF Queues
      <4>2. queue'[g] = Append(s, m) /\ Len(s) \in Nat
        BY <2>2, <4>1 DEF Queues
      <4>3. i \in 1 .. Len(s) + 1
        BY <3>2, <4>1, <4>2
      <4>4. CASE i \in 1 .. Len(s)
        <5>1. queue'[g][i] = s[i] /\ i \in DOMAIN s
          BY <4>1, <4>2, <4>4
        <5> QED
          BY <1>1, <3>2, <4>1, <5>1
      <4>5. CASE i = Len(s) + 1
        <5>1. queue'[g][i] = m /\ m.topic = pub[c].topic
          BY <2>m, <4>1, <4>2, <4>5 DEF Message
        <5>2. pub[c].topic \in Topic /\ g \in Range(channels[pub[c].topic])
          BY <2>0, <2>g, SentTo
        <5>3. pub[c].topic \in Name /\ Wants[g] \in Name
          BY <5>2, PubsubAssumption DEF PubsubAssumption, Name
        <5>4. alone[g]
          <6>1. pc[g] \in Made
            BY <5>2, <5>3 DEF Registered
          <6> QED
            BY <3>2, <6>1, AloneSteps DEF Made
        <5>5. g \in Range(channels[Wants[g]])
          BY <5>2, <5>3, <5>4 DEF Own, Placed, Registered
        <5>6. pub[c].topic = Wants[g]
          BY <5>2, <5>3, <5>5 DEF Registered
        <5> QED
          BY <3>2, <5>1, <5>6
      <4> QED
        BY <4>2, <4>3, <4>4, <4>5
    <3> QED
      BY <3>1, <3>2
  <2> QED
    BY <1>3, <2>g, <2>m, <2>1, <2>2 DEF Send
<1>4. ASSUME NEW c \in Conn, Receive(c)
      PROVE  \A d \in Conn : alone'[d] => \A i \in DOMAIN queue'[d] : queue'[d][i].topic = Wants[d]
  <2>1. /\ queue[listen[c]] # << >> /\ listen[c] \in Conn
        /\ queue' = [queue EXCEPT ![listen[c]] = Tail(@)]
    BY <1>4 DEF Receive, Shapes
  <2>2. PICK g \in Conn : g = listen[c]
    BY <2>1
  <2>3. PICK s \in Seq(Sent) : s = queue[g] /\ s # << >>
    BY <2>1, <2>2 DEF Queues
  <2>4. \A i \in DOMAIN Tail(s) : i + 1 \in DOMAIN s /\ Tail(s)[i] = s[i + 1]
    BY <2>3, HeadTailProperties
  <2>5. queue'[g] = Tail(s) /\ \A d \in Conn \ {g} : queue'[d] = queue[d]
    BY <2>1, <2>2, <2>3 DEF Queues
  <2> SUFFICES ASSUME NEW d \in Conn, alone'[d], NEW i \in DOMAIN queue'[d]
               PROVE  queue'[d][i].topic = Wants[d]
    OBVIOUS
  <2>6. CASE d = g
    <3>1. i \in DOMAIN Tail(s) /\ queue'[d][i] = Tail(s)[i]
      BY <2>5, <2>6
    <3>2. \A j \in DOMAIN s : s[j].topic = Wants[d]
      BY <1>1, <2>3, <2>6
    <3> QED
      BY <2>4, <3>1, <3>2
  <2>7. CASE d # g
    BY <1>1, <2>5, <2>7
  <2> QED
    BY <2>6, <2>7
<1>5. ASSUME NEW c \in Conn, Capture(c)
      PROVE  \A d \in Conn : alone'[d] => \A i \in DOMAIN queue'[d] : queue'[d][i].topic = Wants[d]
  BY <1>2, <1>5 DEF Capture
<1> QED
  BY <1>2, <1>3, <1>4, <1>5, QueueSteps DEF Aside

(* Every step keeps what is said of a SUBSCRIBE that is alone.             *)
LEMMA OwnKept == ASSUME Shapes, Rounds, Registered, Queues, Own, [Next]_vars PROVE Own'
<1>1. /\ \A d \in Conn : Turn(d)
      /\ \A d \in Conn : alone[d] /\ pc[d] \in Made => Placed(d)
  BY DEF Own
<1>2. \A d \in Conn : Turn(d)'
  BY <1>1, TurnsKept
<1>3. \A d \in Conn : alone'[d] /\ pc'[d] \in Made => Placed(d)'
  BY <1>1, PlacedKept
<1> QED
  BY <1>2, <1>3, TopicsKept DEF Own

-----------------------------------------------------------------------------
(* The theorems.                                                           *)

(* The invariant.                                                          *)
Base == Shapes /\ Rounds /\ Registered /\ Queues /\ Own

(* Its other parts hold initially.                                         *)
LEMMA InitQueues == Init => Queues /\ Own
<1> SUFFICES ASSUME Init PROVE Queues /\ Own
  OBVIOUS
<1>1. /\ \A c \in Conn : queue[c] = << >> /\ got[c] = << >> /\ ~alone[c]
      /\ queue = [c \in Conn |-> << >>] /\ got = [c \in Conn |-> << >>]
      /\ Buffer \in Nat
  BY PubsubAssumption DEF Init, PubsubAssumption
<1>2. queue \in [Conn -> Seq(Sent)] /\ got \in [Conn -> Seq(Ids)]
  BY <1>1
<1>3. \A c \in Conn : Len(queue[c]) <= Buffer
  <2>1. Len(<< >>) = 0 /\ \A n \in Nat : 0 <= n
    OBVIOUS
  <2> QED
    BY <1>1, <2>1
<1>4. InOrder(<< >>) /\ \A g \in Conn : Within(<< >>, g) /\ Before(<< >>, << >>)
  BY DEF InOrder, Within, Before
<1>5. \A c \in Conn : pc[c] # "listening"
  BY DEF Init
<1> QED
  BY <1>1, <1>2, <1>3, <1>4, <1>5 DEF Queues, Own, Turn

(* It is an invariant: initially true, and kept by every step.             *)
THEOREM Invariance == Spec => []Base
<1>1. Init => Base
  BY InitBase, InitQueues DEF Base
<1>2. Base /\ [Next]_vars => Base'
  BY ShapesKept, RoundsKept, RegisteredKept, QueuesKept, OwnKept DEF Base
<1> QED
  BY <1>1, <1>2, PTL DEF Spec

(* The state has the shapes it should; every round of a PUBLISH is the end *)
(* of its topic's slice (pubsub.go:56-74).                                 *)
THEOREM Types == Spec => []TypeOK
<1>1. Base => TypeOK
  <2> SUFFICES ASSUME Base PROVE TypeOK
    OBVIOUS
  <2>1. Shapes /\ Rounds /\ Queues
    BY DEF Base
  <2> QED
    BY <2>1 DEF TypeOK, Shapes, Rounds, Queues, Points, Ids
<1> QED
  BY <1>1, Invariance, PTL

(* No PUBLISH sends on a closed channel and no UNSUBSCRIBE closes one      *)
(* twice, for any number of them (pubsub.go:28-43, 64-70).                 *)
THEOREM NoneClosed == Spec => []RegisteredOpen
<1>1. Base => RegisteredOpen
  <2> SUFFICES ASSUME Shapes, Rounds, Registered, NEW c \in Conn
               PROVE  Range(pub[c].rest) \cap closed = {}
    BY DEF Base, RegisteredOpen, Registered
  <2>1. CASE pub[c].rest = << >>
    BY <2>1 DEF Range
  <2>2. CASE pub[c].rest # << >>
    <3>1. pc[c] = "publish"
      BY <2>2 DEF Rounds, NoPub
    <3>2. pub[c].topic \in Name /\ Range(pub[c].rest) \subseteq Range(channels[pub[c].topic])
      BY <2>2, <3>1, SentTo DEF Name
    <3> QED
      BY <3>2 DEF Registered
  <2> QED
    BY <2>1, <2>2
<1> QED
  BY <1>1, Invariance, PTL

(* Every client gets each publisher's messages in order and none twice,    *)
(* also where channels are shared or full (pubsub.go:45-74,                *)
(* server.go:301-308).                                                     *)
THEOREM InPublishersOrder == Spec => []PublisherOrder
<1>1. Base => PublisherOrder
  BY DEF Base, Queues, InOrder, PublisherOrder
<1> QED
  BY <1>1, Invariance, PTL

(* A SUBSCRIBE that no other SUBSCRIBE or UNSUBSCRIBE overlaps gets its    *)
(* own channel and topic (pubsub_command.go:28-42, server.go:290-308).     *)
THEOREM OwnMessages == Spec => []OwnSubscription
<1>1. Base => OwnSubscription
  BY DEF Base, Own, Turn, Placed, Made, OwnSubscription
<1> QED
  BY <1>1, Invariance, PTL
=============================================================================

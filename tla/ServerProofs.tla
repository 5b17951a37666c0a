---------------------------- MODULE ServerProofs ----------------------------
(***************************************************************************)
(* Theorems about Server, for any connections, clients and channel         *)
(* capacity: type correctness and the counters, MONITOR's channels, the    *)
(* stream of a monitor, and what Close saves.                              *)
(***************************************************************************)
EXTENDS Server, FiniteSetTheorems, SequenceTheorems, TLAPS

-----------------------------------------------------------------------------
(* The inductive invariant.                                                *)

Shapes ==
  /\ pc \in [Conn -> Served \cup {"new", "backlog", "accepted", "gone"}]
  /\ alive \subseteq Conn /\ authed \subseteq Conn /\ (~Auth => authed = Conn)
  /\ cmd \in [Conn -> Commands \cup {"none"}]
  /\ sent \in [Conn -> Nat]
  /\ rest \in [Conn -> SUBSET Conn] /\ \A c \in Conn : rest[c] # {} => pc[c] = "publish"
  /\ monSubs \subseteq Conn /\ closed \subseteq Conn /\ full \subseteq Conn
  /\ closer \in Closer /\ late \in BOOLEAN

Inboxes ==
  /\ inbox \in [Conn -> Seq(Commands)]
  /\ \A c \in Conn : Len(inbox[c]) <= MaxUnread /\ sent[c] + Len(inbox[c]) <= MaxSent[c]

(* A handler past the gate works on its last command; the SET of one that  *)
(* is to log or to answer it is in memory.                                 *)
AtWork ==
  \A c \in Conn :
    /\ pc[c] \in {"publish", "dispatch", "append", "answer"} => sent[c] > 0
    /\ pc[c] = "append" => cmd[c] = "SET"
    /\ pc[c] \in {"append", "answer"} /\ cmd[c] = "SET" => Line(c) \in data

Files ==
  /\ data \subseteq Lines
  /\ saved \cup logged \cup answered \subseteq data

Channels ==
  /\ queue \in [Conn -> Seq(Lines)] /\ \A m \in Conn : Len(queue[m]) <= Buffer
  /\ got \in [Conn -> Seq(Lines)]
  /\ since \in [Conn -> [Conn -> Nat]]

(* Registered are the monitors that have not unsubscribed yet, closed the  *)
(* channels of those that have; who publishes goes round the registered.   *)
Registry ==
  /\ \A m \in monSubs : pc[m] \in {"monitor", "unmonitor"}
  /\ \A m \in Conn : pc[m] \in {"monitor", "unmonitor"} => m \in monSubs
  /\ \A m \in closed : pc[m] \in {"finish", "gone"}
  /\ \A c \in Conn : rest[c] \subseteq monSubs

Base == Shapes /\ Inboxes /\ AtWork /\ Files /\ Channels /\ Registry

-----------------------------------------------------------------------------
LEMMA BaseInit == Init => Base
<1> SUFFICES ASSUME Init PROVE Base
  OBVIOUS
<1>1. Shapes
  <2>1. sent \in [Conn -> Nat]
    BY DEF Init
  <2>2. alive \subseteq Conn /\ authed \subseteq Conn /\ (~Auth => authed = Conn)
    BY DEF Init
  <2> QED
    BY <2>1, <2>2 DEF Init, Shapes, Commands, Served, Closer
<1>2. AtWork /\ Files /\ Registry
  BY DEF Init, AtWork, Files, Registry
<1>3. Channels
  BY ServerAssumption DEF Init, Channels
<1>4. Inboxes
  BY ServerAssumption DEF ServerAssumption, Init, Inboxes
<1> QED
  BY <1>1, <1>2, <1>3, <1>4 DEF Base

LEMMA NextNat == \A n \in Nat : n + 1 \in Nat /\ n + 1 > 0 /\ (n + 1) - 1 = n
OBVIOUS

LEMMA ShapesKept == ASSUME Base, [Next]_vars PROVE Shapes'
<1> USE ServerAssumption
    DEF Base, Shapes, AtWork, Registry, Served, Closer, Commands, Goes, monitors, files, life, clients
<1>1. CASE UNCHANGED vars
  BY <1>1 DEF vars
<1>2. ASSUME NEW c \in Conn, Connect(c) PROVE Shapes'
  BY <1>2, ZenonT(30) DEF Connect
<1>3. ASSUME NEW c \in Conn, Disconnect(c) PROVE Shapes'
  BY <1>3 DEF Disconnect
<1>4. ASSUME NEW c \in Conn, NEW x \in Commands, ReadGated(c, x) PROVE Shapes'
  BY <1>4, ZenonT(30) DEF ReadGated, Takes
<1>5. ASSUME NEW c \in Conn, NEW x \in Commands, Read(c, x) PROVE Shapes'
  <2>1. pc' \in [Conn -> Served \cup {"new", "backlog", "accepted", "gone"}]
    BY <1>5 DEF Read
  <2>2. cmd' \in [Conn -> Commands \cup {"none"}]
    BY <1>5 DEF Read
  <2>3. sent' \in [Conn -> Nat]
    <3>1. sent' = [sent EXCEPT ![c] = sent[c] + 1]
      BY <1>5 DEF Read
    <3>2. sent \in [Conn -> Nat]
      BY Zenon
    <3> QED
      BY ONLY <3>1, <3>2, NextNat
  <2>4. rest' \in [Conn -> SUBSET Conn] /\ \A d \in Conn : rest'[d] # {} => pc'[d] = "publish"
    BY <1>5 DEF Read
  <2> QED
    BY <1>5, <2>1, <2>2, <2>3, <2>4 DEF Read
<1>6. ASSUME NEW c \in Conn, IncConnections(c) PROVE Shapes'
  BY <1>6, ZenonT(30) DEF IncConnections
<1>7. ASSUME NEW c \in Conn, ReadFails(c) PROVE Shapes'
  BY <1>7 DEF ReadFails
<1>8. ASSUME NEW c \in Conn, NEW m \in rest[c], MonitorSend(c, m) PROVE Shapes'
  <2>1. rest' \in [Conn -> SUBSET Conn]
    BY <1>8 DEF MonitorSend
  <2>3. ASSUME NEW d \in Conn, rest'[d] # {} PROVE pc'[d] = "publish"
    <3>1. pc' = pc /\ pc[c] = "publish" /\ (d # c => rest'[d] = rest[d])
      BY <1>8 DEF MonitorSend
    <3> QED
      BY <2>3, <3>1
  <2>2. full' \subseteq Conn
    <3>1. m \in Conn /\ full \subseteq Conn
      OBVIOUS
    <3>2. full' = full \/ full' = full \cup {m}
      BY <1>8 DEF MonitorSend
    <3> QED
      BY <3>1, <3>2
  <2> QED
    BY <1>8, <2>1, <2>2, <2>3 DEF MonitorSend
<1>9. ASSUME NEW c \in Conn, MonitorSent(c) PROVE Shapes'
  BY <1>9 DEF MonitorSent
<1>10. ASSUME NEW c \in Conn, Dispatch(c) PROVE Shapes'
  BY <1>10 DEF Dispatch
<1>11. ASSUME NEW c \in Conn, AppendLog(c) PROVE Shapes'
  BY <1>11 DEF AppendLog
<1>12. ASSUME NEW c \in Conn, Answer(c) PROVE Shapes'
  <2>1. PICK x \in {"to monitor", "subscribed", "read", "finish"} : Goes(c, pc[c], x)
    BY <1>12 DEF Answer, Then
  <2>2. pc[c] \in {"answer", "answer gated"}
    BY <1>12 DEF Answer
  <2> QED
    BY <1>12, <2>1, <2>2, ZenonT(30) DEF Answer
<1>13. ASSUME NEW c \in Conn, MonitorSubscribe(c) PROVE Shapes'
  BY <1>13 DEF MonitorSubscribe
<1>14. ASSUME NEW c \in Conn, MonitorWrite(c) PROVE Shapes'
  <2>1. CASE UNCHANGED pc
    BY <1>14, <2>1 DEF MonitorWrite
  <2>2. CASE Goes(c, "monitor", "unmonitor")
    BY <1>14, <2>2 DEF MonitorWrite
  <2> QED
    BY <1>14, <2>1, <2>2 DEF MonitorWrite
<1>15. ASSUME NEW c \in Conn, MonitorUnsubscribe(c) PROVE Shapes'
  BY <1>15 DEF MonitorUnsubscribe
<1>16. ASSUME NEW c \in Conn, Finish(c) PROVE Shapes'
  BY <1>16, ZenonT(30) DEF Finish
<1>17. ASSUME NEW c \in Conn, Accept(c) PROVE Shapes'
  BY <1>17 DEF Accept
<1>18. ASSUME NEW c \in Conn, Spawn(c) PROVE Shapes'
  BY <1>18, ZenonT(30) DEF Spawn
<1>19. CASE AcceptFails \/ TickerStops
  BY <1>19 DEF AcceptFails, TickerStops
<1>20. CASE Close
  <2>1. closer' \in Closer /\ late' \in BOOLEAN
    <3>1. closer' \in Closer
      BY <1>20 DEF Close, CloseListener, CloseStop, WaitEnds, ContextEnds, Save, CloseFiles, CloseStep
    <3>2. late' \in BOOLEAN
      <4>1. CASE CloseListener \/ CloseStop \/ ContextEnds \/ Save
        BY <4>1 DEF CloseListener, CloseStop, ContextEnds, Save
      <4>2. CASE WaitEnds
        <5>1. late' = (acceptor \in Conn)
          BY <4>2 DEF WaitEnds
        <5> QED
          BY ONLY <5>1
      <4>3. CASE CloseFiles
        BY <4>3 DEF CloseFiles
      <4> QED
        BY <1>20, <4>1, <4>2, <4>3 DEF Close
    <3> QED
      BY <3>1, <3>2
  <2>2. UNCHANGED <<pc, clients, authed, cmd, sent, rest, monitors>>
    BY <1>20 DEF Close, CloseListener, CloseStop, WaitEnds, ContextEnds, Save, CloseFiles, CloseStep
  <2> QED
    BY <2>1, <2>2
<1>21. ASSUME NEW c \in Conn, NEW x \in May[c] \cap Commands, Send(c, x) PROVE Shapes'
  BY <1>21 DEF Send
<1>22. ASSUME NEW c \in Conn, SubscriberEnds(c) PROVE Shapes'
  BY <1>22 DEF SubscriberEnds
<1> QED
  BY <1>1, <1>2, <1>3, <1>4, <1>5, <1>6, <1>7, <1>8, <1>9, <1>10, <1>11, <1>12, <1>13,
     <1>14, <1>15, <1>16, <1>17, <1>18, <1>19, <1>20, <1>21, <1>22 DEF Next, Client, Handler, AcceptLoop

LEMMA AtWorkKept == ASSUME Base, [Next]_vars PROVE AtWork'
<1> USE ServerAssumption
    DEF Base, Shapes, AtWork, Commands, Goes, Line, monitors, files, life, clients
<1>1. CASE UNCHANGED vars
  BY <1>1 DEF vars
<1>2. ASSUME NEW c \in Conn, Connect(c) PROVE AtWork'
  BY <1>2 DEF Connect
<1>3. ASSUME NEW c \in Conn, Disconnect(c) PROVE AtWork'
  BY <1>3 DEF Disconnect
<1>4. ASSUME NEW c \in Conn, NEW x \in Commands, ReadGated(c, x) PROVE AtWork'
  BY <1>4 DEF ReadGated, Takes
<1>5. ASSUME NEW c \in Conn, NEW x \in Commands, Read(c, x) PROVE AtWork'
  <2>1. sent'[c] > 0
    <3>1. sent' = [sent EXCEPT ![c] = @ + 1]
      BY <1>5 DEF Read
    <3>2. sent[c] \in Nat /\ sent'[c] = sent[c] + 1
      BY <3>1
    <3> QED
      BY ONLY <3>2, NextNat
  <2>2. pc'[c] \in {"publish", "dispatch"}
    BY <1>5 DEF Read
  <2>3. UNCHANGED data /\ \A d \in Conn \ {c} :
                            pc'[d] = pc[d] /\ sent'[d] = sent[d] /\ cmd'[d] = cmd[d]
    BY <1>5 DEF Read
  <2> QED
    BY <2>1, <2>2, <2>3
<1>6. ASSUME NEW c \in Conn, IncConnections(c) PROVE AtWork'
  BY <1>6 DEF IncConnections
<1>7. ASSUME NEW c \in Conn, ReadFails(c) PROVE AtWork'
  BY <1>7 DEF ReadFails
<1>8. ASSUME NEW c \in Conn, NEW m \in rest[c], MonitorSend(c, m) PROVE AtWork'
  BY <1>8 DEF MonitorSend
<1>9. ASSUME NEW c \in Conn, MonitorSent(c) PROVE AtWork'
  BY <1>9 DEF MonitorSent
<1>10. ASSUME NEW c \in Conn, Dispatch(c) PROVE AtWork'
  BY <1>10 DEF Dispatch
<1>11. ASSUME NEW c \in Conn, AppendLog(c) PROVE AtWork'
  BY <1>11 DEF AppendLog
<1>12. ASSUME NEW c \in Conn, Answer(c) PROVE AtWork'
  <2>1. /\ pc[c] \in {"answer", "answer gated"} /\ pc'[c] \in {"to monitor", "subscribed", "read", "finish"}
        /\ \A d \in Conn \ {c} : pc'[d] = pc[d] /\ cmd'[d] = cmd[d]
        /\ UNCHANGED <<sent, data>>
    BY <1>12 DEF Answer, Then
  <2> QED
    BY <2>1
<1>13. ASSUME NEW c \in Conn, MonitorSubscribe(c) PROVE AtWork'
  BY <1>13 DEF MonitorSubscribe
<1>14. ASSUME NEW c \in Conn, MonitorWrite(c) PROVE AtWork'
  BY <1>14 DEF MonitorWrite
<1>15. ASSUME NEW c \in Conn, MonitorUnsubscribe(c) PROVE AtWork'
  BY <1>15 DEF MonitorUnsubscribe
<1>16. ASSUME NEW c \in Conn, Finish(c) PROVE AtWork'
  BY <1>16 DEF Finish
<1>17. ASSUME NEW c \in Conn, Accept(c) PROVE AtWork'
  BY <1>17 DEF Accept
<1>18. ASSUME NEW c \in Conn, Spawn(c) PROVE AtWork'
  BY <1>18 DEF Spawn
<1>19. CASE AcceptFails \/ TickerStops
  BY <1>19 DEF AcceptFails, TickerStops
<1>20. CASE Close
  BY <1>20 DEF Close, CloseListener, CloseStop, WaitEnds, ContextEnds, Save, CloseFiles, CloseStep
<1>21. ASSUME NEW c \in Conn, NEW x \in May[c] \cap Commands, Send(c, x) PROVE AtWork'
  BY <1>21 DEF Send
<1>22. ASSUME NEW c \in Conn, SubscriberEnds(c) PROVE AtWork'
  BY <1>22 DEF SubscriberEnds
<1> QED
  BY <1>1, <1>2, <1>3, <1>4, <1>5, <1>6, <1>7, <1>8, <1>9, <1>10, <1>11,
     <1>12, <1>13, <1>14, <1>15, <1>16, <1>17, <1>18, <1>19, <1>20, <1>21, <1>22 DEF Next,
     Client, Handler, AcceptLoop

LEMMA FilesKept == ASSUME Base, [Next]_vars PROVE Files'
<1> USE ServerAssumption
    DEF Base, Shapes, AtWork, Files, Lines, Commands, Goes, Line, monitors, files, life, clients
<1>1. CASE UNCHANGED vars
  BY <1>1 DEF vars
<1>2. ASSUME NEW c \in Conn, Connect(c) PROVE Files'
  BY <1>2 DEF Connect
<1>3. ASSUME NEW c \in Conn, Disconnect(c) PROVE Files'
  BY <1>3 DEF Disconnect
<1>4. ASSUME NEW c \in Conn, NEW x \in Commands, ReadGated(c, x) PROVE Files'
  BY <1>4 DEF ReadGated, Takes
<1>5. ASSUME NEW c \in Conn, NEW x \in Commands, Read(c, x) PROVE Files'
  BY <1>5 DEF Read, Takes
<1>6. ASSUME NEW c \in Conn, IncConnections(c) PROVE Files'
  BY <1>6 DEF IncConnections
<1>7. ASSUME NEW c \in Conn, ReadFails(c) PROVE Files'
  BY <1>7 DEF ReadFails
<1>8. ASSUME NEW c \in Conn, NEW m \in rest[c], MonitorSend(c, m) PROVE Files'
  BY <1>8 DEF MonitorSend
<1>9. ASSUME NEW c \in Conn, MonitorSent(c) PROVE Files'
  BY <1>9 DEF MonitorSent
<1>10. ASSUME NEW c \in Conn, Dispatch(c) PROVE Files'
  <2>1. CASE cmd[c] = "SET"
    <3>1. sent[c] \in Nat /\ sent[c] > 0
      BY <1>10 DEF Dispatch
    <3>2. <<c, sent[c]>> \in Lines
      BY ONLY <3>1, c \in Conn DEF Lines
    <3> QED
      BY <1>10, <2>1, <3>2 DEF Dispatch
  <2>2. CASE cmd[c] # "SET"
    BY <1>10, <2>2 DEF Dispatch
  <2> QED
    BY <2>1, <2>2
<1>11. ASSUME NEW c \in Conn, AppendLog(c) PROVE Files'
  BY <1>11 DEF AppendLog
<1>12. ASSUME NEW c \in Conn, Answer(c) PROVE Files'
  <2>1. UNCHANGED files
    BY <1>12 DEF Answer
  <2>2. CASE UNCHANGED answered
    BY <2>1, <2>2
  <2>3. CASE pc[c] = "answer" /\ cmd[c] = "SET" /\ answered' = answered \cup {Line(c)}
    BY <2>1, <2>3
  <2> QED
    BY <1>12, <2>2, <2>3 DEF Answer
<1>13. ASSUME NEW c \in Conn, MonitorSubscribe(c) PROVE Files'
  BY <1>13 DEF MonitorSubscribe
<1>14. ASSUME NEW c \in Conn, MonitorWrite(c) PROVE Files'
  BY <1>14 DEF MonitorWrite
<1>15. ASSUME NEW c \in Conn, MonitorUnsubscribe(c) PROVE Files'
  BY <1>15 DEF MonitorUnsubscribe
<1>16. ASSUME NEW c \in Conn, Finish(c) PROVE Files'
  BY <1>16 DEF Finish
<1>17. ASSUME NEW c \in Conn, Accept(c) PROVE Files'
  BY <1>17 DEF Accept
<1>18. ASSUME NEW c \in Conn, Spawn(c) PROVE Files'
  BY <1>18 DEF Spawn
<1>19. CASE AcceptFails \/ TickerStops
  BY <1>19 DEF AcceptFails, TickerStops
<1>20. CASE Close
  BY <1>20 DEF Close, CloseListener, CloseStop, WaitEnds, ContextEnds, Save, CloseFiles, CloseStep
<1>21. ASSUME NEW c \in Conn, NEW x \in May[c] \cap Commands, Send(c, x) PROVE Files'
  BY <1>21 DEF Send
<1>22. ASSUME NEW c \in Conn, SubscriberEnds(c) PROVE Files'
  BY <1>22 DEF SubscriberEnds
<1> QED
  BY <1>1, <1>2, <1>3, <1>4, <1>5, <1>6, <1>7, <1>8, <1>9, <1>10, <1>11,
     <1>12, <1>13, <1>14, <1>15, <1>16, <1>17, <1>18, <1>19, <1>20, <1>21, <1>22 DEF Next,
     Client, Handler, AcceptLoop

LEMMA RegistryKept == ASSUME Base, [Next]_vars PROVE Registry'
<1> USE ServerAssumption
    DEF Base, Shapes, Registry, Commands, Goes, monitors, files, life, clients, Locked
<1>1. CASE UNCHANGED vars
  BY <1>1 DEF vars
<1>2. ASSUME NEW c \in Conn, Connect(c) PROVE Registry'
  BY <1>2 DEF Connect
<1>3. ASSUME NEW c \in Conn, Disconnect(c) PROVE Registry'
  BY <1>3 DEF Disconnect
<1>4. ASSUME NEW c \in Conn, NEW x \in Commands, ReadGated(c, x) PROVE Registry'
  BY <1>4 DEF ReadGated, Takes
<1>5. ASSUME NEW c \in Conn, NEW x \in Commands, Read(c, x) PROVE Registry'
  BY <1>5 DEF Read, Takes
<1>6. ASSUME NEW c \in Conn, IncConnections(c) PROVE Registry'
  BY <1>6 DEF IncConnections
<1>7. ASSUME NEW c \in Conn, ReadFails(c) PROVE Registry'
  BY <1>7 DEF ReadFails
<1>8. ASSUME NEW c \in Conn, NEW m \in rest[c], MonitorSend(c, m) PROVE Registry'
  BY <1>8, ZenonT(30) DEF MonitorSend
<1>9. ASSUME NEW c \in Conn, MonitorSent(c) PROVE Registry'
  BY <1>9 DEF MonitorSent
<1>10. ASSUME NEW c \in Conn, Dispatch(c) PROVE Registry'
  BY <1>10 DEF Dispatch
<1>11. ASSUME NEW c \in Conn, AppendLog(c) PROVE Registry'
  BY <1>11 DEF AppendLog
<1>12. ASSUME NEW c \in Conn, Answer(c) PROVE Registry'
  <2>1. PICK x \in {"to monitor", "subscribed", "read", "finish"} : Goes(c, pc[c], x)
    BY <1>12 DEF Answer, Then
  <2>2. pc[c] \in {"answer", "answer gated"} /\ UNCHANGED <<rest, monitors>>
    BY <1>12 DEF Answer
  <2> QED
    BY <2>1, <2>2
<1>13. ASSUME NEW c \in Conn, MonitorSubscribe(c) PROVE Registry'
  BY <1>13, ZenonT(30) DEF MonitorSubscribe
<1>14. ASSUME NEW c \in Conn, MonitorWrite(c) PROVE Registry'
  <2>1. UNCHANGED <<rest, monSubs, closed>> /\ pc[c] = "monitor"
    BY <1>14 DEF MonitorWrite
  <2>2. CASE UNCHANGED pc
    BY <2>1, <2>2
  <2>3. CASE Goes(c, "monitor", "unmonitor")
    BY <2>1, <2>3
  <2> QED
    BY <1>14, <2>2, <2>3 DEF MonitorWrite
<1>15. ASSUME NEW c \in Conn, MonitorUnsubscribe(c) PROVE Registry'
  <2>1. /\ pc[c] = "unmonitor" /\ pc' = [pc EXCEPT ![c] = "finish"]
        /\ monSubs' = monSubs \ {c} /\ closed' = closed \cup {c} /\ UNCHANGED rest
    BY <1>15 DEF MonitorUnsubscribe
  <2>2. \A d \in Conn : rest[d] = {}
    BY <1>15 DEF MonitorUnsubscribe
  <2>3. \A m \in monSubs' : pc'[m] \in {"monitor", "unmonitor"}
    BY <2>1
  <2>4. \A m \in closed' : pc'[m] \in {"finish", "gone"}
    BY <2>1
  <2>5. \A m \in Conn : pc'[m] \in {"monitor", "unmonitor"} => m \in monSubs'
    BY <2>1
  <2> QED
    BY <2>1, <2>2, <2>3, <2>4, <2>5
<1>16. ASSUME NEW c \in Conn, Finish(c) PROVE Registry'
  BY <1>16 DEF Finish
<1>17. ASSUME NEW c \in Conn, Accept(c) PROVE Registry'
  BY <1>17 DEF Accept
<1>18. ASSUME NEW c \in Conn, Spawn(c) PROVE Registry'
  BY <1>18 DEF Spawn
<1>19. CASE AcceptFails \/ TickerStops
  BY <1>19 DEF AcceptFails, TickerStops
<1>20. CASE Close
  BY <1>20 DEF Close, CloseListener, CloseStop, WaitEnds, ContextEnds, Save, CloseFiles,
               CloseStep
<1>21. ASSUME NEW c \in Conn, NEW x \in May[c] \cap Commands, Send(c, x) PROVE Registry'
  BY <1>21 DEF Send
<1>22. ASSUME NEW c \in Conn, SubscriberEnds(c) PROVE Registry'
  BY <1>22 DEF SubscriberEnds
<1> QED
  BY <1>1, <1>2, <1>3, <1>4, <1>5, <1>6, <1>7, <1>8, <1>9, <1>10, <1>11,
     <1>12, <1>13, <1>14, <1>15, <1>16, <1>17, <1>18, <1>19, <1>20, <1>21, <1>22 DEF Next,
     Client, Handler, AcceptLoop

-----------------------------------------------------------------------------
(* The stream of a monitor, as a sequence of lines.                        *)

LEMMA Appended ==
  ASSUME NEW s \in Seq(Lines), NEW from \in [Conn -> Nat], NEW c \in Conn, NEW n \in Nat \ {0},
         Rising(s), After(s, from), from[c] < n,
         \A i \in DOMAIN s : s[i][1] = c => s[i][2] < n
  PROVE  /\ Rising(Append(s, <<c, n>>)) /\ After(Append(s, <<c, n>>), from)
         /\ Gapless(s, from) /\ (\A k \in from[c] + 1 .. n - 1 : \E i \in DOMAIN s : s[i] = <<c, k>>)
              => Gapless(Append(s, <<c, n>>), from)
<1> DEFINE t == Append(s, <<c, n>>)
<1>1. /\ Len(s) \in Nat /\ DOMAIN s = 1 .. Len(s) /\ DOMAIN t = 1 .. Len(s) + 1
      /\ \A i \in 1 .. Len(s) : t[i] = s[i] /\ s[i] \in Lines
      /\ t[Len(s) + 1] = <<c, n>>
  BY DEF Lines
<1>2. \A i \in 1 .. Len(s) : s[i][1] \in Conn /\ s[i][2] \in Nat
  BY <1>1 DEF Lines
<1> HIDE DEF t
<1>3. Rising(t)
  <2> SUFFICES ASSUME NEW i \in DOMAIN t, NEW j \in DOMAIN t, i < j, t[i][1] = t[j][1]
               PROVE  t[i][2] < t[j][2]
    BY DEF Rising
  <2>1. i \in 1 .. Len(s) /\ t[i] = s[i]
    BY <1>1
  <2>2. CASE j \in 1 .. Len(s)
    BY <1>1, <2>1, <2>2 DEF Rising
  <2>3. CASE j = Len(s) + 1
    BY <1>1, <2>1, <2>3
  <2> QED
    BY <1>1, <2>2, <2>3
<1>4. After(t, from)
  BY <1>1, <1>2 DEF After
<1>5. ASSUME Gapless(s, from), \A k \in from[c] + 1 .. n - 1 : \E i \in DOMAIN s : s[i] = <<c, k>>
      PROVE  Gapless(t, from)
  <2>1. ASSUME NEW i \in 1 .. Len(s), NEW k \in from[t[i][1]] + 1 .. t[i][2] - 1
        PROVE  \E j \in 1 .. i - 1 : t[j] = <<t[i][1], k>>
    <3>1. t[i] = s[i] /\ k \in from[s[i][1]] + 1 .. s[i][2] - 1
      BY <1>1, <2>1
    <3>2. PICK j \in 1 .. i - 1 : s[j] = <<s[i][1], k>>
      BY <1>1, <1>5, <3>1 DEF Gapless
    <3>3. j \in 1 .. Len(s)
      BY <1>1, <3>2
    <3> QED
      BY <1>1, <3>1, <3>2, <3>3
  <2>2. ASSUME NEW k \in from[c] + 1 .. n - 1
        PROVE  \E j \in 1 .. Len(s) : t[j] = <<c, k>>
    BY <1>1, <1>5, <2>2
  <2> QED
    <3> SUFFICES ASSUME NEW i \in 1 .. Len(s) + 1, NEW k \in from[t[i][1]] + 1 .. t[i][2] - 1
                 PROVE  \E j \in 1 .. i - 1 : t[j] = <<t[i][1], k>>
      BY <1>1 DEF Gapless
    <3>1. CASE i \in 1 .. Len(s)
      BY <2>1, <3>1
    <3>2. CASE i = Len(s) + 1
      <4>1. t[i] = <<c, n>> /\ i - 1 = Len(s)
        BY <1>1, <3>2
      <4>2. k \in from[c] + 1 .. n - 1 /\ t[i][1] = c
        BY <4>1
      <4>3. PICK j \in 1 .. Len(s) : t[j] = <<c, k>>
        BY <2>2, <4>2
      <4> QED
        BY <4>1, <4>2, <4>3
    <3> QED
      BY <1>1, <3>1, <3>2
<1> QED
  BY <1>3, <1>4, <1>5 DEF t

LEMMA Cut ==
  ASSUME NEW s \in Seq(Lines), NEW t \in Seq(Lines), NEW from \in [Conn -> Nat],
         Rising(s \o t), After(s \o t, from)
  PROVE  Rising(s) /\ After(s, from) /\ (Gapless(s \o t, from) => Gapless(s, from))
<1> DEFINE u == s \o t
<1>1. /\ Len(s) \in Nat /\ Len(t) \in Nat /\ DOMAIN s = 1 .. Len(s) /\ DOMAIN u = 1 .. Len(s) + Len(t)
      /\ \A i \in 1 .. Len(s) : u[i] = s[i]
  OBVIOUS
<1> HIDE DEF u
<1>2. Rising(u) /\ After(u, from)
  BY DEF u
<1>3. Rising(s) /\ After(s, from)
  BY <1>1, <1>2, SMTT(30) DEF Rising, After
<1>4. Gapless(u, from) => Gapless(s, from)
  <2> SUFFICES ASSUME Gapless(u, from), NEW i \in 1 .. Len(s),
                      NEW k \in from[s[i][1]] + 1 .. s[i][2] - 1
               PROVE  \E j \in 1 .. i - 1 : s[j] = <<s[i][1], k>>
    BY <1>1 DEF Gapless
  <2>1. i \in DOMAIN u /\ u[i] = s[i]
    BY <1>1
  <2>2. PICK j \in 1 .. i - 1 : u[j] = <<s[i][1], k>>
    BY <2>1 DEF Gapless
  <2> QED
    BY <1>1, <2>2, SMTT(30)
<1> QED
  BY <1>3, <1>4 DEF u

LEMMA Moved ==
  ASSUME NEW s \in Seq(Lines), NEW q \in Seq(Lines), q # << >>
  PROVE  Append(s, Head(q)) \o Tail(q) = s \o q
<1>1. Append(s, Head(q)) \o Tail(q) \in Seq(Lines) /\ s \o q \in Seq(Lines)
  BY HeadTailProperties
<1>2. Len(Append(s, Head(q)) \o Tail(q)) = Len(s \o q)
  BY HeadTailProperties
<1>3. ASSUME NEW i \in 1 .. Len(s \o q)
      PROVE  (Append(s, Head(q)) \o Tail(q))[i] = (s \o q)[i]
  BY HeadTailProperties
<1> QED
  BY <1>1, <1>2, <1>3, SeqEqual

LEMMA AppendedLast ==
  ASSUME NEW s \in Seq(Lines), NEW q \in Seq(Lines), NEW x \in Lines
  PROVE  s \o Append(q, x) = Append(s \o q, x)
<1> QED
  OBVIOUS

-----------------------------------------------------------------------------
(* Channels and streams.                                                   *)

LEMMA ChannelSteps ==
  ASSUME [Next]_vars
  PROVE  \/ UNCHANGED <<queue, got, since, full>>
         \/ \E c \in Conn : MonitorSubscribe(c) \/ MonitorWrite(c) \/ \E m \in rest[c] : MonitorSend(c, m)
<1> DEFINE G == \/ UNCHANGED <<queue, got, since, full>>
         \/ \E c \in Conn : MonitorSubscribe(c) \/ MonitorWrite(c) \/ \E m \in rest[c] : MonitorSend(c, m)
<1> USE DEF monitors, files, life, clients
<1>1. CASE UNCHANGED vars
  BY <1>1 DEF vars
<1>2. ASSUME NEW c \in Conn, Connect(c) PROVE G
  BY <1>2 DEF Connect
<1>3. ASSUME NEW c \in Conn, Disconnect(c) PROVE G
  BY <1>3 DEF Disconnect
<1>4. ASSUME NEW c \in Conn, NEW x \in Commands, ReadGated(c, x) PROVE G
  BY <1>4 DEF ReadGated
<1>5. ASSUME NEW c \in Conn, NEW x \in Commands, Read(c, x) PROVE G
  BY <1>5 DEF Read
<1>6. ASSUME NEW c \in Conn, IncConnections(c) PROVE G
  BY <1>6 DEF IncConnections
<1>7. ASSUME NEW c \in Conn, ReadFails(c) PROVE G
  BY <1>7 DEF ReadFails
<1>8. ASSUME NEW c \in Conn, NEW n \in rest[c], MonitorSend(c, n) PROVE G
  BY <1>8
<1>9. ASSUME NEW c \in Conn, MonitorSent(c) PROVE G
  BY <1>9 DEF MonitorSent
<1>10. ASSUME NEW c \in Conn, Dispatch(c) PROVE G
  BY <1>10 DEF Dispatch
<1>11. ASSUME NEW c \in Conn, AppendLog(c) PROVE G
  BY <1>11 DEF AppendLog
<1>12. ASSUME NEW c \in Conn, Answer(c) PROVE G
  BY <1>12 DEF Answer
<1>13. ASSUME NEW c \in Conn, MonitorSubscribe(c) PROVE G
  BY <1>13
<1>14. ASSUME NEW c \in Conn, MonitorWrite(c) PROVE G
  BY <1>14
<1>15. ASSUME NEW c \in Conn, MonitorUnsubscribe(c) PROVE G
  BY <1>15 DEF MonitorUnsubscribe
<1>16. ASSUME NEW c \in Conn, Finish(c) PROVE G
  BY <1>16 DEF Finish
<1>17. ASSUME NEW c \in Conn, Accept(c) PROVE G
  BY <1>17 DEF Accept
<1>18. ASSUME NEW c \in Conn, Spawn(c) PROVE G
  BY <1>18 DEF Spawn
<1>19. CASE AcceptFails \/ TickerStops
  BY <1>19 DEF AcceptFails, TickerStops
<1>20. CASE Close
  BY <1>20 DEF Close, CloseListener, CloseStop, WaitEnds, ContextEnds, Save, CloseFiles,
               CloseStep
<1>21. ASSUME NEW c \in Conn, NEW x \in May[c] \cap Commands, Send(c, x) PROVE G
  BY <1>21 DEF Send
<1>22. ASSUME NEW c \in Conn, SubscriberEnds(c) PROVE G
  BY <1>22 DEF SubscriberEnds
<1> QED
  BY <1>1, <1>2, <1>3, <1>4, <1>5, <1>6, <1>7, <1>8, <1>9, <1>10, <1>11,
     <1>12, <1>13, <1>14, <1>15, <1>16, <1>17, <1>18, <1>19, <1>20, <1>21, <1>22 DEF Next,
     Client, Handler, AcceptLoop

LEMMA ChannelsKept == ASSUME Base, [Next]_vars PROVE Channels'
<1> USE DEF Base, Channels
<1>1. CASE UNCHANGED <<queue, got, since, full>>
  BY <1>1
<1>2. ASSUME NEW c \in Conn, MonitorSubscribe(c) PROVE Channels'
  <2>1. since' = [since EXCEPT ![c] = sent] /\ sent \in [Conn -> Nat] /\ UNCHANGED <<queue, got>>
    BY <1>2 DEF MonitorSubscribe, Shapes
  <2> QED
    BY <2>1
<1>3. ASSUME NEW c \in Conn, MonitorWrite(c) PROVE Channels'
  <2>1. /\ queue[c] \in Seq(Lines) /\ queue[c] # << >> /\ got[c] \in Seq(Lines)
        /\ queue' = [queue EXCEPT ![c] = Tail(queue[c])]
        /\ UNCHANGED since
    BY <1>3 DEF MonitorWrite
  <2>2. Tail(queue[c]) \in Seq(Lines) /\ Len(Tail(queue[c])) <= Buffer
    BY <2>1, HeadTailProperties, ServerAssumption DEF ServerAssumption
  <2>3. got' = got \/ got' = [got EXCEPT ![c] = Append(got[c], Head(queue[c]))]
    BY <1>3 DEF MonitorWrite
  <2>4. Append(got[c], Head(queue[c])) \in Seq(Lines)
    BY <2>1, HeadTailProperties
  <2>5. got' \in [Conn -> Seq(Lines)]
    BY <2>3, <2>4
  <2> QED
    BY <2>1, <2>2, <2>5
<1>4. ASSUME NEW c \in Conn, NEW m \in rest[c], MonitorSend(c, m) PROVE Channels'
  <2>1. m \in Conn /\ queue[m] \in Seq(Lines) /\ UNCHANGED <<got, since>>
    BY <1>4 DEF MonitorSend, Shapes
  <2>2. CASE Len(queue[m]) < Buffer /\ queue' = [queue EXCEPT ![m] = Append(queue[m], Line(c))]
    <3>1. Line(c) \in Lines
      BY <1>4 DEF MonitorSend, AtWork, Shapes, Line, Lines
    <3>2. /\ Append(queue[m], Line(c)) \in Seq(Lines)
          /\ Len(Append(queue[m], Line(c))) = Len(queue[m]) + 1
      BY <2>1, <3>1
    <3>3. Len(queue[m]) + 1 <= Buffer
      BY <2>1, <2>2, ServerAssumption DEF ServerAssumption
    <3> QED
      BY <2>1, <2>2, <3>2, <3>3
  <2>3. CASE UNCHANGED queue
    BY <2>1, <2>3
  <2> QED
    BY <1>4, <2>2, <2>3 DEF MonitorSend
<1> QED
  BY <1>1, <1>2, <1>3, <1>4, ChannelSteps

(* The lines of c that have been sent to monitor m, or dropped.            *)
Due(m, c) == IF m \in rest[c] THEN sent[c] - 1 ELSE sent[c]

(* A monitor has got, or has in its channel, lines sent to it since it was *)
(* registered: all of them, unless it was full once.                       *)
Heard(m) ==
  \A c \in Conn :
    /\ since[m][c] <= Due(m, c)
    /\ \A i \in DOMAIN Stream(m) : Stream(m)[i][1] = c => Stream(m)[i][2] <= Due(m, c)
    /\ m \notin full =>
         \A k \in since[m][c] + 1 .. Due(m, c) : \E i \in DOMAIN Stream(m) : Stream(m)[i] = <<c, k>>

Ordered(m) ==
  /\ Rising(Stream(m)) /\ After(Stream(m), since[m])
  /\ m \notin full => Gapless(Stream(m), since[m])

Monitoring == {"monitor", "unmonitor", "finish", "gone"}

Streams ==
  \A m \in Conn :
    /\ pc[m] \notin Monitoring => got[m] = << >> /\ queue[m] = << >> /\ m \notin full
    /\ pc[m] = "monitor" => Heard(m)
    /\ Ordered(m)

(* What a step that is not m's monitoring, nor sends to m, leaves alone.   *)
Leaves(m) ==
  /\ UNCHANGED <<queue[m], got[m], since[m]>> /\ (m \in full' <=> m \in full)
  /\ pc'[m] = "monitor" <=> pc[m] = "monitor"
  /\ pc[m] \in Monitoring => pc'[m] \in Monitoring
  /\ pc[m] = "monitor" => \A d \in Conn : Due(m, d)' = Due(m, d)

LEMMA Untouched ==
  ASSUME Base, [Next]_vars, NEW m \in Conn, ~MonitorSubscribe(m), ~MonitorWrite(m),
         \A c \in Conn : ~MonitorSend(c, m)
  PROVE  Leaves(m)
<1> USE DEF Base, Shapes, Registry, Channels, Leaves, Monitoring, Due, Served, Goes, monitors, files, life, clients
<1>1. CASE UNCHANGED vars
  BY <1>1 DEF vars
<1>2. ASSUME NEW c \in Conn, Connect(c) PROVE Leaves(m)
  BY <1>2 DEF Connect
<1>3. ASSUME NEW c \in Conn, Disconnect(c) PROVE Leaves(m)
  BY <1>3 DEF Disconnect
<1>4. ASSUME NEW c \in Conn, NEW x \in Commands, ReadGated(c, x) PROVE Leaves(m)
  BY <1>4 DEF ReadGated
<1>5. ASSUME NEW c \in Conn, NEW x \in Commands, Read(c, x) PROVE Leaves(m)
  <2>1. UNCHANGED monitors /\ pc'[c] # "monitor" /\ pc[c] = "read"
    BY <1>5 DEF Read
  <2>2. \A d \in Conn \ {c} : pc'[d] = pc[d] /\ rest'[d] = rest[d] /\ sent'[d] = sent[d]
    BY <1>5 DEF Read
  <2>3. pc[m] = "monitor" => m \in rest'[c]
    BY <1>5 DEF Read
  <2>4. pc[m] = "monitor" => m \notin rest[c]
    BY <1>5 DEF Read
  <2>5. sent[c] \in Nat /\ sent'[c] = sent[c] + 1
    BY <1>5 DEF Read
  <2>6. pc[m] = "monitor" => Due(m, c)' = Due(m, c)
    <3> SUFFICES ASSUME pc[m] = "monitor" PROVE Due(m, c)' = Due(m, c)
      OBVIOUS
    <3>1. Due(m, c)' = sent'[c] - 1 /\ Due(m, c) = sent[c]
      BY <2>3, <2>4
    <3> HIDE DEF Due
    <3> QED
      BY <2>5, <3>1, NextNat
  <2> QED
    BY <2>1, <2>2, <2>6
<1>6. ASSUME NEW c \in Conn, IncConnections(c) PROVE Leaves(m)
  BY <1>6 DEF IncConnections
<1>7. ASSUME NEW c \in Conn, ReadFails(c) PROVE Leaves(m)
  BY <1>7 DEF ReadFails
<1>8. ASSUME NEW c \in Conn, NEW n \in rest[c], MonitorSend(c, n) PROVE Leaves(m)
  <2>1. UNCHANGED <<pc, sent, got, since>> /\ m # n
    BY <1>8 DEF MonitorSend
  <2>2. UNCHANGED queue[m] /\ (m \in full' <=> m \in full)
    BY <1>8, <2>1 DEF MonitorSend
  <2>3. \A d \in Conn : m \in rest'[d] <=> m \in rest[d]
    BY <1>8, <2>1 DEF MonitorSend
  <2> QED
    BY <2>1, <2>2, <2>3
<1>9. ASSUME NEW c \in Conn, MonitorSent(c) PROVE Leaves(m)
  BY <1>9 DEF MonitorSent
<1>10. ASSUME NEW c \in Conn, Dispatch(c) PROVE Leaves(m)
  BY <1>10 DEF Dispatch
<1>11. ASSUME NEW c \in Conn, AppendLog(c) PROVE Leaves(m)
  BY <1>11 DEF AppendLog
<1>12. ASSUME NEW c \in Conn, Answer(c) PROVE Leaves(m)
  <2>1. /\ pc[c] \in {"answer", "answer gated"} /\ pc'[c] \in {"to monitor", "subscribed", "read", "finish"}
        /\ \A d \in Conn \ {c} : pc'[d] = pc[d]
        /\ UNCHANGED <<sent, rest, monitors>>
    BY <1>12 DEF Answer, Then
  <2> QED
    BY <2>1
<1>13. ASSUME NEW c \in Conn, MonitorSubscribe(c) PROVE Leaves(m)
  BY <1>13 DEF MonitorSubscribe
<1>14. ASSUME NEW c \in Conn, MonitorWrite(c) PROVE Leaves(m)
  BY <1>14 DEF MonitorWrite
<1>15. ASSUME NEW c \in Conn, MonitorUnsubscribe(c) PROVE Leaves(m)
  BY <1>15 DEF MonitorUnsubscribe
<1>16. ASSUME NEW c \in Conn, Finish(c) PROVE Leaves(m)
  BY <1>16 DEF Finish
<1>17. ASSUME NEW c \in Conn, Accept(c) PROVE Leaves(m)
  BY <1>17 DEF Accept
<1>18. ASSUME NEW c \in Conn, Spawn(c) PROVE Leaves(m)
  BY <1>18 DEF Spawn
<1>19. CASE AcceptFails \/ TickerStops
  BY <1>19 DEF AcceptFails, TickerStops
<1>20. CASE Close
  BY <1>20 DEF Close, CloseListener, CloseStop, WaitEnds, ContextEnds, Save, CloseFiles,
               CloseStep
<1>21. ASSUME NEW c \in Conn, NEW x \in May[c] \cap Commands, Send(c, x) PROVE Leaves(m)
  BY <1>21 DEF Send
<1>22. ASSUME NEW c \in Conn, SubscriberEnds(c) PROVE Leaves(m)
  BY <1>22 DEF SubscriberEnds
<1> HIDE DEF Leaves
<1> QED
  BY <1>1, <1>2, <1>3, <1>4, <1>5, <1>6, <1>7, <1>8, <1>9, <1>10, <1>11,
     <1>12, <1>13, <1>14, <1>15, <1>16, <1>17, <1>18, <1>19, <1>20, <1>21, <1>22 DEF Next,
     Client, Handler, AcceptLoop

LEMMA DueNat == ASSUME Base, NEW m \in Conn, NEW c \in Conn PROVE Due(m, c) \in Nat
<1>1. sent[c] \in Nat /\ (m \in rest[c] => sent[c] > 0)
  BY DEF Base, Shapes, AtWork
<1> QED
  BY <1>1 DEF Due

LEMMA StreamsKept == ASSUME Base, Streams, [Next]_vars PROVE Streams'
<1> DEFINE OK(m) == /\ pc[m] \notin Monitoring => got[m] = << >> /\ queue[m] = << >> /\ m \notin full
                    /\ pc[m] = "monitor" => Heard(m)
                    /\ Ordered(m)
<1> SUFFICES ASSUME NEW m \in Conn PROVE OK(m)'
  BY DEF Streams
<1>1. /\ got[m] \in Seq(Lines) /\ queue[m] \in Seq(Lines) /\ since[m] \in [Conn -> Nat]
      /\ OK(m) /\ Channels /\ Channels'
  BY ChannelsKept DEF Base, Channels, Streams
<1>2. CASE Leaves(m)
  <2>1. Stream(m)' = Stream(m) /\ since'[m] = since[m]
    BY <1>2 DEF Stream, Leaves
  <2>2. Ordered(m)'
    BY <1>1, <1>2, <2>1 DEF Ordered, Leaves
  <2>3. ASSUME pc'[m] = "monitor" PROVE Heard(m)'
    BY <1>1, <1>2, <2>1, <2>3 DEF Heard, Leaves
  <2> QED
    BY <1>1, <1>2, <2>2, <2>3 DEF Leaves
<1>3. CASE MonitorSubscribe(m)
  <2>1. /\ pc'[m] = "monitor" /\ got[m] = << >> /\ queue[m] = << >> /\ m \notin full
        /\ UNCHANGED <<got, queue, full, sent, rest>>
    BY <1>1, <1>3 DEF MonitorSubscribe, Goes, Base, Shapes, Monitoring
  <2>2. Stream(m)' = << >>
    BY <2>1 DEF Stream
  <2>3. Ordered(m)'
    BY <2>2 DEF Ordered, Rising, After, Gapless
  <2>4. ASSUME NEW c \in Conn PROVE sent[c] \in Nat /\ since'[m][c] = sent[c] /\ Due(m, c)' = sent[c]
    <3>1. rest[c] = {}
      BY <1>3 DEF MonitorSubscribe, Locked, Base, Shapes
    <3> QED
      BY <1>1, <1>3, <2>1, <3>1 DEF MonitorSubscribe, Due, Base, Shapes, Channels
  <2>5. Heard(m)'
    BY <2>2, <2>4 DEF Heard
  <2> QED
    BY <2>1, <2>3, <2>5 DEF Monitoring
<1>4. CASE MonitorWrite(m)
  <2>1. /\ pc[m] = "monitor" /\ queue[m] # << >> /\ UNCHANGED <<since, full, rest, sent>>
        /\ queue'[m] = Tail(queue[m]) /\ Stream(m) = got[m] \o queue[m] /\ Heard(m) /\ Ordered(m)
    BY <1>1, <1>4 DEF MonitorWrite, Stream, Channels, Monitoring
  <2>2. CASE got' = [got EXCEPT ![m] = Append(@, Head(queue[m]))] /\ UNCHANGED pc
    <3>1. Stream(m)' = Stream(m)
      BY <1>1, <2>1, <2>2, Moved DEF Stream, Channels
    <3> QED
      BY <2>1, <2>2, <3>1 DEF Ordered, Heard, Due, Monitoring
  <2>3. CASE Goes(m, "monitor", "unmonitor") /\ UNCHANGED got
    <3>1. pc'[m] = "unmonitor"
      BY <2>3 DEF Goes, Base, Shapes
    <3>2. Stream(m)' = got[m]
      BY <1>1, <2>3, <3>1 DEF Stream
    <3>3. Ordered(m)'
      BY <1>1, <2>1, <3>2, Cut DEF Ordered
    <3> QED
      BY <3>1, <3>3 DEF Monitoring
  <2> QED
    BY <1>4, <2>2, <2>3 DEF MonitorWrite
<1>5. ASSUME NEW c \in Conn, MonitorSend(c, m) PROVE OK(m)'
  <2>1. /\ pc[c] = "publish" /\ m \in rest[c] /\ m \in monSubs /\ pc[m] \in {"monitor", "unmonitor"}
        /\ rest' = [rest EXCEPT ![c] = @ \ {m}] /\ UNCHANGED <<pc, sent, got, since>>
        /\ sent[c] \in Nat \ {0}
    BY <1>5 DEF MonitorSend, Base, Shapes, Registry, AtWork
  <2>2. Due(m, c) = sent[c] - 1 /\ Due(m, c)' = sent[c]
    BY <2>1 DEF Due, Base, Shapes
  <2>3. \A d \in Conn \ {c} : Due(m, d)' = Due(m, d)
    BY <2>1 DEF Due, Base, Shapes
  <2>4. CASE pc[m] = "unmonitor"
    <3>1. Stream(m)' = Stream(m) /\ (m \in full => m \in full')
      BY <1>5, <2>1, <2>4 DEF Stream, MonitorSend
    <3> QED
      BY <1>1, <2>1, <2>4, <3>1 DEF Ordered, Monitoring
  <2>5. CASE pc[m] = "monitor" /\ UNCHANGED queue /\ m \in full'
    <3>1. Stream(m)' = Stream(m)
      BY <2>1, <2>5 DEF Stream
    <3>2. Ordered(m)'
      BY <1>1, <2>1, <2>5, <3>1 DEF Ordered
    <3>3. ASSUME NEW d \in Conn PROVE Due(m, d) \in Nat /\ Due(m, d)' \in Nat /\ Due(m, d) <= Due(m, d)'
      <4>1. CASE d = c
        BY <2>1, <2>2, <4>1
      <4>2. CASE d # c
        BY <2>3, <4>2, DueNat
      <4> QED
        BY <4>1, <4>2
    <3>4. \A d \in Conn : since[m][d] \in Nat /\ since[m][d] <= Due(m, d)
      BY <1>1, <2>5 DEF Heard, Monitoring
    <3>5. \A i \in DOMAIN Stream(m) : Stream(m)[i][1] \in Conn /\ Stream(m)[i][2] \in Nat
      <4>1. Stream(m) \in Seq(Lines)
        BY <1>1 DEF Stream
      <4> QED
        BY <4>1 DEF Lines
    <3>6. \A d \in Conn : \A i \in DOMAIN Stream(m) :
             Stream(m)[i][1] = d => Stream(m)[i][2] <= Due(m, d)
      BY <1>1, <2>5 DEF Heard, Monitoring
    <3>7. \A d \in Conn : since[m][d] <= Due(m, d)'
      BY <3>3, <3>4
    <3>8. \A d \in Conn : \A i \in DOMAIN Stream(m) :
             Stream(m)[i][1] = d => Stream(m)[i][2] <= Due(m, d)'
      BY <3>3, <3>5, <3>6
    <3>9. Heard(m)'
      BY <2>1, <2>5, <3>1, <3>7, <3>8 DEF Heard
    <3> QED
      BY <2>1, <2>5, <3>2, <3>9 DEF Monitoring
  <2>6. CASE pc[m] = "monitor" /\ queue'[m] = Append(queue[m], Line(c)) /\ UNCHANGED full
    <3> DEFINE s == Stream(m)
    <3>1. s \in Seq(Lines) /\ Heard(m) /\ Ordered(m) /\ Line(c) = <<c, sent[c]>> /\ Line(c) \in Lines
      BY <1>1, <2>1, <2>6 DEF Stream, Line, Lines
    <3>2. Stream(m)' = Append(s, <<c, sent[c]>>)
      BY <1>1, <2>1, <2>6, <3>1, AppendedLast, ZenonT(30) DEF Stream
    <3>3. since[m][c] < sent[c] /\ \A i \in DOMAIN s : s[i][1] = c => s[i][2] < sent[c]
      BY <1>1, <2>1, <2>2, <3>1, SMTT(30) DEF Heard, Lines
    <3>4. m \notin full => \A k \in since[m][c] + 1 .. sent[c] - 1 : \E i \in DOMAIN s : s[i] = <<c, k>>
      BY <2>2, <3>1 DEF Heard
    <3>5. /\ Rising(s) /\ After(s, since[m]) /\ (m \notin full => Gapless(s, since[m]))
          /\ \A i \in DOMAIN s : s[i][1] \in Conn /\ s[i][2] \in Nat
      BY <3>1 DEF Ordered, Lines
    <3>6. ASSUME NEW d \in Conn
          PROVE  /\ since[m][d] \in Nat /\ since[m][d] <= Due(m, d)
                 /\ \A i \in DOMAIN s : s[i][1] = d => s[i][2] <= Due(m, d)
                 /\ m \notin full => \A k \in since[m][d] + 1 .. Due(m, d) :
                                       \E i \in DOMAIN s : s[i] = <<d, k>>
      BY <1>1, <3>1 DEF Heard
    <3> HIDE DEF s
    <3> DEFINE t == Append(s, <<c, sent[c]>>)
    <3>7. /\ Rising(t) /\ After(t, since[m])
          /\ m \notin full => Gapless(t, since[m])
      BY <1>1, <2>1, <3>1, <3>3, <3>4, <3>5, Appended
    <3>8. /\ Len(s) \in Nat /\ DOMAIN s = 1 .. Len(s) /\ DOMAIN t = 1 .. Len(s) + 1
          /\ t[Len(s) + 1] = <<c, sent[c]>> /\ \A i \in 1 .. Len(s) : t[i] = s[i]
      BY <3>1
    <3> HIDE DEF t
    <3>9. Stream(m)' = t /\ since' = since /\ full' = full
      BY <2>1, <2>6, <3>2 DEF t
    <3>10. Ordered(m)'
      BY <3>7, <3>9 DEF Ordered
    <3>11. ASSUME NEW d \in Conn
           PROVE  /\ since[m][d] <= Due(m, d)'
                  /\ \A i \in DOMAIN t : t[i][1] = d => t[i][2] <= Due(m, d)'
                  /\ m \notin full => \A k \in since[m][d] + 1 .. Due(m, d)' :
                                        \E i \in DOMAIN t : t[i] = <<d, k>>
      <4>1. CASE d = c
        <5>1. Due(m, c)' = sent[c] /\ sent[c] \in Nat \ {0}
          BY <2>1, <2>2
        <5>2. ASSUME NEW i \in DOMAIN t, t[i][1] = c PROVE t[i][2] <= sent[c]
          <6>1. CASE i \in 1 .. Len(s)
            BY <3>3, <3>5, <3>8, <5>1, <5>2, <6>1
          <6>2. CASE i = Len(s) + 1
            BY <3>8, <5>1, <6>2
          <6> QED
            BY <3>8, <6>1, <6>2
        <5>3. ASSUME m \notin full, NEW k \in since[m][c] + 1 .. sent[c]
              PROVE  \E i \in DOMAIN t : t[i] = <<c, k>>
          <6>1. CASE k = sent[c]
            BY <3>8, <6>1
          <6>2. CASE k # sent[c]
            <7>1. k \in since[m][c] + 1 .. sent[c] - 1
              BY <3>6, <5>1, <6>2
            <7>2. PICK i \in DOMAIN s : s[i] = <<c, k>>
              BY <3>4, <5>3, <7>1 DEF s
            <7> QED
              BY <3>8, <7>2
          <6> QED
            BY <6>1, <6>2
        <5> QED
          BY <3>3, <3>6, <4>1, <5>1, <5>2, <5>3
      <4>2. CASE d # c
        <5>1. Due(m, d)' = Due(m, d)
          BY <2>3, <4>2
        <5>4. \A i \in DOMAIN s : s[i][1] = d => s[i][2] <= Due(m, d)
          BY ONLY <3>6, d \in Conn
        <5>5. m \notin full => \A k \in since[m][d] + 1 .. Due(m, d) :
                                 \E i \in DOMAIN s : s[i] = <<d, k>>
          BY ONLY <3>6, d \in Conn
        <5>2. ASSUME NEW i \in DOMAIN t, t[i][1] = d PROVE t[i][2] <= Due(m, d)
          <6>1. i \in 1 .. Len(s) /\ t[i] = s[i]
            BY <3>8, <4>2, <5>2
          <6> QED
            BY <3>8, <5>2, <5>4, <6>1
        <5>3. ASSUME m \notin full, NEW k \in since[m][d] + 1 .. Due(m, d)
              PROVE  \E i \in DOMAIN t : t[i] = <<d, k>>
          <6>1. PICK i \in DOMAIN s : s[i] = <<d, k>>
            BY <5>3, <5>5
          <6> QED
            BY <3>8, <6>1
        <5> QED
          BY <3>6, <5>1, <5>2, <5>3
      <4> QED
        BY <4>1, <4>2
    <3>12. Heard(m)'
      BY <3>9, <3>11 DEF Heard
    <3> QED
      BY <2>1, <2>6, <3>10, <3>12 DEF Monitoring
  <2> QED
    BY <1>1, <1>5, <2>1, <2>4, <2>5, <2>6 DEF MonitorSend, Channels
<1> QED
  BY <1>2, <1>3, <1>4, <1>5, Untouched

-----------------------------------------------------------------------------
(* The counters.                                                           *)

(* No handler is accepted, counted or done.                                *)
Quiet ==
  /\ UNCHANGED <<acceptor, conns, wg, ticker>>
  /\ \A c \in Conn : pc'[c] = pc[c] \/ {pc[c], pc'[c]} \subseteq Served \ {"spawned"}
                     \/ {pc[c], pc'[c]} \subseteq {"new", "backlog"}

LEMMA CountSteps ==
  ASSUME Base, [Next]_vars
  PROVE  \/ Quiet \/ AcceptFails \/ TickerStops
         \/ \E c \in Conn : IncConnections(c) \/ Finish(c) \/ Accept(c) \/ Spawn(c)
<1> DEFINE G == \/ Quiet \/ AcceptFails \/ TickerStops
         \/ \E c \in Conn : IncConnections(c) \/ Finish(c) \/ Accept(c) \/ Spawn(c)
<1> USE DEF Base, Shapes, Quiet, Served, Goes, life, clients
<1>1. CASE UNCHANGED vars
  BY <1>1 DEF vars
<1>2. ASSUME NEW c \in Conn, Connect(c) PROVE G
  BY <1>2 DEF Connect
<1>3. ASSUME NEW c \in Conn, Disconnect(c) PROVE G
  BY <1>3 DEF Disconnect
<1>4. ASSUME NEW c \in Conn, NEW x \in Commands, ReadGated(c, x) PROVE G
  BY <1>4 DEF ReadGated
<1>5. ASSUME NEW c \in Conn, NEW x \in Commands, Read(c, x) PROVE G
  BY <1>5 DEF Read
<1>6. ASSUME NEW c \in Conn, IncConnections(c) PROVE G
  BY <1>6
<1>7. ASSUME NEW c \in Conn, ReadFails(c) PROVE G
  BY <1>7 DEF ReadFails
<1>8. ASSUME NEW c \in Conn, NEW n \in rest[c], MonitorSend(c, n) PROVE G
  BY <1>8 DEF MonitorSend
<1>9. ASSUME NEW c \in Conn, MonitorSent(c) PROVE G
  BY <1>9 DEF MonitorSent
<1>10. ASSUME NEW c \in Conn, Dispatch(c) PROVE G
  BY <1>10 DEF Dispatch
<1>11. ASSUME NEW c \in Conn, AppendLog(c) PROVE G
  BY <1>11 DEF AppendLog
<1>12. ASSUME NEW c \in Conn, Answer(c) PROVE G
  <2>1. \A d \in Conn \ {c} : pc'[d] = pc[d]
    BY <1>12 DEF Answer
  <2>2. pc[c] \in {"answer", "answer gated"} /\ pc'[c] \in {"to monitor", "subscribed", "read", "finish"}
    BY <1>12 DEF Answer, Then
  <2>3. UNCHANGED life
    BY <1>12 DEF Answer
  <2> QED
    BY <2>1, <2>2, <2>3
<1>13. ASSUME NEW c \in Conn, MonitorSubscribe(c) PROVE G
  BY <1>13 DEF MonitorSubscribe
<1>14. ASSUME NEW c \in Conn, MonitorWrite(c) PROVE G
  BY <1>14 DEF MonitorWrite
<1>15. ASSUME NEW c \in Conn, MonitorUnsubscribe(c) PROVE G
  BY <1>15 DEF MonitorUnsubscribe
<1>16. ASSUME NEW c \in Conn, Finish(c) PROVE G
  BY <1>16
<1>17. ASSUME NEW c \in Conn, Accept(c) PROVE G
  BY <1>17
<1>18. ASSUME NEW c \in Conn, Spawn(c) PROVE G
  BY <1>18
<1>19. CASE AcceptFails \/ TickerStops
  BY <1>19
<1>20. CASE Close
  BY <1>20 DEF Close, CloseListener, CloseStop, WaitEnds, ContextEnds, Save, CloseFiles,
               CloseStep
<1>21. ASSUME NEW c \in Conn, NEW x \in May[c] \cap Commands, Send(c, x) PROVE G
  BY <1>21 DEF Send
<1>22. ASSUME NEW c \in Conn, SubscriberEnds(c) PROVE G
  BY <1>22 DEF SubscriberEnds
<1> QED
  BY <1>1, <1>2, <1>3, <1>4, <1>5, <1>6, <1>7, <1>8, <1>9, <1>10, <1>11,
     <1>12, <1>13, <1>14, <1>15, <1>16, <1>17, <1>18, <1>19, <1>20, <1>21, <1>22 DEF Next,
     Client, Handler, AcceptLoop

LEMMA CountersInit == Init => CountersAgree
<1> SUFFICES ASSUME Init PROVE CountersAgree
  OBVIOUS
<1>1. Counted = {} /\ Waited = {"running"}
  BY DEF Init, Counted, Waited, Served
<1>2. Cardinality({}) = 0 /\ Cardinality({"running"}) = 1
  BY FS_EmptySet, FS_Singleton
<1> QED
  BY <1>1, <1>2, ServerAssumption DEF Init, CountersAgree, ServerAssumption

LEMMA SetsFinite ==
  /\ Counted \subseteq Conn /\ IsFiniteSet(Counted)
  /\ IsFiniteSet(Waited)
<1>1. Counted \subseteq Conn /\ {c \in Conn : pc[c] \in Served} \subseteq Conn
  BY DEF Counted
<1>2. IsFiniteSet(Counted) /\ IsFiniteSet({c \in Conn : pc[c] \in Served})
  BY <1>1, FS_Subset, ServerAssumption DEF ServerAssumption
<1>3. IsFiniteSet({ticker})
  BY FS_Singleton
<1>4. IsFiniteSet({ticker} \ {"ended"})
  BY <1>3, FS_Subset
<1> QED
  BY <1>1, <1>2, <1>4, FS_Union DEF Waited

LEMMA CountersKept == ASSUME Base, CountersAgree, [Next]_vars PROVE CountersAgree'
<1> USE DEF Served
<1>0. /\ pc \in [Conn -> Served \cup {"new", "backlog", "accepted", "gone"}]
      /\ Conn \cap {"accept", "running", "ended"} = {}
  BY ServerAssumption DEF ServerAssumption, Base, Shapes
<1>1. CASE Quiet
  <2>1. Counted' = Counted /\ Waited' = Waited
    BY <1>1 DEF Quiet, Counted, Waited
  <2>2. \A c \in Conn : pc'[c] = "accepted" <=> pc[c] = "accepted"
    BY <1>1 DEF Quiet
  <2> QED
    BY <1>1, <2>1, <2>2 DEF Quiet, CountersAgree
<1>2. ASSUME NEW c \in Conn, IncConnections(c) PROVE CountersAgree'
  <2>1. /\ pc[c] = "spawned" /\ pc' = [pc EXCEPT ![c] = "read"]
        /\ conns' = conns + 1 /\ UNCHANGED <<acceptor, wg, ticker>>
    BY <1>2 DEF IncConnections, Goes
  <2>2. Counted' = Counted \cup {c} /\ c \notin Counted /\ Waited' = Waited
    BY <1>0, <2>1 DEF Counted, Waited
  <2>3. Cardinality(Counted') = Cardinality(Counted) + 1
    BY <2>2, SetsFinite, FS_AddElement
  <2>4. \A d \in Conn : pc'[d] = "accepted" <=> pc[d] = "accepted"
    BY <1>0, <2>1
  <2> QED
    BY <2>1, <2>2, <2>3, <2>4 DEF CountersAgree
<1>3. ASSUME NEW c \in Conn, Finish(c) PROVE CountersAgree'
  <2>1. /\ pc[c] = "finish" /\ pc' = [pc EXCEPT ![c] = "gone"]
        /\ conns' = (IF conns > 0 THEN conns - 1 ELSE 0) /\ wg' = wg - 1
        /\ UNCHANGED <<acceptor, ticker>>
    BY <1>3 DEF Finish, Goes
  <2>2. /\ Counted' = Counted \ {c} /\ c \in Counted
        /\ Waited' = Waited \ {c} /\ c \in Waited
    BY <1>0, <2>1 DEF Counted, Waited, CountersAgree
  <2>3. /\ Cardinality(Counted') = Cardinality(Counted) - 1
        /\ Cardinality(Waited') = Cardinality(Waited) - 1
    BY <2>2, SetsFinite, FS_RemoveElement
  <2>4. conns > 0
    <3>1. Cardinality(Counted) \in Nat /\ Cardinality(Counted) # 0
      BY <2>2, SetsFinite, FS_CardinalityType, FS_EmptySet
    <3> QED
      BY <3>1 DEF CountersAgree
  <2>5. \A d \in Conn : pc'[d] = "accepted" <=> pc[d] = "accepted"
    BY <1>0, <2>1
  <2> QED
    BY <2>1, <2>2, <2>3, <2>4, <2>5 DEF CountersAgree
<1>4. ASSUME NEW c \in Conn, Accept(c) PROVE CountersAgree'
  <2>1. /\ pc[c] = "backlog" /\ pc' = [pc EXCEPT ![c] = "accepted"]
        /\ acceptor = "accept" /\ acceptor' = c /\ UNCHANGED <<conns, wg, ticker>>
    BY <1>4 DEF Accept, Goes
  <2>2. Counted' = Counted /\ Waited' = Waited
    BY <1>0, <2>1 DEF Counted, Waited
  <2>3. \A d \in Conn : pc'[d] = "accepted" <=> d = c
    BY <1>0, <2>1 DEF CountersAgree
  <2> QED
    BY <2>1, <2>2, <2>3 DEF CountersAgree
<1>5. ASSUME NEW c \in Conn, Spawn(c) PROVE CountersAgree'
  <2>1. /\ pc[c] = "accepted" /\ pc' = [pc EXCEPT ![c] = "spawned"]
        /\ acceptor = c /\ acceptor' = "accept" /\ wg' = wg + 1 /\ UNCHANGED <<conns, ticker>>
    BY <1>5 DEF Spawn, Goes
  <2>2. Counted' = Counted
    BY <1>0, <2>1 DEF Counted
  <2>3. Waited' = Waited \cup {c} /\ c \notin Waited
    BY <1>0, <2>1 DEF Waited, CountersAgree
  <2>4. Cardinality(Waited') = Cardinality(Waited) + 1
    BY <2>3, SetsFinite, FS_AddElement
  <2>5. \A d \in Conn : pc'[d] # "accepted"
    BY <1>0, <2>1 DEF CountersAgree
  <2> QED
    BY <1>0, <2>1, <2>2, <2>4, <2>5 DEF CountersAgree
<1>6. CASE AcceptFails
  <2>1. Counted' = Counted /\ Waited' = Waited
    BY <1>6 DEF AcceptFails, Counted, Waited
  <2>2. \A c \in Conn : pc[c] # "accepted"
    BY <1>0, <1>6 DEF AcceptFails, CountersAgree
  <2> QED
    BY <1>0, <1>6, <2>1, <2>2 DEF AcceptFails, CountersAgree
<1>7. CASE TickerStops
  <2>1. Counted' = Counted /\ Waited' = Waited \ {"running"} /\ "running" \in Waited
    BY <1>0, <1>7 DEF TickerStops, Counted, Waited
  <2>2. Cardinality(Waited') = Cardinality(Waited) - 1
    BY <2>1, SetsFinite, FS_RemoveElement
  <2> QED
    BY <1>7, <2>1, <2>2 DEF TickerStops, CountersAgree
<1> QED
  BY <1>1, <1>2, <1>3, <1>4, <1>5, <1>6, <1>7, CountSteps

-----------------------------------------------------------------------------
(* Close.                                                                  *)

(* Once Close has waited for all, no handler runs nor will, and its        *)
(* snapshot stays what memory is.                                          *)
Closing ==
  ~late =>
    /\ closer \in {"waited", "waited and saved", "done"} =>
         \A c \in Conn : pc[c] \in {"new", "backlog", "gone"}
    /\ closer \in {"waited and saved", "done"} => saved = data

LEMMA ClosingKept ==
  ASSUME Base, CountersAgree, Closing, [Next]_vars
  PROVE  Closing'
<1> USE DEF Base, Shapes, Closing, Closer, Served, Listening, Goes, files, life, clients
<1>1. CASE UNCHANGED vars
  BY <1>1 DEF vars
<1>2. ASSUME NEW c \in Conn, Connect(c) PROVE Closing'
  BY <1>2 DEF Connect
<1>3. ASSUME NEW c \in Conn, Disconnect(c) PROVE Closing'
  BY <1>3 DEF Disconnect
<1>4. ASSUME NEW c \in Conn, NEW x \in Commands, ReadGated(c, x) PROVE Closing'
  BY <1>4 DEF ReadGated
<1>5. ASSUME NEW c \in Conn, NEW x \in Commands, Read(c, x) PROVE Closing'
  BY <1>5 DEF Read
<1>6. ASSUME NEW c \in Conn, IncConnections(c) PROVE Closing'
  BY <1>6 DEF IncConnections
<1>7. ASSUME NEW c \in Conn, ReadFails(c) PROVE Closing'
  BY <1>7 DEF ReadFails
<1>8. ASSUME NEW c \in Conn, NEW n \in rest[c], MonitorSend(c, n) PROVE Closing'
  BY <1>8 DEF MonitorSend
<1>9. ASSUME NEW c \in Conn, MonitorSent(c) PROVE Closing'
  BY <1>9 DEF MonitorSent
<1>10. ASSUME NEW c \in Conn, Dispatch(c) PROVE Closing'
  BY <1>10 DEF Dispatch
<1>11. ASSUME NEW c \in Conn, AppendLog(c) PROVE Closing'
  BY <1>11 DEF AppendLog
<1>12. ASSUME NEW c \in Conn, Answer(c) PROVE Closing'
  BY <1>12 DEF Answer
<1>13. ASSUME NEW c \in Conn, MonitorSubscribe(c) PROVE Closing'
  BY <1>13 DEF MonitorSubscribe
<1>14. ASSUME NEW c \in Conn, MonitorWrite(c) PROVE Closing'
  BY <1>14 DEF MonitorWrite
<1>15. ASSUME NEW c \in Conn, MonitorUnsubscribe(c) PROVE Closing'
  BY <1>15 DEF MonitorUnsubscribe
<1>16. ASSUME NEW c \in Conn, Finish(c) PROVE Closing'
  BY <1>16 DEF Finish
<1>17. ASSUME NEW c \in Conn, Accept(c) PROVE Closing'
  BY <1>17 DEF Accept
<1>18. ASSUME NEW c \in Conn, Spawn(c) PROVE Closing'
  BY <1>18 DEF Spawn
<1>19. CASE AcceptFails \/ TickerStops
  BY <1>19 DEF AcceptFails, TickerStops
<1>20. CASE Close
  <2>1. CASE CloseListener \/ CloseStop \/ ContextEnds
    BY <2>1 DEF CloseListener, CloseStop, ContextEnds, CloseStep
  <2>2. CASE WaitEnds
    <3>1. Cardinality(Waited) = 0 /\ IsFiniteSet(Waited)
      BY <2>2, SetsFinite DEF WaitEnds, CountersAgree
    <3>2. Waited = {}
      BY <3>1, FS_EmptySet
    <3>3. ASSUME NEW c \in Conn, ~late' PROVE pc[c] \in {"new", "backlog", "gone"}
      <4>1. pc[c] \notin Served
        BY <3>2 DEF Waited
      <4>2. acceptor \notin Conn
        BY <2>2, <3>3 DEF WaitEnds
      <4> QED
        BY <4>1, <4>2 DEF CountersAgree
    <3> QED
      BY <2>2, <3>3 DEF WaitEnds, CloseStep
  <2>3. CASE Save
    BY <2>3 DEF Save, CloseStep
  <2>4. CASE CloseFiles
    BY <2>4 DEF CloseFiles, CloseStep
  <2> QED
    BY <1>20, <2>1, <2>2, <2>3, <2>4 DEF Close
<1>21. ASSUME NEW c \in Conn, NEW x \in May[c] \cap Commands, Send(c, x) PROVE Closing'
  BY <1>21 DEF Send
<1>22. ASSUME NEW c \in Conn, SubscriberEnds(c) PROVE Closing'
  BY <1>22 DEF SubscriberEnds
<1> QED
  BY <1>1, <1>2, <1>3, <1>4, <1>5, <1>6, <1>7, <1>8, <1>9, <1>10, <1>11,
     <1>12, <1>13, <1>14, <1>15, <1>16, <1>17, <1>18, <1>19, <1>20, <1>21, <1>22 DEF Next,
     Client, Handler, AcceptLoop

(* What the clients have sent.                                             *)

LEMMA InboxSteps ==
  ASSUME [Next]_vars
  PROVE  \/ UNCHANGED <<inbox, sent>>
         \/ \E c \in Conn : \/ \E x \in Commands : ReadGated(c, x) \/ Read(c, x) \/ Send(c, x)
                           \/ Finish(c)
<1> DEFINE G == \/ UNCHANGED <<inbox, sent>>
         \/ \E c \in Conn : \/ \E x \in Commands : ReadGated(c, x) \/ Read(c, x) \/ Send(c, x)
                           \/ Finish(c)
<1> USE DEF clients
<1>1. CASE UNCHANGED vars
  BY <1>1 DEF vars
<1>2. ASSUME NEW c \in Conn, Connect(c) PROVE G
  BY <1>2 DEF Connect
<1>3. ASSUME NEW c \in Conn, Disconnect(c) PROVE G
  BY <1>3 DEF Disconnect
<1>4. ASSUME NEW c \in Conn, NEW x \in Commands, ReadGated(c, x) PROVE G
  BY <1>4
<1>5. ASSUME NEW c \in Conn, NEW x \in Commands, Read(c, x) PROVE G
  BY <1>5
<1>6. ASSUME NEW c \in Conn, IncConnections(c) PROVE G
  BY <1>6 DEF IncConnections
<1>7. ASSUME NEW c \in Conn, ReadFails(c) PROVE G
  BY <1>7 DEF ReadFails
<1>8. ASSUME NEW c \in Conn, NEW n \in rest[c], MonitorSend(c, n) PROVE G
  BY <1>8 DEF MonitorSend
<1>9. ASSUME NEW c \in Conn, MonitorSent(c) PROVE G
  BY <1>9 DEF MonitorSent
<1>10. ASSUME NEW c \in Conn, Dispatch(c) PROVE G
  BY <1>10 DEF Dispatch
<1>11. ASSUME NEW c \in Conn, AppendLog(c) PROVE G
  BY <1>11 DEF AppendLog
<1>12. ASSUME NEW c \in Conn, Answer(c) PROVE G
  BY <1>12 DEF Answer
<1>13. ASSUME NEW c \in Conn, MonitorSubscribe(c) PROVE G
  BY <1>13 DEF MonitorSubscribe
<1>14. ASSUME NEW c \in Conn, MonitorWrite(c) PROVE G
  BY <1>14 DEF MonitorWrite
<1>15. ASSUME NEW c \in Conn, MonitorUnsubscribe(c) PROVE G
  BY <1>15 DEF MonitorUnsubscribe
<1>16. ASSUME NEW c \in Conn, Finish(c) PROVE G
  BY <1>16
<1>17. ASSUME NEW c \in Conn, Accept(c) PROVE G
  BY <1>17 DEF Accept
<1>18. ASSUME NEW c \in Conn, Spawn(c) PROVE G
  BY <1>18 DEF Spawn
<1>19. CASE AcceptFails \/ TickerStops
  BY <1>19 DEF AcceptFails, TickerStops
<1>20. CASE Close
  BY <1>20 DEF Close, CloseListener, CloseStop, WaitEnds, ContextEnds, Save, CloseFiles,
               CloseStep
<1>21. ASSUME NEW c \in Conn, NEW x \in May[c] \cap Commands, Send(c, x) PROVE G
  BY <1>21
<1>22. ASSUME NEW c \in Conn, SubscriberEnds(c) PROVE G
  BY <1>22 DEF SubscriberEnds
<1> QED
  BY <1>1, <1>2, <1>3, <1>4, <1>5, <1>6, <1>7, <1>8, <1>9, <1>10, <1>11,
     <1>12, <1>13, <1>14, <1>15, <1>16, <1>17, <1>18, <1>19, <1>20, <1>21, <1>22 DEF Next,
     Client, Handler, AcceptLoop

LEMMA InboxesKept == ASSUME Base, [Next]_vars PROVE Inboxes'
<1> USE ServerAssumption DEF ServerAssumption, Base, Shapes, Inboxes
<1>1. CASE UNCHANGED <<inbox, sent>>
  BY <1>1
<1>2. ASSUME NEW c \in Conn, NEW x \in Commands, ReadGated(c, x) \/ Read(c, x) PROVE Inboxes'
  <2>1. /\ inbox[c] \in Seq(Commands) /\ inbox[c] # << >>
        /\ inbox' = [inbox EXCEPT ![c] = Tail(inbox[c])]
    BY <1>2 DEF ReadGated, Read, Takes
  <2>2. Tail(inbox[c]) \in Seq(Commands) /\ Len(Tail(inbox[c])) = Len(inbox[c]) - 1
    BY <2>1, HeadTailProperties
  <2>3. sent' = sent \/ sent' = [sent EXCEPT ![c] = sent[c] + 1]
    BY <1>2 DEF ReadGated, Read
  <2>4. sent[c] \in Nat /\ Len(inbox[c]) \in Nat /\ MaxSent[c] \in Nat
    BY <2>1
  <2>5. Len(Tail(inbox[c])) <= MaxUnread /\ sent'[c] + Len(Tail(inbox[c])) <= MaxSent[c]
    BY <2>2, <2>3, <2>4
  <2>6. \A d \in Conn \ {c} : inbox'[d] = inbox[d] /\ sent'[d] = sent[d]
    BY <2>1, <2>3
  <2> QED
    BY <2>1, <2>2, <2>5, <2>6
<1>3. ASSUME NEW c \in Conn, NEW x \in Commands, Send(c, x) PROVE Inboxes'
  <2>1. /\ inbox[c] \in Seq(Commands) /\ UNCHANGED sent
        /\ inbox' = [inbox EXCEPT ![c] = Append(inbox[c], x)]
        /\ Len(inbox[c]) < MaxUnread /\ sent[c] + Len(inbox[c]) < MaxSent[c]
    BY <1>3 DEF Send
  <2>2. Append(inbox[c], x) \in Seq(Commands) /\ Len(Append(inbox[c], x)) = Len(inbox[c]) + 1
    BY <2>1
  <2>3. sent[c] \in Nat /\ Len(inbox[c]) \in Nat /\ MaxSent[c] \in Nat
    BY <2>1
  <2>4. Len(Append(inbox[c], x)) <= MaxUnread /\ sent[c] + Len(Append(inbox[c], x)) <= MaxSent[c]
    BY <2>1, <2>2, <2>3
  <2> QED
    BY <2>1, <2>2, <2>4
<1>4. ASSUME NEW c \in Conn, Finish(c) PROVE Inboxes'
  <2>1. inbox' = [inbox EXCEPT ![c] = << >>] /\ UNCHANGED sent
    BY <1>4 DEF Finish
  <2>2. << >> \in Seq(Commands) /\ Len(<< >>) = 0 /\ Len(inbox[c]) \in Nat /\ sent[c] \in Nat
        /\ MaxSent[c] \in Nat
    OBVIOUS
  <2>3. Len(<< >>) <= MaxUnread /\ sent[c] + Len(<< >>) <= MaxSent[c]
    BY <2>2
  <2> QED
    BY <2>1, <2>2, <2>3
<1> QED
  BY <1>1, <1>2, <1>3, <1>4, InboxSteps

-----------------------------------------------------------------------------
IInv == Base /\ CountersAgree /\ Streams /\ Closing

LEMMA InitIInv == Init => IInv
<1> SUFFICES ASSUME Init PROVE IInv
  OBVIOUS
<1>1. Closing
  BY DEF Init, Closing
<1>2. Streams
  <2>1. \A m \in Conn : Stream(m) = << >> /\ pc[m] = "new"
                        /\ got[m] = << >> /\ queue[m] = << >> /\ m \notin full
    BY DEF Init, Stream
  <2>2. \A m \in Conn : Ordered(m)
    BY <2>1 DEF Ordered, Rising, After, Gapless
  <2> QED
    BY <2>1, <2>2 DEF Streams
<1> QED
  BY <1>1, <1>2, BaseInit, CountersInit DEF IInv

LEMMA NextIInv == IInv /\ [Next]_vars => IInv'
BY ShapesKept, InboxesKept, AtWorkKept, FilesKept, ChannelsKept, RegistryKept, CountersKept, StreamsKept,
   ClosingKept DEF IInv, Base

THEOREM Invariance == Spec => []IInv
BY InitIInv, NextIInv, PTL DEF Spec

-----------------------------------------------------------------------------
(* The results.                                                            *)

(* The state has the shapes it should; connected_clients and the wait      *)
(* group count the handlers there are, whatever clients and Close do       *)
(* (server.go:184-190, 230-237).                                           *)
THEOREM Types == Spec => []TypeOK
<1>1. IInv => TypeOK
  BY DEF IInv, Base, Shapes, Inboxes, Channels, Files, TypeOK
<1> QED
  BY <1>1, Invariance, PTL

(* No command is ever sent on a closed monitor channel                     *)
(* (system_command.go:201-214, server.go:309-318).                         *)
THEOREM NoSendOnClosed == Spec => []MonitorsOpen
<1>1. IInv => MonitorsOpen
  <2> SUFFICES ASSUME IInv, NEW m \in monSubs, m \in closed PROVE FALSE
    BY DEF IInv, Base, Registry, MonitorsOpen
  <2> QED
    BY DEF IInv, Base, Registry
<1> QED
  BY <1>1, Invariance, PTL

(* Every monitor gets each connection's lines in order, and all of them    *)
(* as long as its channel has not been full, for any number of monitors,   *)
(* publishers and commands (system_command.go:203-214).                    *)
THEOREM StreamsInOrder == Spec => []MonitorStream
<1>1. IInv => MonitorStream
  BY DEF IInv, Streams, Ordered, MonitorStream
<1> QED
  BY <1>1, Invariance, PTL

(* A Close that has waited for every handler has saved what was answered   *)
(* (server.go:194-228).                                                    *)
THEOREM ClosedSaved == Spec => []CloseSavesAnswered
<1>1. IInv => CloseSavesAnswered
  BY DEF IInv, Base, Files, Closing, CloseSavesAnswered
<1> QED
  BY <1>1, Invariance, PTL
=============================================================================

------------------------------- MODULE Server -------------------------------
(***************************************************************************)
(* Connections: the accept loop, one handler per connection with the AUTH  *)
(* gate, MONITOR and its channels, SUBSCRIBE as far as the handler of the  *)
(* connection goes, the background task, and Close.                        *)
(* Close is called by no one in this repository; here some caller calls it *)
(* once, at any time, and the process goes on after it.                    *)
(* A connection becomes a monitor at most once, for it never reads another *)
(* command: the Go channel MonitorSubscribe makes is named after it.       *)
(***************************************************************************)
EXTENDS Integers, Sequences, FiniteSets

CONSTANTS
  Conn,
  Auth,      \* a password is configured
  May,       \* May[c]: what the client of c may do
  MaxSent,   \* bound: MaxSent[c]: how many commands of c pass the gate or wait
  MaxUnread, \* bound: how many commands of a connection wait to be read
  Buffer,    \* the capacity of a monitor's channel: 128
  MayClose   \* some caller calls Close

Commands == {"SET", "PING", "AUTH", "WRONG AUTH", "SUBSCRIBE", "MONITOR"}

ASSUME ServerAssumption ==
  /\ Auth \in BOOLEAN /\ MayClose \in BOOLEAN
  /\ May \in [Conn -> SUBSET (Commands \cup {"LEAVE"})]
  /\ MaxSent \in [Conn -> Nat] /\ MaxUnread \in Nat /\ Buffer \in Nat \ {0}
  /\ IsFiniteSet(Conn) /\ Conn \cap {"accept", "running", "ended"} = {}

VARIABLES
  pc,        \* pc[c]: where the handler of c is, or c without one
  alive,     \* the connections whose client is there
  inbox,     \* inbox[c]: the commands sent on c that have not been read
  authed,    \* the connections that have given the password
  cmd,       \* cmd[c]: the command that the handler of c works on, or "none"
  sent,      \* sent[c]: how many commands of c have passed the gate
  monSubs,   \* the monitors registered
  queue,     \* queue[m]: the lines in the channel of monitor m
  closed,    \* the channels of monitors that have been closed
  rest,      \* rest[c]: the monitors c's MonitorPublish has still to send to
  acceptor,  \* the accept loop: "accept", a connection to spawn for, "ended"
  conns,     \* currentConns: what INFO shows as connected_clients
  wg,        \* the counter of the wait group
  ticker,    \* the background task that rewrites the AOF: "running", "ended"
  closer,    \* Close: the step it is at
  data, logged, saved,  \* the SETs done in memory, appended, in Close's snapshot
  answered,  \* history: the SETs answered
  got,       \* history: got[m]: the lines written to monitor m
  full,      \* history: the monitors that a line was dropped for
  since,     \* history: since[m]: sent, when m became a monitor
  late       \* history: Close waited while a connection was not yet counted

clients  == <<alive, inbox>>
files    == <<data, logged, saved>>
monitors == <<monSubs, queue, closed, got, full, since>>
life     == <<acceptor, conns, wg, ticker, closer, late>>
vars == <<pc, clients, authed, cmd, sent, rest, monitors, files, answered, life>>

Init ==
  /\ pc       = [c \in Conn |-> "new"]
  /\ alive    = Conn
  /\ inbox    = [c \in Conn |-> << >>]
  /\ authed   = IF Auth THEN {} ELSE Conn
  /\ cmd      = [c \in Conn |-> "none"]
  /\ sent     = [c \in Conn |-> 0]
  /\ rest     = [c \in Conn |-> {}]
  /\ monSubs  = {} /\ closed = {} /\ full = {}
  /\ queue    = [m \in Conn |-> << >>]
  /\ got      = [m \in Conn |-> << >>]
  /\ since    = [m \in Conn |-> [c \in Conn |-> 0]]
  /\ data     = {} /\ logged = {} /\ saved = {} /\ answered = {}
  /\ acceptor = "accept"
  /\ conns    = 0
  /\ wg       = 1  \* startBackgroundTasks
  /\ ticker   = "running"
  /\ closer   = "idle"
  /\ late     = FALSE

Goes(c, from, to) == pc[c] = from /\ pc' = [pc EXCEPT ![c] = to]

Listening == closer = "idle"
Stopped   == closer \notin {"idle", "unlistened"}  \* stopCh is closed

-----------------------------------------------------------------------------
(* The accept loop.                                                        *)
Connect(c) ==
  /\ Listening /\ c \in alive /\ Goes(c, "new", "backlog")
  /\ UNCHANGED <<clients, authed, cmd, sent, rest, monitors, files, answered, life>>

Accept(c) ==
  /\ Listening /\ acceptor = "accept" /\ Goes(c, "backlog", "accepted")
  /\ acceptor' = c
  /\ UNCHANGED <<clients, authed, cmd, sent, rest, monitors, files, answered,
                 conns, wg, ticker, closer, late>>

(* wg.Add and the go statement.                                            *)
Spawn(c) ==
  /\ acceptor = c /\ Goes(c, "accepted", "spawned")
  /\ acceptor' = "accept"
  /\ wg' = wg + 1
  /\ UNCHANGED <<clients, authed, cmd, sent, rest, monitors, files, answered,
                 conns, ticker, closer, late>>

(* Mutant of AcceptFails: the loop goes on after any error.                *)
AcceptRetries ==
  /\ ~Listening /\ acceptor = "accept" /\ Stopped
  /\ acceptor' = "accept"
  /\ UNCHANGED <<pc, clients, authed, cmd, sent, rest, monitors, files, answered,
                 conns, wg, ticker, closer, late>>

(* Accept fails for good; before stopCh is closed the loop goes on.        *)
AcceptFails ==
  /\ ~Listening /\ acceptor = "accept" /\ Stopped
  /\ acceptor' = "ended"
  /\ UNCHANGED <<pc, clients, authed, cmd, sent, rest, monitors, files, answered,
                 conns, wg, ticker, closer, late>>

-----------------------------------------------------------------------------
(* A handler.                                                              *)
IncConnections(c) ==
  /\ Goes(c, "spawned", "read")
  /\ conns' = conns + 1
  /\ UNCHANGED <<clients, authed, cmd, sent, rest, monitors, files, answered,
                 acceptor, wg, ticker, closer, late>>

(* The next command that has come, the client still there or not.          *)
Takes(c, x) ==
  /\ inbox[c] # << >> /\ x = Head(inbox[c])
  /\ inbox' = [inbox EXCEPT ![c] = Tail(@)]

(* A command before the password: AUTH and the refusals are answered       *)
(* without going further.                                                  *)
ReadGated(c, x) ==
  /\ Takes(c, x) /\ c \notin authed /\ x # "PING"
  /\ Goes(c, "read", "answer gated")
  /\ cmd' = [cmd EXCEPT ![c] = x]
  /\ authed' = IF x = "AUTH" THEN authed \cup {c} ELSE authed
  /\ UNCHANGED <<alive, sent, rest, monitors, files, answered, life>>

(* A command past the gate: MonitorPublish takes the read lock and, if     *)
(* there are monitors, goes round them.                                    *)
Read(c, x) ==
  /\ Takes(c, x) /\ (c \in authed \/ x = "PING")
  /\ Goes(c, "read", IF monSubs = {} THEN "dispatch" ELSE "publish")
  /\ cmd'  = [cmd EXCEPT ![c] = x]
  /\ sent' = [sent EXCEPT ![c] = @ + 1]
  /\ rest' = [rest EXCEPT ![c] = monSubs]
  /\ UNCHANGED <<alive, authed, monitors, files, answered, life>>

(* Mutant of ReadFails: errors are not told from empty requests.           *)
ReadRetries(c) ==
  /\ Goes(c, "read", "read")
  /\ UNCHANGED <<clients, authed, cmd, sent, rest, monitors, files, answered, life>>

(* The read fails: the client has gone, or the read deadline has passed;   *)
(* what was still on the way is lost.                                      *)
ReadFails(c) ==
  /\ Goes(c, "read", "finish")
  /\ UNCHANGED <<clients, authed, cmd, sent, rest, monitors, files, answered, life>>

Line(c) == <<c, sent[c]>>

(* Mutant of MonitorSend: a full channel loses its oldest line instead.    *)
SendDroppingOldest(c, m) ==
  /\ pc[c] = "publish" /\ m \in rest[c]
  /\ queue' = [queue EXCEPT ![m] = IF Len(@) < Buffer THEN Append(@, Line(c))
                                                     ELSE Append(Tail(@), Line(c))]
  /\ rest' = [rest EXCEPT ![c] = @ \ {m}]
  /\ UNCHANGED <<pc, clients, authed, cmd, sent, monSubs, closed, got, full, since, files,
                 answered, life>>

MonitorSend(c, m) ==
  /\ pc[c] = "publish" /\ m \in rest[c]
  /\ IF Len(queue[m]) < Buffer
     THEN queue' = [queue EXCEPT ![m] = Append(@, Line(c))] /\ UNCHANGED full
     ELSE full' = full \cup {m} /\ UNCHANGED queue
  /\ rest' = [rest EXCEPT ![c] = @ \ {m}]
  /\ UNCHANGED <<pc, clients, authed, cmd, sent, monSubs, closed, got, since, files,
                 answered, life>>

MonitorSent(c) ==
  /\ rest[c] = {} /\ Goes(c, "publish", "dispatch")
  /\ UNCHANGED <<clients, authed, cmd, sent, rest, monitors, files, answered, life>>

(* dispatchCommand: SET changes memory and then appends to the log.        *)
Dispatch(c) ==
  /\ Goes(c, "dispatch", IF cmd[c] = "SET" THEN "append" ELSE "answer")
  /\ data' = IF cmd[c] = "SET" THEN data \cup {Line(c)} ELSE data
  /\ UNCHANGED <<clients, authed, cmd, sent, rest, monitors, logged, saved, answered, life>>

(* Appending to a closed file is an error, and the handler drops it.       *)
AppendLog(c) ==
  /\ Goes(c, "append", "answer")
  /\ logged' = IF closer = "done" THEN logged ELSE logged \cup {Line(c)}
  /\ UNCHANGED <<clients, authed, cmd, sent, rest, monitors, data, saved, answered, life>>

(* The answer is written and the client reads it, or the write fails; the  *)
(* answer to MONITOR or SUBSCRIBE is the last command's of the connection. *)
Then(x) == CASE x = "MONITOR"   -> "to monitor"
             [] x = "SUBSCRIBE" -> "subscribed"
             [] OTHER           -> "read"

Answer(c) ==
  /\ \/ /\ Goes(c, "answer", Then(cmd[c]))
        /\ answered' = IF cmd[c] = "SET" THEN answered \cup {Line(c)} ELSE answered
     \/ Goes(c, "answer gated", "read") /\ UNCHANGED answered
     \/ /\ pc[c] \in {"answer", "answer gated"} /\ Goes(c, pc[c], "finish")
        /\ UNCHANGED answered
  /\ cmd' = [cmd EXCEPT ![c] = "none"]
  /\ UNCHANGED <<clients, authed, sent, rest, monitors, files, life>>

(* pubsubMode: there is no channel, or it is closed, or a message cannot   *)
(* be written; module Pubsub says when.  No one makes any of it happen.    *)
SubscriberEnds(c) ==
  /\ Goes(c, "subscribed", "finish")
  /\ UNCHANGED <<clients, authed, cmd, sent, rest, monitors, files, answered, life>>

-----------------------------------------------------------------------------
(* monitorMode.  Its registry's lock waits for the publishers.             *)
Locked == \E c \in Conn : pc[c] = "publish"

MonitorSubscribe(c) ==
  /\ ~Locked /\ Goes(c, "to monitor", "monitor")
  /\ monSubs' = monSubs \cup {c}
  /\ since' = [since EXCEPT ![c] = sent]
  /\ UNCHANGED <<clients, authed, cmd, sent, rest, queue, closed, got, full, files,
                 answered, life>>

(* A line is written, or cannot be: only that ends a monitor.              *)
MonitorWrite(c) ==
  /\ pc[c] = "monitor" /\ queue[c] # << >>
  /\ queue' = [queue EXCEPT ![c] = Tail(@)]
  /\ \/ got' = [got EXCEPT ![c] = Append(@, Head(queue[c]))] /\ UNCHANGED pc
     \/ Goes(c, "monitor", "unmonitor") /\ UNCHANGED got
  /\ UNCHANGED <<clients, authed, cmd, sent, rest, monSubs, closed, full, since, files,
                 answered, life>>

(* Mutant of MonitorUnsubscribe: without the lock.                         *)
UnsubscribeUnlocked(c) ==
  /\ Goes(c, "unmonitor", "finish")
  /\ monSubs' = monSubs \ {c}
  /\ closed'  = closed \cup {c}
  /\ UNCHANGED <<clients, authed, cmd, sent, rest, queue, got, full, since, files,
                 answered, life>>

MonitorUnsubscribe(c) ==
  /\ ~Locked /\ Goes(c, "unmonitor", "finish")
  /\ monSubs' = monSubs \ {c}
  /\ closed'  = closed \cup {c}
  /\ UNCHANGED <<clients, authed, cmd, sent, rest, queue, got, full, since, files,
                 answered, life>>

(* Mutant of Finish: the wait group is not told.                           *)
FinishNotDone(c) ==
  /\ Goes(c, "finish", "gone")
  /\ inbox' = [inbox EXCEPT ![c] = << >>]
  /\ conns' = IF conns > 0 THEN conns - 1 ELSE 0
  /\ UNCHANGED <<alive, authed, cmd, sent, rest, monitors, files, answered,
                 acceptor, wg, ticker, closer, late>>

(* conn.Close, which drops what is unread, DecConnections, wg.Done.        *)
Finish(c) ==
  /\ Goes(c, "finish", "gone")
  /\ inbox' = [inbox EXCEPT ![c] = << >>]
  /\ conns' = IF conns > 0 THEN conns - 1 ELSE 0
  /\ wg' = wg - 1
  /\ UNCHANGED <<alive, authed, cmd, sent, rest, monitors, files, answered,
                 acceptor, ticker, closer, late>>

(* What a client does: it need not wait for an answer.                     *)
Send(c, x) ==
  /\ c \in alive /\ pc[c] \notin {"new", "finish", "gone"}
  /\ Len(inbox[c]) < MaxUnread /\ sent[c] + Len(inbox[c]) < MaxSent[c]
  /\ inbox' = [inbox EXCEPT ![c] = Append(@, x)]
  /\ UNCHANGED <<pc, alive, authed, cmd, sent, rest, monitors, files, answered, life>>

Disconnect(c) ==
  /\ c \in alive /\ "LEAVE" \in May[c]
  /\ alive' = alive \ {c}
  /\ UNCHANGED <<pc, inbox, authed, cmd, sent, rest, monitors, files, answered, life>>

-----------------------------------------------------------------------------
(* The background task finds stopCh closed, after the rewrite it may be at *)
(* (module Persistence) and those that select takes first.                 *)
TickerStops ==
  /\ Stopped /\ ticker = "running"
  /\ ticker' = "ended"
  /\ wg' = wg - 1
  /\ UNCHANGED <<pc, clients, authed, cmd, sent, rest, monitors, files, answered,
                 acceptor, conns, closer, late>>

(* Close, step by step: listener, stopCh, wait, snapshot, AOF.             *)
CloseStep(from, to) ==
  /\ closer = from /\ closer' = to
  /\ UNCHANGED <<pc, clients, authed, cmd, sent, rest, monitors, data, logged, answered,
                 acceptor, conns, wg, ticker>>

CloseListener == MayClose /\ CloseStep("idle", "unlistened") /\ UNCHANGED <<saved, late>>
CloseStop     == CloseStep("unlistened", "waiting") /\ UNCHANGED <<saved, late>>

(* Mutant of WaitEnds: the wait is over once the background task is.       *)
WaitEndsEarly ==
  /\ ticker = "ended" /\ CloseStep("waiting", "waited")
  /\ late' = (acceptor \in Conn)
  /\ UNCHANGED saved

WaitEnds ==
  /\ wg = 0 /\ CloseStep("waiting", "waited")
  /\ late' = (acceptor \in Conn)
  /\ UNCHANGED saved

ContextEnds == CloseStep("waiting", "timed out") /\ UNCHANGED <<saved, late>>

Save ==
  /\ CloseStep("waited", "waited and saved") \/ CloseStep("timed out", "timed out and saved")
  /\ saved' = data
  /\ UNCHANGED late

CloseFiles ==
  /\ CloseStep("waited and saved", "done") \/ CloseStep("timed out and saved", "done")
  /\ late' = (late \/ closer # "waited and saved")
  /\ UNCHANGED saved

-----------------------------------------------------------------------------
Handler(c) ==
  \/ IncConnections(c) \/ ReadFails(c)
  \/ \E x \in Commands : ReadGated(c, x) \/ Read(c, x)
  \/ (\E m \in rest[c] : MonitorSend(c, m)) \/ MonitorSent(c)
  \/ Dispatch(c) \/ AppendLog(c) \/ Answer(c)
  \/ MonitorSubscribe(c) \/ MonitorWrite(c) \/ MonitorUnsubscribe(c) \/ Finish(c)

Client(c) ==
  \/ Connect(c) \/ Disconnect(c)
  \/ \E x \in May[c] \cap Commands : Send(c, x)

AcceptLoop == (\E c \in Conn : Accept(c) \/ Spawn(c)) \/ AcceptFails
Close      == CloseListener \/ CloseStop \/ WaitEnds \/ ContextEnds \/ Save \/ CloseFiles

Next ==
  \/ \E c \in Conn : Client(c) \/ Handler(c) \/ SubscriberEnds(c)
  \/ AcceptLoop \/ TickerStops \/ Close

Spec == Init /\ [][Next]_vars

(* Goroutines that can go on go on: reads and writes have deadlines, and   *)
(* rewrites end.  Nothing is assumed of clients, nor that Close's context  *)
(* ever ends, nor that a handler in pubsubMode, which waits for its        *)
(* channel without a deadline, is ever told anything.                      *)
FairSpec ==
  /\ Spec
  /\ \A c \in Conn : WF_vars(Handler(c))
  /\ WF_vars(AcceptLoop) /\ WF_vars(TickerStops)
  /\ WF_vars(CloseStop) /\ WF_vars(WaitEnds) /\ WF_vars(Save) /\ WF_vars(CloseFiles)

-----------------------------------------------------------------------------
(* Type invariant; the counters agree with the handlers there are.         *)
Served == {"spawned", "read", "answer gated", "publish", "dispatch", "append", "answer",
           "to monitor", "monitor", "unmonitor", "subscribed", "finish"}
Closer == {"idle", "unlistened", "waiting", "waited", "timed out", "waited and saved",
           "timed out and saved", "done"}
Lines  == Conn \X (Nat \ {0})

Counted == {c \in Conn : pc[c] \in Served \ {"spawned"}}
Waited  == {c \in Conn : pc[c] \in Served} \cup ({ticker} \ {"ended"})

CountersAgree ==
  /\ acceptor \in Conn \cup {"accept", "ended"} /\ ticker \in {"running", "ended"}
  /\ \A c \in Conn : acceptor = c <=> pc[c] = "accepted"
  /\ conns = Cardinality(Counted) /\ wg = Cardinality(Waited)

TypeOK ==
  /\ pc \in [Conn -> Served \cup {"new", "backlog", "accepted", "gone"}]
  /\ alive \subseteq Conn /\ authed \subseteq Conn /\ (~Auth => authed = Conn)
  /\ cmd \in [Conn -> Commands \cup {"none"}]
  /\ inbox \in [Conn -> Seq(Commands)] /\ \A c \in Conn : Len(inbox[c]) <= MaxUnread
  /\ sent \in [Conn -> Nat] /\ \A c \in Conn : sent[c] + Len(inbox[c]) <= MaxSent[c]
  /\ rest \in [Conn -> SUBSET Conn] /\ \A c \in Conn : rest[c] # {} => pc[c] = "publish"
  /\ monSubs \subseteq Conn /\ closed \subseteq Conn /\ full \subseteq Conn
  /\ queue \in [Conn -> Seq(Lines)] /\ \A m \in Conn : Len(queue[m]) <= Buffer
  /\ got \in [Conn -> Seq(Lines)]
  /\ since \in [Conn -> [Conn -> Nat]]
  /\ saved \cup logged \cup answered \subseteq data /\ data \subseteq Lines
  /\ closer \in Closer /\ late \in BOOLEAN
  /\ CountersAgree

(* No MonitorPublish sends on a closed channel, which would end the        *)
(* process: it holds the lock all the way round, and MonitorUnsubscribe    *)
(* needs it to close (system_command.go:201-214, server.go:309-318).       *)
MonitorsOpen == (monSubs \cup UNION {rest[c] : c \in Conn}) \cap closed = {}

(* A monitor gets the lines of each connection in the order of its         *)
(* commands, all of them later than its registration, and none is missing  *)
(* before the last it has got, as long as its channel has not been full; a *)
(* line whose write fails is the last (system_command.go:203-214,          *)
(* server.go:272-276, 309-318).                                            *)
Stream(m) == got[m] \o (IF pc[m] = "monitor" THEN queue[m] ELSE << >>)

Rising(s)       == \A i, j \in DOMAIN s : i < j /\ s[i][1] = s[j][1] => s[i][2] < s[j][2]
After(s, from)  == \A i \in DOMAIN s : from[s[i][1]] < s[i][2]
Gapless(s, from) ==
  \A i \in DOMAIN s : \A n \in from[s[i][1]] + 1 .. s[i][2] - 1 :
    \E j \in 1 .. i - 1 : s[j] = <<s[i][1], n>>

MonitorStream ==
  \A m \in Conn :
    /\ Rising(Stream(m)) /\ After(Stream(m), since[m])
    /\ m \notin full => Gapless(Stream(m), since[m])

(* When Close has waited for all handlers, its snapshot has every SET that *)
(* is ever answered, unless the accept loop held a connection that was not *)
(* in the wait group yet (server.go:184-190, 194-228).                     *)
CloseSavesAnswered == closer = "done" /\ ~late => answered \subseteq saved

(* The handler of a client that has gone runs what the client sent before, *)
(* ends and is no longer counted, unless that made it a monitor or a       *)
(* subscriber, which read no more (server.go:186-190, 230-318).            *)
HandlersEnd ==
  \A c \in Conn :
    pc[c] = "read" /\ c \notin alive ~> pc[c] \in {"gone", "monitor", "subscribed"}

(* After Close the accept loop ends, and Close's wait ends by itself       *)
(* unless there is a monitor or a subscriber, which no one tells to end,   *)
(* or a client that sends refused commands for ever; the others are        *)
(* bounded here (server.go:171-228, 295-318).                              *)
CloseEnds ==
  closer = "waiting" ~>
    /\ acceptor = "ended"
    /\ \/ closer # "waiting"
       \/ \E c \in Conn : pc[c] \in {"monitor", "subscribed", "answer gated"}

-----------------------------------------------------------------------------
(* What the documentation says, and the code does not do.                  *)

(* "Stream all commands in real time": no command goes its way past a      *)
(* client that has been answered OK to MONITOR.                            *)
StreamsAll ==
  [][\A c, m \in Conn : pc[m] = "to monitor" /\ sent'[c] # sent[c] => m \in rest'[c]]_vars

(* "until the connection closes": a monitor whose client has gone ends.    *)
MonitorsEnd ==
  \A c \in Conn : pc[c] = "monitor" /\ c \notin alive ~> pc[c] = "gone"

(* Close keeps everything that was answered before it returned or is       *)
(* answered later, in its snapshot or in the log.                          *)
CloseKeepsAll == closer = "done" => answered \subseteq saved \cup logged
=============================================================================

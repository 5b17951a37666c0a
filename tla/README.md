# ValkeyDB in TLA+

ValkeyDB is a Redis-like in-memory server in Go: four stores behind their own
locks, an append-only log (AOF) and snapshots (RDB) to survive a restart,
Pub/Sub and MONITOR. One goroutine runs per connection; each store with
deadlines has an expiration goroutine; a ticker rewrites the AOF; BGSAVE starts
a goroutine. This directory holds TLA+ modules translated from `src/internal`,
TLC configurations that check them on small instances, and TLAPS proofs for all
values of the constants.

## Inventory

| Component | Source | State | Operations | What makes it correct |
|---|---|---|---|---|
| Deque | `datastructure/deque.go` | array, head, tail, size, capacity | push, pop at both ends, doubling, `Sort` | the redundant fields agree; behaves as a sequence; no index out of range |
| List store | `datastructure/list.go` | key → deque, RWMutex | LPUSH, RPUSH, LPOP, RPOP, LRANGE, SORT | every call one critical section; an emptied list disappears |
| Dict store | `datastructure/dict.go` | key → (value, deadline), RWMutex | SET, GET, DEL, EXPIRE, PEXPIREAT, TTL, dump; expiration loop | commands atomic; only expired keys are evicted, and all of them in the end |
| Set store | `datastructure/set.go` | key → (member map, deadline), RWMutex | SADD, SREM, SMEMBERS, SEXPIRE, STTL; expiration loop | as for the dict; the member map is not used outside the lock |
| Hash store | `datastructure/hashmap.go` | key → field → value, RWMutex | HSET, HDEL, reads | every call one critical section |
| Handlers | `command/*.go` | – | change the store, then append to the AOF | what was answered can be recovered |
| AOF | `persistence/aof.go` | file, handle, replaying flag, mutex | append + sync, load, rewrite | replay gives the stores back; the rewrite loses nothing |
| RDB | `persistence/rdb.go` | file, mutex | save, load | a snapshot is a state the server was in, and loads as it was |
| Server | `server/server.go` | stores, files, connections, wait group | start (RDB, then AOF), background rewrite, accept loop, AUTH, close | start restores what was answered; Close saves it; handlers end |
| Pub/Sub | `datastructure/pubsub.go`, `command/pubsub_command.go` | channel → Go channels; one subscription for the whole process | SUBSCRIBE, UNSUBSCRIBE, PUBLISH | a subscriber gets the messages of its channel, in order, unless its buffer is full |
| System | `command/system_command.go` | monitors, counters, BGSAVE flag | MONITOR, BGSAVE, INFO, KEYS | a monitor sees commands in order, on a channel that is open; each store of a snapshot is one that was |
| RESP | `protocol/resp/resp.go` | – | encode, decode | of a log with damaged records, what can be loaded is |
| Config, main | `config/config.go`, `cmd/` | constants | – | – |

Handlers call the stores under no lock of their own; the stores never call
each other; the AOF and the RDB file are shared by all handlers, the rewrite
goroutine and BGSAVE. What is hard: reads under a lock that are used after it is
released; effect and log record in different critical sections; dumps that are
taken store by store; a process that may end between any two of those steps; and
what a start makes of the two files, whole or cut short; variables of the package that
connections share without a lock; channels that fill up, are closed or are left
behind by clients that go away; and Close while handlers run. `PROJECT.json` lists the hazards line by
line, with the properties that cover each or the reason why none does.

## Modules

    Ordering ── RingOps ── Deque ── MC_Deque           AbstractDeque ↑ refined by Deque
                             └───── DequeProofs
    Dict ── MC_Dict                                    TTLMap ↑ refined by Dict
      └──── DictProofs
    Set ── MC_Set                                      TTLSets ↑ refined by Set
      └─── SetProofs
    Database ── Persistence ── MC_Persistence
       │             └──────── PersistenceProofs
       └── ReplayProofs ────────────┘
    LogFile ── MC_LogFile
      └─────── LogFileProofs
    Pubsub ── MC_Pubsub
      └────── PubsubProofs
    Server ── MC_Server
      └────── ServerProofs

**`RingOps`, `Ordering`, `Deque`.** `RingOps` has the methods of the Go struct as
operators on a record with the struct's fields, and LRANGE's way from positions to
indices; `Ordering` has what `sort.Slice` promises. `Deque` is one list and the calls
`List` makes on its deque under the list lock; `popped` is the last answer, `panicked`
is set where Go would index past the array. Elements are integers: the comparison
options of SORT are an order on them. `Sort` keeps what the code leaves behind,
`tail = size` and old copies in the slots it does not overwrite.

**`AbstractDeque`** is the sequence a list should be. `Deque!DequeSemantics`
instantiates it with `list <- Contents(deque)`: every step of the ring is a step
of the sequence, with the same answer.

**`Dict`** is the string store at the grain of its lock. `Set`, `Delete` and `Dump`
are one step. `Get`, `TTL`, `Expire` and `ExpireAt` take the item in one
(`Holds`/`Misses`, which is `getItem`) and go on in others: `CheckLive`,
`CheckExpired` with no lock, `passiveExpire` and `WriteBack` with the write lock.
The expiration loop is `SweepWake` (the emptiness test outside the lock),
`SweepLock`, one `SweepSample` per sampled key with the lock held, and
`SweepRoundEnd`. `Tick` is the clock, which moves at any time. `Uses[c]` says which
keys a client names.

**`TTLMap`** is the promise: a map whose commands are atomic and whose expired
keys may be evicted. It says what the code does about EXPIRE on a key that has
expired and is still there: it finds it. `Dict!CommandsAtomic` instantiates it;
while an EXPIRE is between its halves the key stands for the copy that is going to
be written (`Store`), because the loop may evict the item in between and the write
brings it back.

**`Set`** is the set store in the same manner, with one thing more: an item is
`[map, members, exp]` and the copies that a read has taken share the Go map `map`
with the item that SADD and SREM change. SMEMBERS and SISMEMBER look into it after
`getItem` has released the lock; `walk[c]` holds, from then on, the members the
answer has for sure and those it may have, and a change of the map during the walk
is Go's "concurrent map iteration and map write", which sets `crashed`. SREM of the
last member deletes the key, SEXPIRE may write it back. **`TTLSets`** is the map of
sets it should be: an answer is fixed at one instant (`due`).

**`Database`** has the four stores and the handlers as operators: `Exec(db, c, now)` is
what command `c` does to memory at time `now`, `Logged(db, c, now)` the records its
handler appends, `Commands` the command list a rewritten AOF consists of, `LoadedRDB`
what `loadRDB` does, `Recovered` a start on two given files, `Visible` what is left of
the stores without what has expired, which is what clients see and `Dump` copies.
Replay runs the same handlers as the clients, so `Exec` serves both, and that is what
the clock is for: a record holds a deadline, and whether it has passed is asked again
when it is replayed (`dict.go:104`). A replay runs at one instant, and a handler's
record has the deadline that its store call set: that `time.Now()` is called twice, and
that a record has whole milliseconds, is left out. The module takes a store call as one
step; `CommandsAtomic` of `Dict` and of `Set` is why that is right when no two clients
use a key at once.

**`Persistence`** is the server around it. A `Setup` is a configuration: AOF and RDB
on or off, which background jobs there are (the rewrite and two BGSAVEs), what
clients send, and the bounds; one run checks several. `Execute` is a handler up to
its first append, `AppendRecord` one `AOF.Append` (SET with a TTL has two), `Tick` the
clock, `Evict` an expire loop or a reader that deletes what has expired,
`Dump(j)` the next of the four `Dump` calls of job `j`, `Rewrite` the temporary file
and its rename, `Truncate` and `Encode` the two steps of `RDB.Save` under the RDB's
lock, `Restart` the end of the process at any moment with the start that follows.
`attached` is false once the rename has left the server with a handle on the old
file; `saving` is the flag INFO shows. Two variables are history: `seen[j]`, what
clients saw of memory since save `j` began, and `revived`, the keys whose item an EXPIRE
found past its deadline and made live again, of which a dump in between has nothing.

**`LogFile`** is the AOF below that: the RESP tokens of each record, of which some
are cut short by a crash or a full disk, records appended behind them, and
`Decode`, `Items`, `LoadFrom`, which are the decoder and the load loop token by
token: what they make of token `p` depends on what is read from later tokens, and
`Reads` and `Loads` are the functions over all tokens that this gives. A cut record is the first tokens and a scrap of the next; what the decoder
takes for the missing bytes of a text is counted in whole tokens or ends inside one
(`Skips`); where it ends inside one, the text is read and the next `Decode` fails.

**`Pubsub`** is the registry of channels and the connections that use it.
`cmdSubscribe` and `cmdUnsubscribe` are one action per statement, because `subName`
and `subChan` are plain variables of the package that all connections share;
`Subscribe` and `Unsubscribe` need the registry's lock, PUBLISH holds its read side
from `Publish` to `PublishEnd` with one `Send` per subscriber, full channels passed
over. `Capture` is the beginning of `pubsubMode`, which listens to whatever
`subChan` is by then; `Receive`, `ListenEnd` its loop. A client may go away at any
time: what it sent is still run, and then some read or write fails, as they also do at
a deadline; so every read and write here may fail, and no variable says who is there. `alone[c]` is a history
variable: no other SUBSCRIBE or UNSUBSCRIBE was between its first and last use of
the two variables while that of `c` was.

**`Server`** has the connections: accept loop, wait group, AUTH gate, a handler from
read to answer, `MonitorPublish` sending to one monitor after the other inside the
read lock, `monitorMode`, `pubsubMode` as a handler that ends when its channel or a
write ends it (`SubscriberEnds`; `Pubsub` says when), and `Close` step by step
(listener, `stopCh`, wait or end of its context, snapshot, files). `inbox[c]` is what a
client has sent and nobody has read, so that commands of a client that has left are
still run. `data`, `logged`, `saved` and `answered` are the
SETs that are in memory, in the AOF, in Close's snapshot, and known to a client.
`late` records what no wait can help: a connection between `Accept` and `wg.Add` when
the wait ended, or a context that ended first.

## What the runs show

| Run | Bounds | Result |
|---|---|---|
| `deque` | arrays of 2 doubling to 8, at most 5 elements of 2 values | ring coherent, implements the sequence, LRANGE gives its slices; only sorting a full array strands `tail` |
| `deque_panic` | arrays of 4 as in the code | **violated**: push ×4, SORT, pop, RPUSH panics |
| `dict` | 2 clients with a key each, clock to 3, 2 samples × 2 rounds | commands atomic; GET and TTL delete only expired items; copies current; every expired key is removed in the end |
| `set` | 2 clients with a key each, 2 members, clock to 3, 2 samples a round | the same of sets, and no empty set |
| `set_walk` | 2 clients, one key | **violated**: SMEMBERS walks the map that SADD writes |
| `persist` | dict commands with a TTL, clock to 4, 4 records; all others, 4 records, lists to 3; rewrite, 3 records; AOF and RDB with a BGSAVE, 3 records; RDB alone with one BGSAVE and with two; 1 to 3 states seen by a save | wherever the process ends, sets come back, lists and the fields of hashes as far as they are logged, until a rewrite; strings too, but for deadlines that the replay meets too late; the new file replays to the dumps; a start restores a snapshot exactly; each store of a snapshot is of the time of its save |
| `persist_extend` | SET with a TTL, EXPIRE | **violated**: the replay of a deadline that EXPIRE has replaced deletes the key |
| `persist_detached` | rewrite running | **violated**: records since the dumps of a rewrite are in a file without a name |
| `persist_twice` | BGSAVE, AOF and RDB | **violated**: lists come back twice |
| `logfile` | 5 records of 2 or 3 items, 2 of them cut | what is before a cut is loaded, a cut at the end costs nothing else, a cut between items costs as many records as items are missing |
| `pubsub` | 2 connections that subscribe to a topic each and unsubscribe, and whose reads and writes may fail; one of them and a third publish; buffers of 2 | no send on a closed channel, each publisher's order, a SUBSCRIBE that is alone gets what is its own, queues drain, unsubscribed handlers end |
| `server` | a password; a client that sends MONITOR or SUBSCRIBE and may leave, another with 2 SETs; 1 command waiting to be read, monitor buffers of 1, Close at any time | counters right, monitors' streams in order and without gaps, never a closed channel, what was answered is in Close's snapshot; handlers and Close end unless a monitor or a subscriber waits for its channel |

A violated run stands for a disagreement with the repository's own words, listed
under "findings" in `PROJECT.json`. Further configurations show more that a reader of
the documentation would not expect; TLC finds a short counterexample for each:

| Configuration | Property | What the code does |
|---|---|---|
| `MC_Dict_writeback.cfg` | `ExpireKeepsValue` | two clients on one key: EXPIRE undoes a SET (`dict.go:75-93`) |
| `MC_Dict_passive.cfg` | `PassiveTargetsExpired` | two clients on one key: a GET deletes a value set after it looked (`dict.go:33-37`) |
| `MC_Dict_revive.cfg` | `ExpiredStaysGone` | EXPIRE makes an expired key readable again (`dict.go:75-93`) |
| `MC_Set_empty.cfg` | `NoEmptySet` | two clients on one key: SEXPIRE writes back a set that SREM has emptied (`set.go:120-133`) |
| `MC_Set_lost.cfg` | `AddedIsReadable` | SADD adds to a set whose deadline has passed (`set.go:41`) |
| `MC_Persistence_ahead.cfg` | `WriteAhead` | memory changes before the log, which the repository's README calls write-ahead |
| `MC_Persistence_order.cfg` | `DictDurable` | two clients on one key: log order and memory order differ |
| `MC_Persistence_deadline.cfg` | `DeadlineSurvives` | the process ends between the two records of SET with a TTL: the key never expires |
| `MC_Persistence_snapshot.cfg` | `PointInTime` | a snapshot is of a state memory never was in |
| `MC_LogFile_torn.cfg` | `AnsweredSurvive` | records behind one that was cut short are not loaded (`aof.go:73-78`) |
| `MC_LogFile_garbled.cfg` | `NothingGarbled` | a cut record runs with the next record as its argument (`resp.go:130`) |
| `MC_Pubsub_stolen.cfg` | `OwnChannel` | two SUBSCRIBEs end up on one channel (`pubsub_command.go:32-33`) |
| `MC_Pubsub_evicted.cfg` | `OthersKeepTheirs` | UNSUBSCRIBE of any connection ends the latest subscription of all (`pubsub_command.go:49`) |
| `MC_Pubsub_order.cfg` | `SameOrder` | two subscribers see two publishers' messages in different orders (`pubsub.go:46`) |
| `MC_Pubsub_orphan.cfg` | `NoOrphans` | the channel of a handler that has ended stays registered (`server.go:295-307`) |
| `MC_Server_gap.cfg` | `StreamsAll` | commands between the answer to MONITOR and the registration are missed (`server.go:277-311`) |
| `MC_Server_orphan.cfg` | `MonitorsEnd` | a monitor whose client has gone waits until something is sent (`server.go:312`) |
| `MC_Server_late.cfg` | `CloseKeepsAll` | a SET answered after Close has closed the AOF is nowhere (`server.go:206-228`) |

More have no file of their own: put the definition for `Setups` and the property into
any configuration of `MC_Persistence`.

| `Setups <-` | Property | What the code does |
|---|---|---|
| `MCPexpireat` | `DictOnDisk` | PEXPIREAT of a client is not logged (`dict_command.go:136-151`) |
| `MCPop` | `ListsOnDisk` | pops are not logged: the elements come back (`list_command.go:87-139`) |
| `MCHset` | `HashesOnDisk` | HSET of a field that exists is not logged (`hash_command.go:47`) |
| `MCSexpire` | `SetsOnDisk` | SEXPIRE is logged as a command of the dict (`set_command.go:130-135`) |
| `MCFlag` | `FlagTrue` | INFO's `bgsave_in_progress` is cleared by the first of two BGSAVEs to end (`system_command.go:109-124`) |

And `WalksExact` (SMEMBERS sees half of a change) fails in place of `NeverCrashes` in
`MC_Set_walk.cfg`. `NeverCrashes` is asked there only: where no two clients name a key,
nobody writes the map that is walked.

`DictDurable` says what is true of strings all the same. What the files make of a key is
what clients see of it, or else nothing; and in the second case the item is in the
files, for a replay at a time before all deadlines gives it back. The one exception is
a key of `revived`: memory had kept it past its deadline, a save found nothing to copy,
and the log, replayed on top of that snapshot, may miss it.

### Bounds

The ring's arithmetic depends on whether the array is full, whether the elements
wrap, and whether `tail` sits on the end; five elements in arrays of 2, 4 and 8 meet
each combination, with doublings of wrapped arrays. In the dict and the sets every
race is between the two halves of one call and one other actor; two clients, the
loop and a clock of three instants (before, at, after a deadline) give each of them.
In the log every record is independent of those for other keys, so four records
cover a command interrupted between two others on the same key; a rewrite is
interesting between a record before it, one during it and one after. In the log
file two cuts with records before, between and behind them need five appends. A
Go channel of capacity 1 or 2 is empty, partly full and full within two messages;
two connections are enough for every overlap of two handlers on `subName` and
`subChan`, and the third publishes meanwhile. In `persist` a clock of 4 is past the deadline of a SET and before, at and after that
of an EXPIRE which replaced it. In `server` the interesting cases are
a command before, during and after the monitor's registration, and a Close between
any two steps. The proofs below do without bounds on
clients, keys, messages, buffers, lists and logs.

`maxLog`, `maxList`, `maxSeen` and `maxTime` of a `Setup`, `MaxTime`, `MaxSize`, `MaxSent`,
`MaxUnread`, `MaxRecords` and `MaxTears` are the bounds; they stand in guards and say so. `CHECK_DEADLOCK FALSE`
everywhere: the bounds stop the clients and the clock, and the process may panic.

### Fairness

`Dict`: `WF(Sweep)`, because the ticker of `expireLoop` fires for ever and
`sync.RWMutex` lets a waiting writer in; `SF(SweepSample(k))` for each key, because
`rand.IntN` gives every key of a round the same chance, so that a key that is there
in infinitely many rounds is sampled with probability 1.

`Pubsub`, `Server`: a goroutine that can go on goes on (`WF` of each handler, of the
accept loop, of the background task and of Close's own steps). That a handler can
go on where it reads or writes is what its deadlines are for (`server.go:238`,
`279`, `303`); locks are fair to writers and what is published is bounded. Nothing is
assumed of clients, who may stay silent or leave, nor that Close's context ever ends,
nor that a handler in `pubsubMode` goes on: it waits for its channel without a deadline,
and nothing in Close closes that. So one subscriber, like one monitor, keeps Close
waiting for ever, and one that has left keeps its handler until a write to it fails;
`HandlersEnd` and `CloseEnds` except both, and promise the rest.

## What is proved

All theorems hold for every value of the constants that meets the module's `ASSUME`.

`DequeProofs`: `TypeCorrect`, `RingStaysCoherent`, `OnlySortStrandsTail`,
`RingImplementsSequence`, `RangesAreSlices`. `IsRing(deque) /\ Coherent(deque)` is inductive. Coherence
says that `tail` is `head + size` up to one turn of the array and that live slots hold
elements; without it a pop from the back could not be shown to return the last
element, nor a doubling to keep the order. Each operator of `RingOps` has a lemma
that gives the contents of its result as a sequence; the refinement follows from
these. For LRANGE the lemmas are `Asked`, which indices its clamping of two integers
leaves, and `SliceOf`, that the walk round the ring yields those elements in order.

`DictProofs`: `TypeCorrect` for every `Uses`; and, on the assumption
`ExclusiveKeys` that no two clients name the same key, `CopiesStayCurrent`,
`PassiveDeletesExpired` and `DictImplementsMap`. The invariant is that what a call
has read is still there or was evicted by the loop after its deadline, and that a
GET on its way to delete has an item that is past it. The assumption is needed:
`MC_Dict_writeback.cfg` and `MC_Dict_passive.cfg` are what happens without it.

`SetProofs`: `TypeCorrect` for every `Uses`; and for exclusive keys `CopiesStayCurrent`,
`PassiveDeletesExpired`, `NeverEmpty` and `SetImplementsSets`.
The type invariant relates the variables of a call to one another (`CallOK`), which a
statement per variable would not, and a new set always finds a map that nobody holds
because the model has as many names for maps as there are clients, and the client that
asks holds none (an argument about cardinalities). The invariant
for the rest is `Sound(c)`: the copy is current up to evictions, a read on its way to
delete is past the deadline, what was read is not empty and a walk has seen no change.
Since keys are exclusive no one else holds a copy with the same map, so no write meets
a walk. In the refinement a call's answer is due from the step at which it is fixed
(`Due`). The assumption is needed: `MC_Set_walk.cfg`, `MC_Set_empty.cfg`.

`ReplayProofs` is about `Database` alone. Replay is a fold over a log of any length;
`Induction`, over a set of numbers, follows from the library's theorem that the order
of the naturals is well-founded, and with it: a log keeps a database one, it acts on
each key of each store by itself, what it does to a key twice is what it does once
(`TwiceIsOnce`, lists apart), and the records of a command make what the command made
(`LoggedCovers`; `Faithful` says of which commands). What they make is compared as the
durability invariants do (`View`, `Covers`): the value and deadline of a string, the
members of a set, the fields of a hash, a list element by element, or that none is
missing where pops are sent. Then `Rebuilt`, that the
commands a rewrite or an RDB load makes of four stores give what of them is alive at
the time they run, for whatever order Go walks the maps in, and `LoadRestores`.

`PersistenceProofs`: `TypeCorrect` and `SnapshotsRestored` for every workload;
`RewritesReplayDump` if nobody sends SEXPIRE; and durability, `SetsDurable`,
`HashesDurable`, `ListsDurable`, `DictsDurable`. The invariant of the first three is `RestoreInv`:
while the server's handle is the AOF, the log *followed by the records a client has
still to append* makes of each key what memory has, whether one starts from the
snapshot on disk, from any store that a running save has dumped, or from memory
itself. The records to come are there because the handler changes memory first; the
dumps because a save may put one on disk at any later time; memory because the next
save starts by copying it. The replay in it is at time 0 (`Dawn`), so that the clock and
evictions leave it alone, and `Timeless` says that for these stores a replay at any
other time makes the same; of a snapshot what is alive is loaded, which without SEXPIRE
is all of it (`UndatedInv`). Lists start from nothing only, as RPUSH twice is not RPUSH
once, hence no RDB file there.

For strings the log means something else at every time it is replayed, and the
invariant is `DictInv`. `After(L, k, t)` is what the log `L`, replayed at time `t`,
makes of the item under `k`: itself, itself with another deadline, or one fixed item;
and at a later time the same, or of every item nothing (`AfterLater`), because a
PEXPIREAT that has become past deletes whatever it finds. `Recalls` says of the log with the
records to come that, for every item a start may load before it, a replay now gives
memory's item or none (`RecallsEnd` turns that into what clients see); that memory's
own item is left as it is by a replay at `Dawn`, which is why it survives a save; and
that, if it is alive and not in `revived`, a replay at `Dawn` makes it of whatever was
loaded. What is proved is therefore what is true of this code and no more: a deadline
that EXPIRE replaced may still delete the key at a start (`MC_Persistence_extend.cfg`).

The hypotheses are on the workloads: `OwnKeys(s)`, that
no two clients send commands for one key of the store (needed: `MC_Persistence_order.cfg`), and
`NoneSends` for commands without faithful records (needed: `MCSexpire`, `MCPexpireat`);
the workloads of `persist` that are sent while there is an AOF meet them.
`SnapshotsPerStore`: what a save has dumped so far is, store by store, in one of the
states in `seen` (`DumpsSeen`), memory itself is always the latest of them
(`SeesMemory`), and jobs move forward only; so whatever commands, rewrites, other saves
and restarts come in between, what `Encode` writes is of the time of the save.
What the module assumes of its constants (`DatabaseAssumption`,
`PersistenceAssumption`): keys and fields are finitely many, values are integers, `Absent` is
no item and workloads consist of commands that clients can send.

`PubsubProofs`: `Types`, `NoneClosed`, `InPublishersOrder`, `OwnMessages`. The
invariant has five parts. `Rounds`: what a PUBLISH has still to send to is the end
of its topic's slice, because registering and unregistering wait for its lock.
`Registered`: a Go channel is in at most one slice, at one place, and no longer when
it has been closed; so nothing in a round is closed. `Queues`: everything in a
channel from publisher `d`, and everything a listener of it got, is among the
messages of `d` that went past the channel (`Passed`), which a send extends by the
next one; what was got comes before what is in the channel, so order survives also
where two connections take from one channel. `Turn`: a SUBSCRIBE that is alone on
`subName` and `subChan` finds there what it wrote. `Placed`: its channel is
registered under its topic or has been closed; with `Registered` no message of
another topic gets in.

`ServerProofs`: `Types`, `NoSendOnClosed`, `StreamsInOrder`, `ClosedSaved`. The parts
are `Base` (shapes, and that who is registered has not unsubscribed yet, so that
channels in anyone's round are open); `CountersAgree`, a statement about
cardinalities, which says that the wait group counts the handlers and the background
task; `Streams`: what a monitor got and has queued is in order and within what is
due to it (`Due`: all that a connection sent, less the line it is still sending
round), and as long as nothing was dropped exactly that; `Closing`: once the wait has
seen the counter at zero and no connection was between accept and count, no handler
runs any more and none can start, so that what was answered was in memory when the
snapshot was taken.

`LogFileProofs`: `CutsLoad`, `LossIsBounded`, for commands of any size and any number
of records and cuts. The inductive invariant is no more than what a log consists of
(`LogOK`); the work is in the operators. `ReadsExist`, `LoadsExist`: the two recursions
have a solution, since a token's result depends on later tokens only (`Local`,
`LoadLocal`), by induction from the end of the file. `FileIs`: record `i` lies in the
file from `s[i]` on (`Lies`), so that a whole one is read as the command that was
sent, the next value beginning at `s[i + 1]` (`WholeRead`), and a run of them is loaded
in order (`RunLoads`) or read as so many values (`RunReads`). Of a record cut short
there are the header, less items than it announces, and a scrap: if nothing follows,
the load ends there (`LastCutFails`); if the scrap is empty, the items that are missing
are the next records, and reading goes on behind those (`BegunRead`).

Only model-checked: the liveness properties (`ExpiredEventuallyGone`,
`UnsubscribedEnds`, `QueueDrains`, `HandlersEnd`, `CloseEnds`), as their proofs would
need fairness and `ENABLED`, which the provers do not handle.

## Not modelled

- The key map of the list store (each of its calls is one critical section) and
  negative counts of LPOP and RPOP, which panic in `make`; AUTH without an argument,
  which panics on `args[0]` (`system_command.go:44`); nil arrays.
- The bytes within a token of RESP, nil values and simple types; errors while the
  rewrite or a snapshot writes its file; the file name BGSAVE is given, which may not
  be the one a start reads (`system_command.go:104`).
- INFO, KEYS and PING, which only read; the totals of commands and connections.
  QUIT has no handler.
- `AOF.Rewrite` (`aof.go:104-170`), an older rewrite that only a test calls.
- Races that Go leaves undefined beyond the stale or mixed values they may return
  and the map accesses that end the process: a torn read of the string `subName`,
  the misuse panic of a wait group.
- The configuration file and `main`, which starts the server and never calls Close.
  Close is modelled as called once, by anyone, at any time.

## Plan

Done: 1. the ring (`RingOps`, `Deque`, `AbstractDeque`, `DequeProofs`); 2. the dict
(`Dict`, `TTLMap`, `DictProofs`); 3. `Database`, `Persistence`, `ReplayProofs`,
`PersistenceProofs`; 4. the sets (`Set`, `TTLSets`,
`SetProofs`); 5. `Pubsub`, `PubsubProofs`; 6. `LogFile`, `LogFileProofs`; 7. connections
and Close (`Server`, `ServerProofs`).

Left, in the order of what it would add:

1. `List` with several keys: `Deque` composed under the list's lock.
2. Errors while a rewrite or a snapshot writes its file.

----------------------------- MODULE Persistence -----------------------------
(***************************************************************************)
(* The server's four stores in memory and the two files that are to bring  *)
(* them back.  A handler changes memory first (one critical section of the *)
(* store) and then appends its records to the AOF one by one, the AOF's    *)
(* own lock taken for each: between any two of these steps the other       *)
(* clients, the AOF rewrite, a BGSAVE, or the end of the process.  The     *)
(* rewrite and BGSAVE read the four stores one after the other.  The clock *)
(* runs all the while, and the expire loops delete what it has passed.     *)
(***************************************************************************)
EXTENDS Database

CONSTANTS
  Client,
  Workload,    \* Workload[w][c]: the commands client c may send
  Setups       \* the configurations looked at, see Setup

(* A configuration of the server, who does what, and the model's bounds.   *)
Jobs  == {"rewrite", "save1", "save2"}
Saves == Jobs \ {"rewrite"}
Setup ==
  [aof : BOOLEAN, rdb : BOOLEAN,  \* config persistence.*.enabled
   jobs : SUBSET Jobs,            \* what runs in the background
   workload : DOMAIN Workload,
   maxTime : Nat,   \* bound: the last tick of the clock
   maxLog : Nat,    \* bound: no command once the AOF has this many records
   maxList : Nat,   \* bound: nor a push to a list of this many elements
   maxSeen : Nat]   \* bound: nor any once a save has seen this many states

ASSUME PersistenceAssumption ==
  /\ Setups \subseteq Setup
  /\ \A w \in DOMAIN Workload : Workload[w] \in [Client -> SUBSET Sendable]

VARIABLES
  setup,     \* the configuration, fixed
  now,       \* the clock
  db,        \* memory: the four stores
  unlogged,  \* unlogged[c]: records the command of c has still to append
  aof,       \* the records in the file at the AOF's path
  attached,  \* the server's file handle is that file, not one renamed away
  rdb,       \* the snapshot in the RDB file; Absent when missing or cut short
  job,       \* job[j]: [at, dump]: the next step of j, what it has dumped
  saving,    \* bgsaveInProg
  seen,      \* history: seen[j]: what clients saw of memory since save j began
  revived    \* history: keys whose item EXPIRE found past its deadline

vars == <<setup, now, db, unlogged, aof, attached, rdb, job, saving, seen, revived>>

Stores == <<"dict", "set", "list", "hash">>
Idle   == [at |-> 1, dump |-> EmptyDB]
Began(j) == job[j].at # 1

Init ==
  /\ setup \in Setups
  /\ now      = 1
  /\ db       = EmptyDB
  /\ unlogged = [c \in Client |-> << >>]
  /\ aof      = << >>
  /\ attached = TRUE
  /\ rdb      = Absent
  /\ job      = [j \in Jobs |-> Idle]
  /\ saving   = FALSE
  /\ seen     = [j \in Saves |-> {}]
  /\ revived  = {}

Room(c) ==
  /\ Len(aof) < setup.maxLog /\ \A j \in Saves : Cardinality(seen[j]) < setup.maxSeen
  /\ c.op \in {"LPUSH", "RPUSH"} => Len(db.list[c.key]) < setup.maxList

(* What the saves at work may see from now on.                             *)
SeenWith(d) == [j \in Saves |-> IF seen[j] = {} THEN {} ELSE seen[j] \cup {d}]

RevivedBy(cmd) ==
  CASE cmd.op \in {"SET", "DEL"} -> revived \ KeysOf(cmd)
    [] cmd.op = "EXPIRE" /\ ~Live(db.dict[cmd.key], now) -> revived \cup {cmd.key}
    [] OTHER -> revived

(* The handler up to its first Append.                                     *)
Execute(c, cmd) ==
  /\ unlogged[c] = << >> /\ Room(cmd)
  /\ db' = Exec(db, cmd, now)
  /\ unlogged' = [unlogged EXCEPT ![c] = IF setup.aof THEN Logged(db, cmd, now) ELSE << >>]
  /\ seen' = SeenWith(Visible(db', now))
  /\ revived' = RevivedBy(cmd)
  /\ UNCHANGED <<setup, now, aof, attached, rdb, job, saving>>

(* AOF.Append, synced to disk; when the last record is out c is answered.  *)
AppendRecord(c) ==
  /\ unlogged[c] # << >>
  /\ aof' = IF attached THEN Append(aof, Head(unlogged[c])) ELSE aof
  /\ unlogged' = [unlogged EXCEPT ![c] = Tail(@)]
  /\ UNCHANGED <<setup, now, db, attached, rdb, job, saving, seen, revived>>

Tick ==
  /\ now < setup.maxTime
  /\ now' = now + 1
  /\ seen' = SeenWith(Visible(db, now'))
  /\ UNCHANGED <<setup, db, unlogged, aof, attached, rdb, job, saving, revived>>

(* The expire loop, or a reader (passiveExpire), deletes an item past its  *)
(* deadline; nothing is logged.                                            *)
Evict(s, k) ==
  /\ db[s][k] # Absent /\ ~Live(db[s][k], now)
  /\ db' = [db EXCEPT ![s][k] = Absent]
  /\ UNCHANGED <<setup, now, unlogged, aof, attached, rdb, job, saving, seen, revived>>

(* A save raises the flag before its first dump.                           *)
Begins(j) ==
  IF j \in Saves /\ ~Began(j)
  THEN saving' = TRUE /\ seen' = [seen EXCEPT ![j] = {Visible(db, now)}]
  ELSE UNCHANGED <<saving, seen>>

(* Mutant of Dump: it fills the maps of the last snapshot, without         *)
(* clearing them.                                                          *)
DumpOntoLast(j) ==
  LET s == Stores[job[j].at] IN
  /\ j \in setup.jobs /\ job[j].at <= 4
  /\ job' = [job EXCEPT ![j] =
       [at |-> @.at + 1,
        dump |-> [@.dump EXCEPT ![s] =
          [k \in Key |-> IF rdb # Absent /\ db[s][k] = EmptyDB[s][k]
                         THEN rdb[s][k] ELSE Visible(db, now)[s][k]]]]]
  /\ Begins(j)
  /\ UNCHANGED <<setup, now, db, unlogged, aof, attached, rdb, revived>>

(* The next of the four Dump calls of the rewrite or of a BGSAVE, each     *)
(* under the lock of its store.                                            *)
Dump(j) ==
  LET s == Stores[job[j].at] IN
  /\ j \in setup.jobs /\ job[j].at <= 4
  /\ job' = [job EXCEPT ![j] =
       [at |-> @.at + 1, dump |-> [@.dump EXCEPT ![s] = Visible(db, now)[s]]]]
  /\ Begins(j)
  /\ UNCHANGED <<setup, now, db, unlogged, aof, attached, rdb, revived>>

(* RewriteWithLists: write the temporary file and rename it over the AOF.  *)
(* The handle stays on the old file, which now has no name.                *)
Rewrite ==
  /\ job["rewrite"].at = 5
  /\ IF setup.aof
     THEN aof' = Rewritten(job["rewrite"].dump) /\ attached' = FALSE
     ELSE UNCHANGED <<aof, attached>>
  /\ job' = [job EXCEPT !["rewrite"] = Idle]
  /\ UNCHANGED <<setup, now, db, unlogged, rdb, saving, seen, revived>>

(* RDB.Save takes the lock of the RDB; os.Create empties the file, the     *)
(* encoder fills it.  The flag is cleared whoever else may be saving.      *)
Truncate(j) ==
  /\ job[j].at = 5 /\ \A i \in Saves : job[i].at # 6
  /\ rdb' = IF setup.rdb THEN Absent ELSE rdb
  /\ job' = [job EXCEPT ![j] = [at |-> 6, dump |-> @.dump]]
  /\ UNCHANGED <<setup, now, db, unlogged, aof, attached, saving, seen, revived>>

Encode(j) ==
  /\ job[j].at = 6
  /\ rdb' = IF setup.rdb THEN job[j].dump ELSE rdb
  /\ job' = [job EXCEPT ![j] = Idle]
  /\ saving' = FALSE
  /\ seen' = [seen EXCEPT ![j] = {}]
  /\ UNCHANGED <<setup, now, db, unlogged, aof, attached, revived>>

(* The process ends, wherever it is, and starts again: loadRDB, loadAOF.   *)
Restart ==
  /\ db' = Recovered(rdb, aof, now)
  /\ unlogged' = [c \in Client |-> << >>]
  /\ attached' = TRUE
  /\ job'  = [j \in Jobs |-> Idle]
  /\ saving' = FALSE
  /\ seen' = [j \in Saves |-> {}]
  /\ revived' = {}
  /\ UNCHANGED <<setup, now, aof, rdb>>

Next ==
  \/ \E c \in Client : \E cmd \in Workload[setup.workload][c] : Execute(c, cmd)
  \/ \E c \in Client : AppendRecord(c)
  \/ Tick
  \/ \E s \in {"dict", "set"}, k \in Key : Evict(s, k)
  \/ \E j \in Jobs : Dump(j)
  \/ Rewrite
  \/ \E j \in Saves : Truncate(j) \/ Encode(j)
  \/ Restart

Spec == Init /\ [][Next]_vars

-----------------------------------------------------------------------------
(* Type invariant: shapes of the stores, files and jobs (DBType).          *)
TypeOK ==
  /\ setup \in Setups
  /\ now \in Nat \ {0} /\ revived \subseteq Key
  /\ db \in DBType
  /\ rdb \in DBType \cup {Absent}
  /\ attached \in BOOLEAN /\ saving \in BOOLEAN
  /\ \A j \in Jobs : /\ job[j].at \in 1 .. 6 /\ job[j].dump \in DBType
                     /\ job[j] # Idle => j \in setup.jobs
  /\ \A j \in Saves : (seen[j] = {}) <=> ~Began(j)

(* A key that a command still has to log is left out of the promises.      *)
InFlight(k) == \E c \in Client : \E i \in DOMAIN unlogged[c] : k \in KeysOf(unlogged[c][i])

Disk == Recovered(rdb, aof, now)

(* When the log is promised to have everything: since a start no rewrite   *)
(* has completed (aof.go:278), and no save has just emptied the RDB file,  *)
(* which may have the one copy of a key whose record a crash kept out of   *)
(* the AOF (rdb.go:51).                                                    *)
Logging == setup.aof /\ attached /\ \A j \in Saves : job[j].at # 6 \/ ~setup.rdb

(* Durability of the dict: whatever other commands, dumps, saves and       *)
(* restarts come in between, and although the AOF is replayed on top of a  *)
(* snapshot that has most of it already, a crash brings nothing back that  *)
(* was deleted or that has expired, and no value or deadline but the one   *)
(* last answered; and it loses no SET that was answered but to the clock   *)
(* of the replay, which may be past a deadline that an EXPIRE replaced     *)
(* since, so that the same files replayed before any deadline do give the  *)
(* item back (dict.go:95-112, dict_command.go:41-151, aof.go:38-94,        *)
(* 172-279, server.go:82-143).  Only of an item that EXPIRE found past its *)
(* deadline, still there, may a save have left nothing.                    *)
DictDurable ==
  Logging => \A k \in Key : ~InFlight(k) =>
    \/ Disk.dict[k] = Visible(db, now).dict[k]
    \/ /\ Disk.dict[k] = Absent
       /\ Recovered(rdb, aof, 0).dict[k] = db.dict[k] \/ k \in revived

(* The same for sets under SADD and SREM, which log only what changed a    *)
(* set (set_command.go:40-78).                                             *)
SetDurable ==
  Logging => \A k \in Key : ~InFlight(k) => Disk.set[k] = db.set[k]

Pops == \E c \in Client : \E cmd \in Workload[setup.workload][c] : cmd.op \in {"LPOP", "RPOP"}

(* Without RDB, a list comes back exactly as pushes and sorts left it; and *)
(* with pops, which are not logged, every element pushed and not popped    *)
(* comes back, as often as it is in memory (list_command.go:41-139,        *)
(* 216-223).                                                               *)
ListDurable ==
  Logging /\ ~setup.rdb => \A k \in Key : ~InFlight(k) =>
    IF Pops THEN \A v \in Value : Occurrences(db.list[k], v) <= Occurrences(Disk.list[k], v)
            ELSE Disk.list[k] = db.list[k]

(* What hashes do get, whose overwrites are not logged: the fields of a    *)
(* hash come back, though not their values (hash_command.go:47).           *)
HashFieldsDurable ==
  Logging => \A k \in Key : ~InFlight(k) => DOMAIN Disk.hash[k] = DOMAIN db.hash[k]

(* A rewrite loses nothing that it dumped: the new file replays to exactly *)
(* the four dumps, but for what has expired since (aof.go:183-270).        *)
RewriteReplaysDump ==
  [][Rewrite /\ setup.aof =>
       Replayed(EmptyDB, aof', now) = Visible(job["rewrite"].dump, now)]_vars

(* Each store of a snapshot is as that store was at some moment since the  *)
(* BGSAVE that wrote it began, also with another BGSAVE running            *)
(* (system_command.go:110-115, rdb.go:48-59).                              *)
SnapshotPerStore ==
  [][\A j \in Saves : Encode(j) /\ setup.rdb =>
       \A i \in 1 .. 4 : \E d \in seen[j] : rdb'[Stores[i]] = d[Stores[i]]]_vars

(* A start without an AOF restores the snapshot and nothing else, deadline *)
(* of sets and order of lists included, without what has expired since     *)
(* (server.go:88-136).                                                     *)
SnapshotRestored == rdb # Absent => LoadedRDB(rdb, now) = Visible(rdb, now)

-----------------------------------------------------------------------------
(* What the documentation says, and the code does not do.                  *)

(* "AOF for durability": whatever was answered is on disk.                 *)
AllDurable(s, K) == \A k \in K : ~InFlight(k) => Disk[s][k] = Visible(db, now)[s][k]
DictOnDisk == AllDurable("dict", Key \ revived)
SetsOnDisk == AllDurable("set", Key)
ListsOnDisk == AllDurable("list", Key)
HashesOnDisk == AllDurable("hash", Key)

(* "Write-ahead logging": what clients see of memory changes only once the *)
(* log has it.                                                             *)
WriteAhead ==
  [][Visible(db, now)' # Visible(db, now) => Visible(db, now)' = Disk']_vars

(* "Point-in-time snapshots": memory was once, since the BGSAVE began, in  *)
(* the state of the snapshot.                                              *)
PointInTime == [][\A j \in Saves : Encode(j) /\ setup.rdb => rdb' \in seen[j]]_vars

(* bgsave_in_progress:1 as long as some BGSAVE is at work.                 *)
FlagTrue == saving <=> \E j \in Saves : Began(j)

(* SET key value ttl: the key never comes back without its deadline.       *)
DeadlineSurvives ==
  [][\A k \in Key :
       Restart /\ db.dict[k] # Absent /\ db'.dict[k] # Absent
       /\ db.dict[k].deadline # 0
         => db'.dict[k].deadline # 0]_vars
=============================================================================

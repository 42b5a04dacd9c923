# Redis 2.6 (Windows and POSIX tree): TLA+ models, checks and proofs

This directory specifies the Redis server of this repository (`src/redis/src`,
a 2.6 server with the Windows port and the Node.js test harness) in TLA+. The
parts that are hard to test are modelled: replication and persistence, because
there a mistake loses data that a client was told is safe; transactions and
blocked clients; the commands on every data type with what a slave and an
append only file make of them; Sentinel; and the parts below them, from the
protocol and the event loop to the blocks of memory that hold small values. TLC
checks the models on small instances, and TLAPS proves the main results of
replication, persistence, command execution, Sentinel and most of the other
parts of the server for every value of the constants.

`PROJECT.json` maps every definition to the lines of the source it stands for,
and lists the runs, the mutants (plausible bugs of the code that a run must
notice), the hazards and the theorems.

## 1. The system

One server process with one thread that executes commands; child processes
that save the dataset (RDB) or rewrite the append only file (AOF); two
background threads (bio) that close and fsync descriptors; slaves and Sentinels
that are servers of their own.

    clients --commands--> event loop (ae) --> processCommand --> call
                              |                    |               |
                 beforeSleep  |         MULTI queue, blocked       +--> dataset (dict)
                 serverCron   |         clients, pub/sub           +--> feedAppendOnlyFile --> aof_buf --> AOF --> bio fsync
                              |                                    +--> replicationFeedSlaves --> slaves' buffers
                              +--> fork: rdbSave child, AOF rewrite child --> serverCron (wait3)

| Component | State it keeps | Operations | Talks to | What is hard | What makes it correct |
|---|---|---|---|---|---|
| Replication, master side (`replication.c`, `rdb.c`) | `slaves` with `replstate`, output buffer, `slaveseldb`, `repldbfd`; `rdb_child_pid` | SYNC, feeding, end of a BGSAVE, bulk transfer | slaves (socket), saving child | snapshot and stream must join exactly; failures of child, fork, files, links | a slave's dataset is one the master had; a waiting slave is served |
| Replication, slave side | `repl_state`, transfer file, `master` client | connect, handshake, receive, load, SLAVEOF, cron timeouts | master, AOF | cron, events and SLAVEOF interleave | one link at a time, no slaves of its own while it resynchronises |
| AOF (`aof.c`) | `aof_buf`, rewrite buffer, `aof_state`, `aof_selected_db`, file, fsync queue | feed, flush, rewrite, switch, CONFIG SET appendonly, load | bio thread, rewriting child, disk | crashes at any step, two buffers across a fork, slow disk | the AOF executes to the dataset; answered writes survive what appendfsync promises |
| RDB and save policy (`rdb.c`) | `dirty`, `dirty_before_bgsave`, `lastsave`, `lastbgsave_status`, child | SAVE, BGSAVE, save points, FLUSHALL, load | child, replication | one child for three purposes | changes are saved within the save points or writes are refused |
| Transactions (`multi.c`) | queue per client, `watched_keys` both ways, DIRTY_CAS | MULTI, EXEC, DISCARD, WATCH, UNWATCH, touch | every write command, AOF, slaves | writes of other clients, expiry, FLUSHALL between WATCH and EXEC | EXEC runs only if no watched key changed; it is propagated as one block |
| Blocking lists (`t_list.c`) | `blocking_keys`, `ready_keys`, client's `bpop` | BLPOP, BRPOP, BRPOPLPUSH, push, serve, timeout | clients cron, freeClient, AOF | wake-ups after the command, several waiters and elements | FIFO per key, an element is given once, nobody sleeps on a non-empty list |
| Publish/subscribe (`pubsub.c`) | channel and pattern tables, per client sets | (P)SUBSCRIBE, (P)UNSUBSCRIBE, PUBLISH | client output | two directions kept by hand | both directions agree; a message reaches each subscriber once per match |
| Hash table (`dict.c`) | two tables, `rehashidx`, `iterators` | add, delete, find, expand, resize, rehash step, iterate | everything | any operation moves a bucket | every key is in one table, iteration sees each key once |
| Expiry, eviction (`db.c`, `redis.c`) | `expires` | lazy and active expire, sampling | AOF, slaves | master and slave clocks; order of DEL | slaves never expire by themselves; DEL precedes what needed it |
| Scripting (`scripting.c`) | script dictionary, `lua_timedout` | EVAL, SCRIPT KILL | event loop re-entered | commands during a slow script | no script that wrote is torn |
| Sentinel (`sentinel.c`) | instances, flags, failover state | ping, info, hello, votes, failover steps | other Sentinels, masters, slaves | late replies, timeouts, TILT | one leader, a failover ends or is aborted |
| Event loop (`ae*.c`) | file events, time events, fired array | create, delete, process | everything | handlers change the lists that are walked | a deleted event does not run |
| bio (`bio.c`) | job lists, `bio_pending` | create, process | main thread | mutex, condition variable | jobs of a type run once, in order |
| Client I/O (`networking.c`) | query buffer, reply list, `bufpos`, flags | read, queue reply, send, free | event loop | freeing while referenced, limits | no list keeps a freed client |
| Data types (`t_*.c`, `bitops.c`, `sort.c`, `object.c`) | the value of each key and its encoding | commands | key space, AOF, slaves | arguments that depend on time, chance or arithmetic; conversions of encodings | a copy that executes what is propagated has the same keys; a change is signalled to watchers |
| MIGRATE, DUMP, RESTORE (`migrate.c`) | none | the three commands | another server | the connection fails between the two servers | a key is never in neither of them |
| Compact encodings (`ziplist.c`, `intset.c`, `zipmap.c`), skip list (`t_zset.c`) | blocks of memory, linked nodes | insert, delete, look up, walk | data types | lengths that change the size of the next length, widening in place, spans | equal to sequences, sets, functions |
| Configuration, INFO, MONITOR, DEBUG, slow log, utilities | settings | commands | everything | little of it is concurrent | |
| Windows port (`Win32_Interop`) | shared heap, child process status | QFork, FDAPI, IOCP | master's serverCron | events in place of wait3 | one child at a time, attributed to its operation |
| Tools, services, vendored libraries, tests | | | | outside the server | |

The test suites (`src/redis/tests`, `src/tests`) and `redis.conf` are read as
statements of what the server promises.

## 2. Modules

| Module | What it is | Run |
|---|---|---|
| `AsyncReplication` | what replication promises, without a protocol | refined by `Replication` |
| `Replication` | master, saving child, sockets and slaves | `replication_*` |
| `ReplicationProofs` | theorems about `Replication` | |
| `DurableLog` | what a log on disk promises | refined by `AppendOnlyFile` |
| `AppendOnlyFile` | server loop, AOF, rewriting child, bio thread, disk, crashes | `aof_*` |
| `AppendOnlyFileProofs` | theorems about `AppendOnlyFile` | |
| `CommandExecution` | commands, transactions, blocked clients, and the propagated stream | `commands_safety` |
| `CommandExecutionProofs` | theorems about `CommandExecution` | |
| `KeySpace` | the key space of a server, lookups, expiry, eviction, numbers | `data_*` |
| `StringCommands`, `HashCommands`, `ListCommands`, `SetCommands`, `SortedSetCommands` | the command procedures as functions of the server | `data_*` |
| `Snapshot` | RDB files, rewritten AOFs, DUMP, RESTORE, MIGRATE | `data_*` |
| `DataTypes` | a master, its slave and its AOF, which execute those procedures | `data_*` |
| `Sentinel` | one Sentinel and the instances it fails over | `sentinel*` |
| `SentinelProofs` | theorems about `Sentinel` | |
| `SentinelVotes`, `SentinelLinks`, `SentinelScripts` | its election, its connections, its scripts | `server` |
| `SlaveLink` | the slave's side of the link to the master | `server` |
| `ClientInput`, `ClientOutput` | the protocol read, the replies sent | `server` |
| `PubSub` | subscriptions, and every other list that holds a client | `server` |
| `EventLoop`, `Iocp` | time events; sockets on Windows | `server` |
| `QFork` | what stands for fork on Windows | `server` |
| `Scripting` | Lua scripts, their time limit and their replication | `server` |
| `BackgroundJobs` | bio threads and their condition variable | `server` |
| `Dict`, `SkipList`, `ZipList`, `IntSet`, `ZipMap` | the structures that hold the values | `server`, `ziplist_insert` |
| `Server` | the parts that have no data structure of their own to build, side by side | `server` |
| `ServerProofs` | theorems about `EventLoop`, `SlaveLink`, `SentinelLinks`, `SentinelScripts`, `SentinelVotes` and their place in `Server` | |
| `WorkProofs` | theorems about `BackgroundJobs`, `QFork`, `Iocp` and their place in `Server`, and about `Dict` and `IntSet` | |
| `ClientProofs` | theorems about `PubSub`, `Scripting`, `ClientOutput`, `ClientInput` | |
| `SequenceLemmas` | lemmas on sequences that the proofs share | |
| `MCReplication`, `MCAppendOnlyFile`, `MCCommandExecution`, `MCDataTypes`, `MCSentinel`, `MCServer` | model values, workloads, symmetry; `MCServer` also puts the five structures beside `Server` | |

### 2.1 Replication

A dataset is the sequence of the writes that built it, so two datasets are
equal when the same commands ran in the same databases in the same order; the
n-th write is `<<db, n>>`. The master (`data`, `child`, `snap`, `rdb`,
`lastbgsave_status`) feeds each slave's output buffer (`reply`) and remembers
the database it selected (`slaveseldb`), while `outdb` is the one the queued
text really selects. A slave has a link state (`repl_state`), a dataset
(`sdata`) and a socket (`bulk`, `sock`).

| Action | Code |
|---|---|
| `WriteCommand`, `replicationFeedSlaves` | `call`, `propagate`, `replicationFeedSlaves` |
| `SaveCommand`, `BgsaveCommand`, `ChildSucceeds`, `ChildFails` | `saveCommand`, `rdbSaveBackground`, `rdbSave` in the child, `wait3` |
| `backgroundSaveDoneHandler` | `backgroundSaveDoneHandler`, `updateSlavesWaitingBgsave` (one step: they are one call) |
| `SyncCommand` | `syncCommand` |
| `sendBulkToSlave`, `sendReplyToClient`, `FreeClient` | the write handlers and `freeClient` |
| `readSyncBulkPayload`, `ProcessStream`, `LinkLost`, `SlaveBgsaveDone` | the slave |

Simplifications. A slave's SYNC and the state it enters are one step; the chunks
of the RDB file are one; when `syncCommand` looks for a slave whose buffer it
can copy it takes the first in `server.slaves`, the model any one, for the
buffers of all of them hold the same writes, though not the same SELECTs, and
the order of the list is not modelled. FLUSHALL and DEBUG RELOAD on the master
are not modelled, nor the handshake of the slave. SAVE after writes makes
`dirty` negative and so is itself propagated to slaves (`redis.c:1620`); it is
harmless there and left out.

### 2.2 The append only file

The server is one thread, so `pc` says where it is: before sleeping (`sleep`),
executing file events (`events`), in `serverCron` before, during and after the
reaping of children (`cron`, `reap`, `switch`, `flush`), killed (`down`) or shut
down (`exited`). `switch` is between the rename of a new AOF and the rest of
`backgroundRewriteDoneHandler`, so that a crash or power loss can fall there.
The bio thread, the children and the faults interleave with every one of them.

A write is `[db, id]`. A text is the sequence of the writes it executes with the
database each one runs in: `enddb` and `rwdb` are the databases selected at the
end of the two texts, so a SELECT that is missing shows as a write in the wrong
database. `file` is what the kernel shows of the AOF, `synced` how much of it is
durable, and a power loss keeps any prefix not shorter.

| Action | Code |
|---|---|
| `WriteCommand`, `feedAppendOnlyFile` | `call`, `propagate`, `feedAppendOnlyFile` |
| `SendReply` | `sendReplyToClient`, run by `aeProcessEvents` for the fired descriptors |
| `beforeSleep`, `CronFlush`, `flushAppendOnlyFile` | the same |
| `WriteError` | the exits of `flushAppendOnlyFile` |
| `BioFsyncStarts`, `BioFsyncEnds` | `bioProcessBackgroundJobs` |
| `serverCron`, `StartBackgroundWork`, `ReapOther` | `serverCron` |
| `RewriteFails`, `RewriteRenames`, `RewriteSwitches` | `backgroundRewriteDoneHandler` |
| `bgrewriteaofCommand`, `startAppendOnly`, `stopAppendOnly`, `SaveOrSyncCommand` | the same; BGSAVE and SYNC |
| `ShutdownCommand`, `ShutdownFails` | `prepareForShutdown` |
| `Kill`, `PowerLoss`, `CheckAofFix`, `loadAppendOnlyFile` | crash, `redis-check-aof --fix`, `loadDataFromDisk` |

Simplifications. The POSIX branches are modelled. `appendfsync` is a constant.
The growth of the AOF that starts a rewrite is a free choice of `serverCron`. A
rename is durable at once. fsync jobs queued for descriptors that are no longer
the AOF are one job (`Stale`): however many there are, they take as long as one
slow one. After a crash the configuration file is taken to say
`appendonly yes`.

### 2.3 Command execution

One thread executes commands, so `pc` is `idle` between them, `exec` inside
EXEC, `serve` and `push` inside `handleClientsBlockedOnLists`, and `sleep` after
a timeout in the cron, when `beforeSleep` comes next. Only the propagated stream
can be seen between the steps of EXEC or of the service; a slave reads it
(`rdata` is what its readers see, `rnext` what it will have after the EXEC it
waits for), and an AOF that is replayed does the same.

The key space holds strings and lists; elements are numbered, so a lost or
doubled one shows. The two tables of WATCH (`watched`, `watched_keys`) and of
blocking (`bpop_keys`, `blocking_keys`) are kept apart as in the code. `dirty`
is `server.dirty`, because `call` compares it to decide what it propagates.
`changed`, `refused`, `elems` and `gone` are history.

| Action | Code |
|---|---|
| `multiCommand`, `discardCommand`, `watchCommand`, `unwatchCommand`, `queueMultiCommand` | the same |
| `flagTransaction`, `RefuseOnSlave` | the refusals of `processCommand`, with and without `flagTransaction` |
| `call`, `BlockingPop` | `call` and the command procedures, outside of MULTI |
| `execCommand`, `ExecAborts`, `ExecStep`, `ExecEnd` | `execCommand`: its test, its loop, its end with `call` |
| `NextReadyKey`, `ServePop`, `ServeWrongType`, `ServePopPush`, `rpoplpushHandlePush`, `KeyServed`, `AllServed` | `handleClientsBlockedOnLists`, `serveClientBlockedOnList` |
| `clientsCronHandleTimeout`, `beforeSleep`, `freeClient`, `createClient` | the same |
| `backgroundSaveDoneHandler` | its effect on `dirty`, for a BGSAVE no write overtook |

Simplifications. One database, no expiry. The commands are representatives: SET
for writes of other types, GET for reads, RPUSH for pushes of one element,
BLPOP on one or two keys (BRPOP is the same at the other end). SAVE succeeds. A
command that only answers an error is not a step. `Names` says which commands
each client sends, so that a run can give clients roles.

### 2.4 Data types and snapshots

A server executes one command at a time, so a command is a function from a
server to a server, as its procedure in the code is: `KeySpace` defines the
record (keys, expires, role, clock, limits of the encodings, and what the
current command has done to `dirty`, to `argv` and to the watched keys), the
five modules of commands define the procedures under their names in the source,
and `Snapshot` what `rdb.c`, the rewrite of `aof.c` and `migrate.c` write and
load. `call` applies the procedure that the command table names, and `propagate`
gives what it did to the AOF and to the slaves.

`DataTypes` executes the same procedures three times. The master executes what
clients send; the slave executes its stream later, with its own clock, limits of
the encodings, draws of random elements and order of hash tables, and another
floating point unit; the loader executes the AOF at the end of time. What the
master propagates has to make up for each of these differences.

| Action | Code |
|---|---|
| `Execute` | `processCommand` with `freeMemoryIfNeeded`, `call`, `propagate` |
| `ActiveExpire` | one sampled key of `activeExpireCycle` |
| `SlaveExecutes` | the slave's `call` of the next command of its master |
| `Restore`, `Migrate` | `dumpCommand` and `restoreCommand`; `migrateCommand` with the target and the failures of the connection |
| `Tick` | the clock |

Simplifications. A string is the sequence of its bytes and `LLONG_MAX` is small,
so that the boundaries of numbers are met. Scores are small whole numbers, the
two infinities and NaN. Memory is the number of keys, and the keys that eviction
samples are any. A command whose arguments do not parse is refused before its
procedure and is left out. Reference counts and the text of replies are not
modelled; SELECT is the database of the key.

### 2.5 Sentinel

`Sentinel` is one process, the `sentinelRedisInstance` of its master with the
slaves, and the instances around it. A comparison of a timer with a period can
come out either way whenever the code evaluates it, except right after the timer
was reset: processes stop and replies are late. `MasterTimer` and `SlaveTimer`
are `sentinelHandleRedisInstance`, each a whole pass (detection, commands,
scripts, the failover's state machine) in the order of the code; `InfoReply` is
`sentinelRefreshInstanceInfo`; `Tilt`, `FailoverCommand` and `ResetCommand` are
`sentinelTimer`'s check and the two commands. `Slaveof`, `LinkLost`, `Crash`,
`Restart` and `OtherPromotes` are what the instances and other Sentinels do.

Here the agreement on O_DOWN and the leader are any: they are the subject of
`SentinelVotes`, where hello messages, answers to
`SENTINEL is-master-down-by-addr`, restarts with another run id and changes of
address interleave with the count of votes. Run ids and addresses are numbers;
a restart takes one that was never used before, `Apart` above those of the first
processes. `SentinelLinks` has the two
connections to an instance with the callbacks of hiredis and
`pending_commands`; `SentinelScripts` the queue of notification scripts with
`fork`, `wait3`, retries and kills.

### 2.6 The parts of `Server`

Each module has its own variables, `Init` and `Next`; `Server` chooses one and
lets the others rest, so that the state space is the sum of the parts and not
their product. `MCServer` adds the five structures of memory in the same way; they
are apart because three of their modules use RECURSIVE operators, which no module
with a theorem may reach (`Dict` and `IntSet` use recursive functions, and are
proved about). The parts do not share state in this form: where two of them
interact (the slave's link and the AOF that it restarts, bio and the AOF, the
Windows child and the cron), the module of one has the calls of the other that
matter to it.

| Module | State and actions in the code | Left out |
|---|---|---|
| `SlaveLink` | `repl_state`, sockets with their handlers, `master`, the temporary file; `replicationCron`, `syncWithMaster`, `readSyncBulkPayload`, `slaveofCommand`, `freeClient` of the master | the bytes of the handshake and the blocks of the RDB |
| `ClientInput` | query buffer, `reqtype`, `multibulklen`, `bulklen`; `readQueryFromClient`, `processInputBuffer` and the two protocols, one step for each item that is complete or not | the growth of the buffer itself |
| `ClientOutput` | `buf`, `reply`, `reply_bytes`, `sentlen`, soft limit; `addReply`, deferred lengths, `sendReplyToClient`, and the queued sends of Windows with their callbacks | wording of replies |
| `PubSub` | channels and patterns both ways, `slaves`, `monitors`, `clients_to_close`; subscription commands, PUBLISH, MONITOR, SYNC, SLAVEOF, CLIENT KILL, accept, timeout, `freeClient`, `freeClientAsync` | which pattern matches which channel; the order of a list |
| `EventLoop` | time events, `lastTime`, the place in the list; `aeApiPoll`'s sleep, `processTimeEvents` one event at a time, handlers that create and delete events and take their time, a clock that may be set back at any time, also between two events of a pass | the other four back ends, one system call each |
| `Iocp` | `aeSockState` of each descriptor, the list of closing sockets, operations in the kernel and in the port, fired events | overlapped buffers |
| `QFork` | section, private pages, events, the two child pids, the forked processes; begin, abort and end of an operation, `serverCron`'s Windows branch | the allocator in the heap |
| `Scripting` | data of master and slave, known scripts, the running script with its flags, `lua_timedout`, `lua_kill`; a script is a straight line of calls | conversion of values, the sandbox, a script that catches the error of a kill with `pcall` |
| `BackgroundJobs` | queues, mutex, the semaphore and waiters of `win32fixes.c`, the descriptors the jobs refer to; one step between two acquisitions of the mutex | other users of descriptors |
| `Dict` | both tables, `rehashidx`, `iterators`, a safe iterator with its next entry | hash functions, unsafe iterators, random keys |
| `SkipList` | nodes with levels, spans and backward pointers, the dict of scores, and the ziplist of the same set; insertion with every level, deletion by element, score and rank | the bytes of the ziplist, which `ZipList` has |
| `ZipList`, `ZipMap`, `IntSet` | cells of memory in which the first of a field tells what it holds; insertion and deletion with the resize, the moves and the cascade of the code | contents of strings |


## 3. Runs

Every property of a passing run has a mutant: a plausible bug, written in the
module beside the definition it replaces, with which TLC finds the property
violated.

### Replication

| Run | Instance | Shows |
|---|---|---|
| `replication_safety` | two slaves, one database, 3 writes, 2 faults of link, child or open | `NothingLostInFlight`, `CopyIsPrefix`; `WaitersHaveChild`: whoever waits for a BGSAVE has a child that ends the wait; the refinement of `AsyncReplication` |
| `replication_live` | one slave, three databases, 3 writes, 2 faults of link, child, open or the slave's own BGSAVE | `WaiterIsServed`; `EventuallyCopies`, which also fails if the bookkeeping of SELECT is wrong |
| `replication_join_db` | violation of `CopyIsPrefix` | a joining slave takes a buffer without the database it selects |

Two slaves are enough for one to join while the other registers differences,
and for one to be freed while the other goes on; a third only repeats these
roles. Three writes put one before the fork, one between fork and transfer and
one after; two faults allow a failed retry. `replication_safety` has one
database because `replication_join_db` shows `CopyIsPrefix` false with two
slaves and two databases; `replication_live` covers the databases with one
slave. Slaves are interchangeable, so the safety run uses symmetry; the
liveness run does not. Three kinds of faults are not in the passing runs,
because the code fails with each: a child that a signal ends (`"signal"`), a
fork that fails (`"fork"`), and, with `StopWrites`, a slave whose own BGSAVE
failed (`"slavebgsave"`). The counterexamples below name the property of
`replication_safety` that each one breaks. `StopWrites` is the slave's
`stop-writes-on-bgsave-error`; `replication_live` sets it off, because with it
a slave refuses what its master sends (see below).

Fairness: a saving child ends, and the event loops of both processes run each
ready handler and the cron for ever; a closed connection is noticed. Clients
need do nothing.

### AOF

| Run | Instance | Shows |
|---|---|---|
| `aof_safety` | `always`, two clients, two databases, 3 writes; fork, child, rename and write errors, SHUTDOWN, kills and power losses, the last two not inside `switch` | the inductive invariant `IInv`; `TextIsData`, `RewriteIsData`, `AckedIsWritten`, `AckedIsSynced`, `FileOnlyGrows`; the refinement of `DurableLog` |
| `aof_live` | `everysec`, a disk that may hang, a clock of 4 seconds | `PostponedBriefly`, `BufferIsWritten`, `WaitRewriteEnds`, `ScheduledRewriteRuns` |

Bounds: `MaxWrites` 3 puts writes before the fork of a rewrite, during it and
after the switch; `MaxTime` is 1 where the seconds do not matter and at least
`LastWriteTime + 3` where a postponed flush must be able to end. One client is
enough where replies are not the subject; two let one be answered in the
iteration in which the other writes. `AckedIsWritten` is checked with a policy
that never postpones and clients that do not pipeline, since it does not hold
otherwise (see the counterexamples below).

Fairness of `aof_live`: the event loop runs (WF), its timer fires and time
passes (SF: the loop may always have something else to do, but not for ever),
children end, and fork, rewrite and rename work if they are tried for ever.
Nothing is assumed of fsync, which is the point of `BufferIsWritten`; only
`AckedBecomesDurable`, which fails all the same, is stated for a disk that
works (`FairDiskSpec`).

### Command execution

| Run | Instance | Shows |
|---|---|---|
| `commands_safety` | a producer (WATCH, MULTI, RPUSH, GET) and two consumers (BLPOP, BRPOPLPUSH, SET, DEL, FLUSHDB), two keys, 2 elements, 2 commands in a transaction | `LinksInv`, `NoWaiterOnList`, `ReplicaIsExact`, `ElementsKept`, `TransactionIsAtomic`, `ExecIsClean` |

Two consumers let one be served after another on the same key, and a chain of
two BRPOPLPUSH; two elements and two commands in a transaction let one EXEC
wake both. `MaxDirty` 3 is what a transaction of two commands needs, and
`backgroundSaveDoneHandler` lets the count start again, so that it never stops
the system. Consumers and keys are interchangeable. Nothing is assumed fair:
only safety is checked.

### Data types

| Run | Instance | Shows |
|---|---|---|
| `data_types` | twelve workloads (`Families`), five keys in two databases, other limits of the encodings on master, slave and loader | `CopiesAgree`, `AofKeepsExpires`, `EveryChangeIsSignalled`, `ObjectsWellFormed`, `SnapshotIsExact`, `MigrateKeepsTheKey` |
| `data_set_ex` | violation of `AofKeepsExpires` | SET with EX is written to the AOF with its relative time |

A behaviour executes the commands of one workload in any order and number, so
that the state space is the sum of the workloads: keys and expires, strings,
bits, lists, sets, hashes, sorted sets, SORT, three eviction policies, and
MIGRATE. Bounds: the largest integer is 3, so that increments overflow; a string
has at most 2 bytes, a list at most `MaxLen` 3 elements, and the limits of the
encodings are 1 to 3, so that every conversion happens, at different lengths in
the three servers; the clock has the instants 0 to 2, and the loader starts at
3, when every expire has passed; the slave is at most one command behind
(`MaxLag`), which is enough to execute a command later than its master did. The
workload `times`, in which SET EX and INCRBYFLOAT occur, is left to
`data_set_ex`; MOVE is exempted by name from `EveryChangeIsSignalled`. The
system stops when the clock has ended and nothing changes any more, so
deadlock is not checked.

### Sentinel

| Run | Instance | Shows |
|---|---|---|
| `sentinel` | a master and two slaves, 2 faults, one SLAVEOF under way to each, one slave reconfigured at a time | `PromotedIsThere`, `FailoverStateAgrees`, `SwitchesToAMaster` |
| `sentinel_self_slaveof` | violation of `NeverSlaveOfItself` | a failover that times out tells the promoted slave to replicate from itself |

Three instances give a promoted slave, one that is reconfigured and the old
master. Two faults allow an instance to crash and come back, or a failover to be
disturbed while it runs. Every comparison of a timer may come out either way, so
that no assumption about time is hidden in the run, and nothing is assumed fair.

### The parts of the server

| Run | Property | Parts |
|---|---|---|
| `server` | `QuorumIsReal` | `votes`: O_DOWN and leadership rest on a quorum of different Sentinels |
| | `SentinelKeepsBooks` | `scripts`: limits, and no process without its job; `links`: no connection is used that is not there |
| | `RequestsAreExecuted` | `input`: the commands executed are those sent, in order, however the stream is cut |
| | `ClientsAreServed` | `output`: the bytes that leave are the replies, in order; `lua`: a script has the same effect on the slave; `slave`: the one open socket leads to the configured master; `clients`: no table has a client that was freed, or one twice |
| | `WorkBesideTheServer` | `iocp`: every operation of the kernel has its state; `fork`: the server sees what it wrote last; a forked process reads one state of the heap until an operation ends, that of its own fork if its operation began alone and was not aborted; `bio`: no job is lost or sleeps |
| | `DueEventsRun` | `loop`: a pass during which the clock is not set back runs every event that was due, and what an earlier pass left over |
| | `StructuresKeepTheirContent` | `dict`, `skiplist`, `ziplist`, `intset`, `zipmap`: each is the set, sequence or function that was put into it |
| `ziplist_insert` | violation of `ZiplistIsWalkable` | a short entry before one with a five-byte length cuts the end of the list off |

The properties of `MCServer` are conjunctions with one part each (`part = "dict"
=> DictKeepsKeys`); each part that has something to break has a mutant of its
own. The bounds are in `MCServer.cfg`, chosen part by part so that the cases
that matter occur:

- `votes`: this Sentinel, two others and a quorum of 3, so that one Sentinel
  counted twice is enough to be wrong; one restart or change of address
  (`MaxMoves`; with two the run passes too, but takes longer than the others).
- `links`, `scripts`: a limit of 2 and one command or script more; two retries.
- `slave`: two masters and four sockets, so that an event of an old socket is
  there when the next one is connected.
- `input`: two requests of at most two arguments, complete, malformed or QUIT,
  cut at every place, with the thresholds above one another as in the code
  (`InputAssumption`). A line that is too long does not end
  (`StreamsAssumption`): one that ends may be accepted after the client was
  blocked, when it is read as a whole.
- `output`: six bytes, a static buffer of two, limits of three and five.
- `clients`: three connections of which two may exist at a time.
- `loop`: a second of two milliseconds, so that every carry happens, and a clock
  of two seconds (times 2 to 5), in which the seconds of two passes can be the
  same, the next or an earlier one; three events. The clock is set back as
  often as it can be, before, during and after a pass.
- `iocp`: two descriptors and three uses of them, so that one is used again
  while an operation of its first use is still under way.
- `fork`, `lua`, `bio`: two pages, two processes; three scripts, two keys; three
  jobs of each type and a descriptor that is used again.
- `dict`: three keys and tables of 1, 2 and 4 buckets.
- `skiplist`: three elements, two scores, three levels.
- `ziplist`, `zipmap`: a threshold of 8 and of 3 in place of 254, with entries
  on both sides of it; five and three entries, with the limit of the counter
  in the header among them.
- `intset`: digits of base 4 and widths of 1, 2 and 4 digits, with the ends of
  every range.

`MayPageOut`, `Evicts` and `MayMoveAgain` are FALSE because the properties fail
otherwise (see below). Each part comes to rest at its bounds, so deadlock is not checked.
Nothing is assumed fair.

### Further counterexamples

Each of these shows where a property that a run or a theorem establishes stops
to hold, or where the code says more than it does. They are seen by changing a
constant of a run, or by adding a property that the module states and no run
checks.

| Change | Property | What TLC finds |
|---|---|---|
| `Faults` of `replication_safety` with `"fork"` | `WaitersHaveChild` (its part `EndHasChild`) | slaves are left waiting for a BGSAVE whose fork failed |
| `Faults` of `replication_safety` with `"signal"` | `NothingLostInFlight`, `CopyIsPrefix`, `TransferOnlyAfterSuccess` | a child that was killed by a signal has exit code 0 for `backgroundSaveDoneHandler`, and the old `dump.rdb` is sent |
| `Faults` with `"slavebgsave"` and `StopWrites` | `NothingLostInFlight`, `CopyIsPrefix` | a slave whose own BGSAVE failed refuses a write of its master and executes the next one |
| `Pipelining = TRUE` in `aof_safety` | `AckedIsWritten` | a pipelining client is answered before its write is in the file |
| `Faults` of `aof_safety` with `"midrewrite"` | `AckedIsAlwaysSynced` | a loss of power between rename and fsync loses writes that were durable |
| `Faults` of `aof_safety` with `"wait3"` | `RdbChildExists` | `wait3` in `stopAppendOnly` takes the saving child, whose end the server never learns |
| `FairDiskSpec` with `AofFsync = "everysec"` | `AckedBecomesDurable` | the last write of a burst is never synced |
| `AofFsync = "everysec"` in `aof_safety` | `AckedIsWritten` | a flush that a slow fsync postpones does not hold back the replies |
| `aof_safety` | `ShutdownKeepsAll` | SHUTDOWN syncs the AOF without writing `aof_buf` first |
| `aof_live` | `PostponedHasBuffer` | the switch to a new AOF empties the buffer and leaves `aof_flush_postponed_start` set |
| `Pipelining` in `commands_safety` | `UnblockedExist` | a client blocks again before `beforeSleep`, is freed, and stays in `unblocked_clients` |
| `Names` of `commands_safety` with SAVE | `ReplicaIsExact` | with SAVE in a transaction MULTI can be propagated without EXEC |
| `Names <- AllRename` in `commands_safety` | `NoWaiterOnList` | RENAME makes a list appear and wakes nobody |
| `SlaveSpec` with a client as `Master` in `commands_safety` | `ExecIsClean` | a read-only slave refuses a write of a transaction without flagging it, and EXEC runs the rest |
| `commands_safety` | `MovedElementStays` | a BRPOPLPUSH that blocked is propagated as RPOP and LPUSH without MULTI: a slave that loses its link in between has lost the element |
| `Families = {"sortbyalpha"}` in `data_types` | `CopiesAgree` | SORT with ALPHA, BY and STORE leaves elements of equal weight in the order of the hash table, which differs on the slave |
| `Families = {"expiring"}` | `RandomKeyReturns` | RANDOMKEY on a slave whose keys have all expired loops for ever: it may not delete what it draws |
| `Parts = {"slave"}` in `server` | `AofOnOrExit` | the retry loop tests its counter after a post-decrement: when the last attempt to turn the AOF on fails the slave goes on without it |
| `{"input"}` | `WellFormedIsAccepted` | a client that was blocked while its input went on is told "too big bulk count string", because the whole buffer is measured |
| `{"loop"}` | `NoSleepWhenDue` | with an event overdue by more than a second the poll sleeps the difference of the milliseconds |
| `{"iocp"}` | `ListenerAccepts` | an accept that finds no descriptor is not queued again when one is free |
| `{"loop"}` | `DueEventsRun` without `back` | the clock is set back within a pass, which then finds the next event not due any more |
| `{"loop"}` | `DueEventsRun` if a pass in the same second owed what is left over too | the clock was set back within its second, so that the next pass, in the same second, does not notice it |
| `{"fork"}` | `AlwaysASnapshot` | beside another operation, and after one that was given up or aborted, a process can read data that is not that of its own fork |
| `{"fork"}` | `EndsAreTold` | the end of an AOF rewrite is taken for that of the RDB save that began meanwhile |
| `{"fork"}` | `CompleteMeansSaved` | a process that failed sets the same event as one that saved |
| `{"fork"}`, `MayPageOut = TRUE` | `ForkIsASnapshot` | a private page outside of the working set is not copied into the section |
| `{"bio"}` | `FsyncsItsFile` | the descriptor of a queued fsync was closed and leads to another file |
| `{"lua"}`, `Evicts = TRUE` | `ScriptsAreReplayed` | eviction inside a script deletes keys at another time than on the slave |
| `{"votes"}`, `MayMoveAgain = TRUE`, `MaxMoves = 2` | `QuorumIsReal` | a Sentinel that answers at its old entry with a new run id and moves then has two entries with its vote until the older answer expires |
| `{"scripts"}` | `RunningIsExact` | a script that is to be retried is not subtracted from `running_scripts` |
| `{"links"}` | `PendingIsExact` | the reply to a command that was not counted is subtracted from `pending_commands` |

Seen while modelling, and part of the definitions rather than of a property:
INCRBYFLOAT is propagated as a SET, which drops the expire of the key on the
copies (`t_string.c:399`); PERSIST looks its key up without expiring it, so an
expired key that was not deleted yet comes back (`db.c:634`); MOVE does not
signal its keys to WATCH; RESTORE is written to the AOF with its relative time;
HINCRBY never converts the ziplist for a long field; the comments of
`zipmap.c:54` give the lengths of one byte as up to 252, the code as below 254.

## 4. Proofs

All proofs are checked by TLAPS for every value of the constants that satisfies
the assumptions of the modules. These say little: `ReplicationAssumption`,
`AofAssumption` and `CommandAssumption` that sets are not empty, databases are
natural numbers with 0 among them and policies are policies;
`SentinelAssumption` that there are finitely many addresses; `DictAssumption`
that keys, which stand for their hash values, and sizes are natural numbers;
`IntSetAssumption` that a digit has two values at least, that the three widths
are positive and grow, and that the integers fit the widest;
`InputAssumption` and `StreamsAssumption` what section 3 says of them; the
others that limits, digits and descriptors are numbers, and that a "none" is not
one of the values. The bounds (`MaxWrites`, `MaxFaults`,
`MaxTime`, `MaxMoves` ...) are constants like the others, so the theorems hold
for any of them. A theorem that needs more says so in its `ASSUME`, and section
3 has the counterexample without it.

### `ReplicationProofs`

Without further assumptions: `TypeCorrect`, and `StartHasChildAlways` (a slave
in `WAIT_BGSAVE_START` always has a child whose end will start its BGSAVE).
Without forks that fail: `WaitersHaveChildAlways`, which adds that a slave in
`WAIT_BGSAVE_END` has the child whose end it waits for, whichever way that child
ends.

`Setting` is one database and no fault of the kinds `signal`, `fork` and
`slavebgsave`: the counterexamples above show that without each of these
conditions the properties fail. Under it, `InductiveInvariant` proves `IInv`:

- `ChildInv`: `dump.rdb` holds the snapshot once the child has succeeded;
- `ClientInv`: what the master keeps for a slave (snapshot or RDB file, then
  output buffer) is its dataset;
- `LinkInv`: which states of master and slave go together, and when the socket
  is empty;
- `StreamInv`: what the slave holds and what is under way to it is a prefix of
  the master's dataset, and all of it while the slave is fed.

`CopyIsPrefix` alone is not inductive: a step that loads a snapshot needs to
know what was in the socket, which needs `ClientInv` from the time before the
transfer. `CopyIsPrefixAlways`, `NothingLostAlways` and `Refinement` (of `AsyncReplication`) follow from it.

### `AppendOnlyFileProofs`

Without further assumptions, so for each policy, with pipelining and with every
fault, `DataInv` is inductive:

- `TextInv`: file and buffer are the dataset while the AOF is on; dump and
  rewrite buffer are the dataset while a child rewrites it; the file is a prefix
  of both, which is why a rename never takes anything away;
- `ControlInv`: where the thread is says which child there is and what the
  file is in `switch`;
- `DiskInv`: what is synced, or being synced, is in the file;
- `SelectInv`: `aof_selected_db` is -1 or what both texts select, which is what
  makes a fed write land in its database in both.

It gives `TypeCorrect`, `TextIsDataAlways`, `RewriteIsDataAlways` and
`FileOnlyGrowsAlways`. `PostponedBrieflyAlways` is an action property and needs
no invariant: only `beforeSleep` and `serverCron` flush without force, and both
look at the clock.

What clients were told needs a `Setting`: the policy is not `everysec`, clients
do not pipeline, and if power can be lost then `SyncsEachWrite` holds
(`always`, no `no-appendfsync-on-rewrite`, no loss of power inside `switch`).
Then `AnswerInv` (what is answered, or is about to be, is in the file) and
`SyncedInv` (and on the disk) are inductive together with `DataInv`:
`InductiveInvariant`, and from it `AckedIsWrittenAlways`, `AckedIsSyncedAlways`
and `Implementation`, the refinement of `DurableLog`. With `always` or `no` and
without loss of power, the refinement covers kills inside `switch` too, which
the run leaves out.

### `CommandExecutionProofs`

For any clients, keys, lengths of transactions and of services. `BlockInv` is
inductive whatever clients send: the types, what the thread is doing
(`ControlInv`), the two tables of blocking as inverses of each other
(`BlockLinks`), and during a service who may still be served (`ServeInv`). On it
rest

- `LinksCorrect` (`LinksInv`), with the two tables of WATCH and the list of
  clients to resume; without pipelining, for a client that blocks again before
  `beforeSleep` is resumed twice;
- `NoClientLeftWaiting` (`NoWaiterOnList`), from `WaitersInv`: a list with
  waiters is on `ready_keys`, among the keys being handled, or in a service that
  has a turn left for each waiter; without RENAME, which announces nothing;
- `SlaveIsExact` (`ReplicaIsExact`), from `StreamInv`: what the slave will have is
  the dataset at every step, a MULTI it has read is that of an EXEC under way
  which knows that it sent it, and an EXEC that sent none has not changed
  `dirty`; without SAVE, which sets `dirty` back inside a transaction;
- `TransactionsAreAtomic`, `TransactionsAreClean` (`ExecIsClean`: a client whose
  watched key changed has DIRTY_CAS, which needs both directions of WATCH) and
  `ElementsAreKept` (`ElementsKept`: each element is in one place, and in one
  only, the one a service holds in its hand included), without assumptions.

The lemmas before them say what each command does to a key space of lists whose
elements are all different.

### `SentinelProofs`

`SentinelInv` is `FailoverInv` (state of the failover, flags of the master,
`promoted_slave` and its flag, what each state may rely on) with the types and
what the instances said. A handler is a chain of functions on the record of the
master, as in the code, so the proof is a chain of lemmas, one for each function:
from a `Good` record it makes a good one, and it says which fields it leaves
alone (`SameFailover`). `RecordIsConsistent` is the invariant;
`PromotedSlaveIsThere`, `StateAndFlagsAgree` and the action property
`SwitchesOnlyToAMaster` follow, for any addresses, priorities and faults.

### `ServerProofs`

- `SlaveHasOneLink`, from `SlaveInv`: which sockets are open in each
  `repl_state`, and whose handlers they have.
- `ScriptsKeepTheirLimits`, from `ScriptsInv`: the counter is at least the
  number of running jobs (not equal, see `RunningIsExact`), and processes and
  running jobs correspond one to one.
- `LinksStayUsable`, from `LinksInv`; with the one before it, `BooksAreKept` for
  `Server`.
- `LoopRunsWhatIsDue` and `ServerRunsWhatIsDue`, from `LoopInv`: as long as the
  clock is not set back during a pass, what the pass still owes is in the rest
  of the list, due, and not newer than the pass; the list grows only at its
  head. Whatever happens to the clock, what is owed was due in the second of
  the last pass or before. That is what a pass in a later second needs to find
  due what an earlier one left over; a pass in an earlier second makes all
  events due.
- `CountedSentinelsAreReal` and `ServerCountsRealSentinels`, from `VotesInv`: a
  run id is of one Sentinel, a Sentinel with a new run id has not moved since it
  has it, no two entries have the same run id, and each vote in the table was
  given by a run id of the Sentinel whose entry it is. The entries with a vote
  so map one to one to run ids that gave it, and a count of entries is a count
  of those. It assumes `~MayMoveAgain`.
- `ClientsStayServed` puts `SlaveInv` and the invariants of `ClientProofs`
  together for `Server`, without `Evicts`; `ServerExecutesRequests` does the same
  with the input of a client.

### `WorkProofs`

- `BioJobsAreDone`, from `BioInv`: for each type, jobs created, executed and
  queued add up in order, and a sleeping thread with a job has a wakeup under
  way; descriptors to be closed are open, all different, and not that of the
  AOF.
- `ForkTakesASnapshot`, from `ForkInv`: the server always sees what it wrote
  last; while the heap is protected the section holds the data of the moment
  when it was protected, also if operations overlap or fail to begin, and that
  is what a process has read as long as no operation ended before it was done.
  Only for an operation that began alone and was not aborted is it the data of
  its own fork, and only there is the completion that the server sees its own:
  for the others the counterexamples above show that neither holds. It assumes
  `~MayPageOut`.
- `WindowsOperationsAreKnown`, from `IocpInv`: for each descriptor, the masks of
  its state are the operations that kernel and port hold for it, before and
  after it is closed, and an event has fired, or is waited for, when its mask
  says so.
- `WorkIsConsistent` is the three of them for `Server`.
- `DictKeepsKeysAlways`, from `DictInv`, for any keys and any sizes of tables:
  the first table holds a set of keys and the second another one, with no key in
  both, each key in the chain of its hash value, once, and `used` is the number
  of keys (`TableHolds`); while keys are moved, the buckets below `rehashidx` are
  empty, and otherwise there is no second table (`MovesInOrder`). A safe iterator
  is idle, was not asked for a key yet, walks, or has ended. While it walks, the
  keys it must still return are those after it in its chain, in the buckets with
  a greater index, and in the second table if it is in the first (`Ahead`): a key
  that was there when it began is either returned or ahead, never both. No
  bucket is moved under it, since `iterators` is counted from its first key on,
  so an addition can only put keys in, and the table may grow but not move on.
- `IntsetIsTheSetAlways`, from `IntsetInv`, for any base of the digits, any three
  growing widths and any integers that fit the widest (those of the program are
  the bytes of 16, 32 and 64 bits): there are an encoding, a length and a strictly
  growing sequence of integers that fit the encoding, the cell of each position
  holds the digits of its integer, and the members are the integers of the
  sequence (`IntsetArray`). `LoadIs` is why that is enough: what was stored is
  loaded again, sign included, as the digits of a number tell it (`DigitsTell`,
  an induction over the recursive function of the digits). The search keeps what
  is below `min` smaller and what is above `max` greater than the value
  (`SearchState`), and ends, because each step leaves less; the place it tells is
  the one where the value keeps the order (`InsertedIs`). While the array is
  widened from its last member down, the members above are in their wider place
  and those below still in their narrower one, and the wider place of a member
  begins where no narrower one that is still to be read can be (`WidenedIs`); with
  the loop the other way the step is false. The value that causes it fits no
  narrower encoding, so that it is beyond all members (`BeyondAll`), and the
  sign tells on which side.

### `ClientProofs`

- `ClientsAreListedOnce`, from `SubInv`: every list is, without repetitions, the
  connections whose flags say that they are on it (a monitor has the slave's
  flag too).
- `ScriptsAreReplayedAlways`, from `LuaInv`: the execution under way agrees call
  by call with its replay on the slave, except for what a command that is not
  deterministic answered, after which nothing may be written. It assumes
  `~Evicts`.
- `RepliesInOrderAlways`, from `OutInv`: what left, what is in flight and what
  waits are the bytes produced, in order; the ends of queued sends grow strictly
  and stop at `sentlen`, which is why the callback of the last one may reset
  the buffer; `reply_bytes` is the sum of the list.
- `InputIsExecuted`, from `InputInv`, for any sizes of reads, lines and
  arguments and any requests: some number `i` of requests is left, the commands
  executed are the others, and the query buffer from `pos` on, followed by what
  is still on the way, is exactly what is left of the stream, either between two
  requests (`Between`) or after some arguments of one, with its length read or
  not (`Inside`). Where `processInputBuffer` waits, the item that comes next is
  not complete in the buffer (`IsShort`), which is why nothing of a complete
  request stays there; and the buffer is at most one read longer than an
  incomplete item (`Bounded`), so that no line that is in order is refused for
  its length. A connection that is being closed (`InputClosed`) has executed a
  prefix.

### `SequenceLemmas`

What the proofs above need of concatenation, removal, prefixes and sets of
elements, proved once.

## 5. What is only model-checked, and what is not modelled

Only model-checked, so shown for the instances of section 3:

- *Liveness under fairness* (`WaiterIsServed`, `EventuallyCopies`,
  `BufferIsWritten`, `WaitRewriteEnds`, `ScheduledRewriteRuns`), which is out of
  the prover's reach.
- *The data types* (`CopiesAgree`, `AofKeepsExpires`, `EveryChangeIsSignalled`,
  `ObjectsWellFormed`, `SnapshotIsExact`, `MigrateKeepsTheKey`). What the
  commands compute is recursion over data (numbers as text, comparison of
  strings, sequences of calls), and what a recursive definition computes for
  every input cannot be proved here.
- *The structures of memory* other than the hash table and the intset
  (`StructuresKeepTheirContent` of skip lists, ziplists and zipmaps):
  their search, cascade and walk are RECURSIVE operators over memory.

Not modelled:

- *Save points and `dirty`.* A negative `dirty` delays an automatic BGSAVE; what
  else depends on it, the propagation of EXEC, is in `CommandExecution`.
- *The other back ends of the event loop* (select, epoll, kqueue, event ports):
  each is a wrapper of one system call.
- *The Windows branches of `aof.c`* around the rename of a new AOF, which closes
  the file first: `AppendOnlyFile` translates the POSIX ones.
- *Parsing and formatting*: configuration files, INFO, CLIENT LIST, DEBUG, the
  slow log, the text of replies and of Sentinel's events, Sentinel's parsing of
  INFO, the conversion of values between Lua and the protocol. They are data to
  the properties here.
- *Libraries*: strings and lists (`sds.c`, `adlist.c`), which the modules take
  as sequences; `util.c`, hash functions, SHA1, CRC, LZF, random numbers.
- *The Windows port beyond its processes, sockets and condition variables*: the
  table of descriptors, the allocator, the wrappers of single system calls,
  services and installation.
- *Command line tools, vendored libraries and tests.* `redis-check-aof --fix` is
  an action of `AppendOnlyFile`.

Assumptions that all modules share: memory allocation does not fail, a system
call that is not said to fail succeeds, and the functions of the vendored
libraries do what their callers rely on.

## 6. Plan

Modelling is as complete as the reasons above allow; what is left is mostly
proof.

1. `ZipMap` and `SkipList` with recursive functions in place of their RECURSIVE
   operators, and the theorems that `Dict` and `IntSet` have.
2. `EveryChangeIsSignalled` and `MigrateKeepsTheKey`: they follow from what each
   procedure does to the record of the server, once the recursive operators of
   `KeySpace` and of the commands are recursive functions or folds.
3. The save points, beside `Replication`'s child; the slow log.

The modules are written for this: parameters are constants, and the handlers are
actions or functions of a record.

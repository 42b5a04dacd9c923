--------------------------- MODULE AppendOnlyFile ---------------------------
(***************************************************************************)
(* The append only file: src/redis/src/aof.c with its callers in redis.c,  *)
(* config.c, bio.c and ae.c (POSIX build).                                 *)
(*                                                                         *)
(* The server is one thread that loops: beforeSleep writes the AOF buffer, *)
(* the poll reports clients, commands and reply handlers run, and from     *)
(* time to time serverCron runs.  pc says where the thread is, so that the *)
(* bio thread, the children and crashes interleave with it.  A write is    *)
(* [db, id]; its key and value are abstracted.  A sequence of writes       *)
(* stands for the text of an AOF: each write carries the database that the *)
(* SELECTs of the text before it select, so a missing SELECT shows as a    *)
(* write in the wrong database.                                            *)
(***************************************************************************)
EXTENDS Integers, Sequences, FiniteSets

CONSTANTS
    Clients,          \* the connections
    DB,               \* the database numbers, 0 among them
    AofFsync,         \* appendfsync: "no", "everysec" or "always"
    NoFsyncOnRewrite, \* no-appendfsync-on-rewrite
    Pipelining,       \* clients send commands before the replies arrive
    Faults,           \* the faults that can happen, see FaultKinds
    MaxWrites,        \* bound: writes in the dataset
    LastWriteTime,    \* bound: clients send nothing after this second
    MaxTime           \* bound: the clock stops here

FaultKinds ==
    {"fork",       \* fork() fails
     "child",      \* the rewriting child fails or is killed
     "rename",     \* the new AOF cannot be opened, completed or renamed
     "write",      \* write(2) to the AOF fails or is short
     "kill",       \* the process dies, the page cache survives
     "power",      \* the machine dies, what was not synced may be lost
     "midrewrite", \* the last two happen between rename and fsync of a new AOF too
     "shutdown",   \* SHUTDOWN is sent, and its RDB save may fail
     "wait3"}      \* wait3 of stopAppendOnly returns the saving child

ASSUME AofAssumption ==
    /\ Clients # {}
    /\ 0 \in DB /\ DB \subseteq Nat
    /\ AofFsync \in {"no", "everysec", "always"}
    /\ NoFsyncOnRewrite \in BOOLEAN /\ Pipelining \in BOOLEAN
    /\ Faults \subseteq FaultKinds
    /\ MaxWrites \in Nat /\ LastWriteTime \in Nat /\ MaxTime \in Nat \ {0}

VARIABLES
    pc,                     \* where the main thread is; "down" and "exited" when there is none
    \* memory of the server
    data,                   \* the writes executed, in order
    aof_state,              \* "off", "on", "wait" (REDIS_AOF_WAIT_REWRITE)
    aof_buf,                \* writes to append to the AOF before sleeping
    aof_rewrite_buf,        \* writes made since the rewriting child was forked
    aof_selected_db,        \* the database of the last SELECT fed, or -1
    aof_rewrite_scheduled,
    aof_flush_postponed_start, \* the second a flush was postponed, or 0
    aof_last_fsync,
    unixtime,               \* the second serverCron last read
    aof_child_pid, rdb_child_pid, \* TRUE when the variable is not -1
    \* the text of the AOF that comes next is read with this database selected
    enddb, rwdb,            \* after file and aof_buf; after the rewritten AOF and its buffer
    \* the disk
    file,                   \* the AOF as the kernel shows it
    synced,                 \* how much of it fsync made durable
    torn,                   \* the AOF ends in the middle of a command
    \* the other processes and threads
    snap,                   \* the dataset of the rewriting child
    aofproc, rdbproc,       \* the children: "none", "running" or how they ended
    zombie,                 \* there is a dead child that no variable names
    fsyncq,                 \* REDIS_BIO_AOF_FSYNC jobs, "aof" or "old" descriptor
    syncing,                \* bytes the fsync in progress covers, -1 when idle
    \* clients
    reply,                  \* c's last write not yet answered, 0 when none
    fired,                  \* clients the poll found writable
    acked                   \* history: the last write answered while the AOF was on

diskVars  == <<file, synced, torn>>
bufVars   == <<aof_buf, enddb>>
rwVars    == <<aof_rewrite_buf, rwdb, snap>>
flushVars == <<aof_flush_postponed_start, aof_last_fsync>>
childVars == <<aof_child_pid, rdb_child_pid, aofproc, rdbproc, zombie>>
bioVars   == <<fsyncq, syncing>>
clientVars == <<reply, fired, acked>>
vars == <<pc, data, aof_state, aof_selected_db, aof_rewrite_scheduled, unixtime,
          diskVars, bufVars, rwVars, flushVars, childVars, bioVars, clientVars>>

Command == [db : DB, id : Nat]
Dataset == Seq(Command)

Larger(m, n) == IF m > n THEN m ELSE n

Down == pc \in {"down", "exited"}

(* initServer; a process starts with an empty memory, the disk is as it was.*)
Init ==
    /\ pc = "sleep" /\ data = <<>>
    /\ file = <<>> /\ synced = 0 /\ torn = FALSE /\ acked = 0
    /\ aof_state = "on"
    /\ aof_buf = <<>> /\ enddb = 0
    /\ aof_rewrite_buf = <<>> /\ rwdb = 0 /\ snap = <<>>
    /\ aof_selected_db = -1
    /\ aof_rewrite_scheduled = FALSE
    /\ aof_flush_postponed_start = 0 /\ aof_last_fsync = 1 /\ unixtime = 1
    /\ aof_child_pid = FALSE /\ rdb_child_pid = FALSE
    /\ aofproc = "none" /\ rdbproc = "none" /\ zombie = FALSE
    /\ fsyncq = <<>> /\ syncing = -1
    /\ reply = [c \in Clients |-> 0] /\ fired = {}

ForgetMemory ==
    /\ aof_state' = "on"
    /\ aof_buf' = <<>> /\ enddb' = 0
    /\ aof_rewrite_buf' = <<>> /\ rwdb' = 0 /\ snap' = <<>>
    /\ aof_selected_db' = -1
    /\ aof_rewrite_scheduled' = FALSE
    /\ aof_flush_postponed_start' = 0 /\ aof_last_fsync' = 1 /\ unixtime' = 1
    /\ aof_child_pid' = FALSE /\ rdb_child_pid' = FALSE
    /\ aofproc' = "none" /\ rdbproc' = "none" /\ zombie' = FALSE
    /\ fsyncq' = <<>> /\ syncing' = -1
    /\ reply' = [c \in Clients |-> 0] /\ fired' = {}

-----------------------------------------------------------------------------
(* Feeding the buffers *)

(* feedAppendOnlyFile: a SELECT when the database changes, then the command, *)
(* to the AOF buffer and to the buffer of a rewrite in progress.             *)
feedAppendOnlyFile(d, id) ==
    LET reselect == aof_selected_db # d
        In(db) == [db |-> IF reselect THEN d ELSE db, id |-> id]
    IN  /\ aof_selected_db' = d
        /\ IF aof_state = "on"
           THEN /\ aof_buf' = Append(aof_buf, In(enddb))
                /\ enddb' = In(enddb).db
           ELSE UNCHANGED bufVars
        /\ IF aof_child_pid
           THEN /\ aof_rewrite_buf' = Append(aof_rewrite_buf, In(rwdb))
                /\ rwdb' = In(rwdb).db
           ELSE UNCHANGED <<aof_rewrite_buf, rwdb>>
        /\ UNCHANGED snap

ClientsSend == pc = "events" /\ unixtime <= LastWriteTime

(* call and propagate: a client executes a write and its reply is queued.  *)
WriteCommand(c, d) ==
    /\ ClientsSend /\ Len(data) < MaxWrites
    /\ Pipelining \/ reply[c] = 0
    /\ data' = Append(data, [db |-> d, id |-> Len(data) + 1])
    /\ IF aof_state # "off"
       THEN feedAppendOnlyFile(d, Len(data) + 1)
       ELSE UNCHANGED <<bufVars, rwVars, aof_selected_db>>
    /\ reply' = [reply EXCEPT ![c] = Len(data) + 1]
    /\ UNCHANGED <<pc, aof_state, aof_rewrite_scheduled, unixtime, diskVars,
                   flushVars, childVars, bioVars, fired, acked>>

(* sendReplyToClient: runs only for clients the poll found writable, and   *)
(* sends everything queued, replies to the commands just executed included.*)
SendReply(c) ==
    /\ pc = "events" /\ c \in fired
    /\ fired' = fired \ {c}
    /\ acked' = IF aof_state = "on" THEN Larger(acked, reply[c]) ELSE acked
    /\ reply' = [reply EXCEPT ![c] = 0]
    /\ UNCHANGED <<pc, data, aof_state, aof_selected_db, aof_rewrite_scheduled, unixtime,
                   diskVars, bufVars, rwVars, flushVars, childVars, bioVars>>

-----------------------------------------------------------------------------
(* Writing the AOF *)

SyncInProgress == AofFsync = "everysec" /\ fsyncq # <<>>

(* Mutant: an off-by-one in the two seconds.                               *)
MayPostponeThree(force) ==
    /\ SyncInProgress /\ ~force
    /\ \/ aof_flush_postponed_start = 0
       \/ unixtime - aof_flush_postponed_start <= 2

MayPostpone(force) ==
    /\ SyncInProgress /\ ~force
    /\ \/ aof_flush_postponed_start = 0
       \/ unixtime - aof_flush_postponed_start < 2

WritesBuffer(force) == aof_buf # <<>> /\ ~MayPostpone(force)

(* Mutant: the check of the second applies to every policy.                *)
FsyncIsDueOncePerSecond ==
    /\ ~(NoFsyncOnRewrite /\ (aof_child_pid \/ rdb_child_pid))
    /\ AofFsync \in {"always", "everysec"} /\ unixtime > aof_last_fsync

(* The fsync that follows a write: in place, queued, or skipped.           *)
FsyncIsDue ==
    /\ ~(NoFsyncOnRewrite /\ (aof_child_pid \/ rdb_child_pid))
    /\ \/ AofFsync = "always"
       \/ AofFsync = "everysec" /\ unixtime > aof_last_fsync

QueuesFsync == AofFsync = "everysec" /\ FsyncIsDue /\ ~SyncInProgress

FsyncAfterWrite ==
    /\ synced' = IF AofFsync = "always" /\ FsyncIsDue THEN Len(file') ELSE synced
    /\ fsyncq' = IF QueuesFsync THEN Append(fsyncq, "aof") ELSE fsyncq
    /\ aof_last_fsync' = IF FsyncIsDue THEN unixtime ELSE aof_last_fsync
    /\ UNCHANGED syncing

(* The jobs queued for a descriptor that is no longer the AOF; however     *)
(* many they are, they take as long as one that takes longer.              *)
Stale(q) == IF q = <<>> THEN <<>> ELSE <<"old">>

(* Mutant: every postponed call starts the wait again.                     *)
flushRestartsWait(force) ==
    \/ /\ aof_buf = <<>>
       /\ UNCHANGED <<aof_buf, diskVars, flushVars, bioVars>>
    \/ /\ aof_buf # <<>> /\ MayPostpone(force)
       /\ aof_flush_postponed_start' = unixtime
       /\ UNCHANGED <<aof_buf, diskVars, aof_last_fsync, bioVars>>
    \/ /\ WritesBuffer(force)
       /\ aof_flush_postponed_start' = 0
       /\ file' = file \o aof_buf
       /\ aof_buf' = <<>>
       /\ FsyncAfterWrite
       /\ UNCHANGED torn

flushAppendOnlyFile(force) ==
    \/ /\ aof_buf = <<>>
       /\ UNCHANGED <<aof_buf, diskVars, flushVars, bioVars>>
    \/ /\ aof_buf # <<>> /\ MayPostpone(force)
       /\ aof_flush_postponed_start' =
             IF aof_flush_postponed_start = 0 THEN unixtime ELSE aof_flush_postponed_start
       /\ UNCHANGED <<aof_buf, diskVars, aof_last_fsync, bioVars>>
    \/ /\ WritesBuffer(force)
       /\ aof_flush_postponed_start' = 0
       /\ file' = file \o aof_buf
       /\ aof_buf' = <<>>
       /\ FsyncAfterWrite
       /\ UNCHANGED torn

(* The process ends: its memory is gone, and so is what was to be sent.    *)
Stop(where) ==
    /\ pc' = where
    /\ ForgetMemory /\ data' = <<>>
    /\ UNCHANGED acked

(* write(2) fails: the server exits.  A short write is cut off again,      *)
(* unless ftruncate fails too.                                             *)
WriteError ==
    /\ "write" \in Faults
    /\ \/ pc = "sleep" /\ WritesBuffer(FALSE)
       \/ pc = "flush" /\ aof_flush_postponed_start # 0 /\ WritesBuffer(FALSE)
       \/ ClientsSend /\ WritesBuffer(TRUE)   \* in stopAppendOnly
    /\ \/ UNCHANGED <<file, torn>>
       \/ \E k \in 0 .. Len(aof_buf) - 1 :
             file' = file \o SubSeq(aof_buf, 1, k) /\ torn' = TRUE
    /\ UNCHANGED synced
    /\ Stop("down")

(* Mutant: no write to the AOF while a child uses the disk.                *)
beforeSleepIdleDisk ==
    /\ pc = "sleep" /\ pc' = "events"
    /\ IF aof_child_pid \/ rdb_child_pid
       THEN UNCHANGED <<aof_buf, diskVars, flushVars, bioVars>>
       ELSE flushAppendOnlyFile(FALSE)
    /\ fired' \in SUBSET {c \in Clients : reply[c] # 0}
    /\ UNCHANGED <<data, aof_state, aof_selected_db, aof_rewrite_scheduled, unixtime,
                   enddb, rwVars, childVars, reply, acked>>

(* beforeSleep, then the poll: the sockets of some clients with queued     *)
(* replies are writable.                                                   *)
beforeSleep ==
    /\ pc = "sleep" /\ pc' = "events"
    /\ flushAppendOnlyFile(FALSE)
    /\ fired' \in SUBSET {c \in Clients : reply[c] # 0}
    /\ UNCHANGED <<data, aof_state, aof_selected_db, aof_rewrite_scheduled, unixtime,
                   enddb, rwVars, childVars, reply, acked>>

(* The file events are done.  serverCron may be due or not.                *)
EndOfEvents ==
    /\ pc = "events" /\ pc' \in {"sleep", "cron"}
    /\ fired' = {}
    /\ UNCHANGED <<data, aof_state, aof_selected_db, aof_rewrite_scheduled, unixtime,
                   diskVars, bufVars, rwVars, flushVars, childVars, bioVars, reply, acked>>

(* The bio thread: fsync covers what was written when it started.          *)
BioFsyncStarts ==
    /\ fsyncq # <<>> /\ syncing = -1
    /\ syncing' = IF Head(fsyncq) = "aof" THEN Len(file) ELSE 0
    /\ UNCHANGED <<pc, data, aof_state, aof_selected_db, aof_rewrite_scheduled, unixtime,
                   diskVars, bufVars, rwVars, flushVars, childVars, fsyncq, clientVars>>

BioFsyncEnds ==
    /\ syncing # -1
    /\ synced' = IF Head(fsyncq) = "aof" THEN Larger(synced, syncing) ELSE synced
    /\ syncing' = -1
    /\ fsyncq' = Tail(fsyncq)
    /\ UNCHANGED <<pc, data, aof_state, aof_selected_db, aof_rewrite_scheduled, unixtime,
                   file, torn, bufVars, rwVars, flushVars, childVars, clientVars>>

-----------------------------------------------------------------------------
(* Rewriting the AOF *)

(* The database selected at the end of the text the child writes: it dumps *)
(* the databases in order and skips the empty ones.                        *)
LastDb(s) ==
    LET used == {s[i].db : i \in DOMAIN s}
    IN  {d \in DB \cap (used \cup {0}) : \A e \in used : e <= d}

ForkFails == "fork" \in Faults /\ UNCHANGED <<rwVars, childVars, aof_selected_db, aof_rewrite_scheduled>>

(* Mutant: the next write is not preceded by a SELECT.                     *)
ForkRewriteKeepsSelect ==
    /\ snap' = data /\ rwdb' \in LastDb(data)
    /\ aof_rewrite_scheduled' = FALSE
    /\ aof_child_pid' = TRUE /\ aofproc' = "running"
    /\ UNCHANGED <<aof_selected_db, aof_rewrite_buf, rdb_child_pid, rdbproc, zombie>>

(* rewriteAppendOnlyFileBackground in the parent when fork works; it is    *)
(* never reached with another rewriting child.                             *)
ForkRewrite ==
    /\ snap' = data /\ rwdb' \in LastDb(data)
    /\ aof_rewrite_scheduled' = FALSE
    /\ aof_child_pid' = TRUE /\ aofproc' = "running"
    /\ aof_selected_db' = -1
    /\ UNCHANGED <<aof_rewrite_buf, rdb_child_pid, rdbproc, zombie>>

rewriteAppendOnlyFileBackground == ForkRewrite \/ ForkFails

bgrewriteaofCommand ==
    /\ ClientsSend /\ ~aof_child_pid
    /\ IF rdb_child_pid
       THEN /\ aof_rewrite_scheduled' = TRUE
            /\ UNCHANGED <<rwVars, childVars, aof_selected_db>>
       ELSE rewriteAppendOnlyFileBackground
    /\ UNCHANGED <<pc, data, aof_state, unixtime, diskVars, bufVars, flushVars, bioVars, clientVars>>

(* rdbSaveBackground, from BGSAVE, SYNC or the save points: all that the   *)
(* AOF sees of it is its child.  SYNC starts one beside a rewriting child. *)
rdbSaveBackground ==
    /\ ~rdb_child_pid
    /\ rdb_child_pid' = TRUE /\ rdbproc' = "running"
    /\ UNCHANGED <<aof_child_pid, aofproc, zombie>>

SaveOrSyncCommand ==
    /\ ClientsSend /\ rdbSaveBackground
    /\ UNCHANGED <<pc, data, aof_state, aof_selected_db, aof_rewrite_scheduled, unixtime,
                   diskVars, bufVars, rwVars, flushVars, bioVars, clientVars>>

(* The children, as processes.                                             *)
AofChildEnds ==
    /\ aofproc = "running"
    /\ aofproc' \in {"ok"} \cup (IF "child" \in Faults THEN {"error", "signal"} ELSE {})
    /\ UNCHANGED <<pc, data, aof_state, aof_selected_db, aof_rewrite_scheduled, unixtime,
                   diskVars, bufVars, rwVars, flushVars, bioVars, clientVars,
                   aof_child_pid, rdb_child_pid, rdbproc, zombie>>

RdbChildEnds ==
    /\ rdbproc = "running" /\ rdbproc' = "dead"
    /\ UNCHANGED <<pc, data, aof_state, aof_selected_db, aof_rewrite_scheduled, unixtime,
                   diskVars, bufVars, rwVars, flushVars, bioVars, clientVars,
                   aof_child_pid, rdb_child_pid, aofproc, zombie>>

-----------------------------------------------------------------------------
(* serverCron, one step for each part that something can interleave with   *)

(* Mutant: a scheduled rewrite waits until the AOF has grown.              *)
serverCronForgetsRequest == \E now \in {unixtime, unixtime + 1} :
    /\ pc = "cron" /\ pc' = "reap"
    /\ now <= MaxTime /\ unixtime' = now
    /\ UNCHANGED <<rwVars, childVars, aof_selected_db, aof_rewrite_scheduled>>
    /\ UNCHANGED <<data, aof_state, diskVars, bufVars, flushVars, bioVars, clientVars>>

serverCron == \E now \in {unixtime, unixtime + 1} :
    /\ pc = "cron" /\ pc' = "reap"
    /\ now <= MaxTime /\ unixtime' = now
    /\ IF aof_rewrite_scheduled /\ ~aof_child_pid /\ ~rdb_child_pid
       THEN rewriteAppendOnlyFileBackground
       ELSE UNCHANGED <<rwVars, childVars, aof_selected_db, aof_rewrite_scheduled>>
    /\ UNCHANGED <<data, aof_state, diskVars, bufVars, flushVars, bioVars, clientVars>>

(* No child: save points and the growth of the AOF may start one, the save *)
(* points first.                                                           *)
StartBackgroundWork ==
    /\ pc = "reap" /\ pc' = "flush"
    /\ ~aof_child_pid /\ ~rdb_child_pid
    /\ \/ UNCHANGED <<rwVars, childVars, aof_selected_db, aof_rewrite_scheduled>>
       \/ rdbSaveBackground /\ UNCHANGED <<rwVars, aof_selected_db, aof_rewrite_scheduled>>
       \/ ForkRewrite
    /\ UNCHANGED <<data, aof_state, unixtime, diskVars, bufVars, flushVars, bioVars, clientVars>>

AofChildEnded == aofproc \in {"ok", "error", "signal"}

(* wait3 finds no dead child, the saving child, or one that is not known.  *)
ReapOther ==
    /\ pc = "reap" /\ pc' = "flush"
    /\ aof_child_pid \/ rdb_child_pid
    /\ \/ /\ rdbproc # "dead" /\ ~AofChildEnded /\ ~zombie
          /\ UNCHANGED childVars
       \/ /\ rdbproc = "dead" /\ rdbproc' = "none" /\ rdb_child_pid' = FALSE
          /\ UNCHANGED <<aof_child_pid, aofproc, zombie>>
       \/ /\ zombie /\ zombie' = FALSE
          /\ UNCHANGED <<aof_child_pid, rdb_child_pid, aofproc, rdbproc>>
    /\ UNCHANGED <<data, aof_state, aof_selected_db, aof_rewrite_scheduled, unixtime,
                   diskVars, bufVars, rwVars, flushVars, bioVars, clientVars>>

(* Mutant: a failed rewrite is not tried again.                            *)
CleanupWithoutRetry(state) ==
    /\ aof_rewrite_buf' = <<>> /\ snap' = <<>> /\ UNCHANGED rwdb
    /\ aof_child_pid' = FALSE
    /\ UNCHANGED aof_rewrite_scheduled

(* The label cleanup of backgroundRewriteDoneHandler; state is aof_state.  *)
CleanupRewrite(state) ==
    /\ aof_rewrite_buf' = <<>> /\ snap' = <<>> /\ UNCHANGED rwdb
    /\ aof_child_pid' = FALSE
    /\ aof_rewrite_scheduled' = (aof_rewrite_scheduled \/ state = "wait")

(* The rewriting child failed, or what follows its success does.           *)
RewriteFails ==
    /\ pc = "reap" /\ pc' = "flush"
    /\ aof_child_pid /\ AofChildEnded
    /\ aofproc = "ok" => "rename" \in Faults
    /\ aofproc' = "none"
    /\ CleanupRewrite(aof_state)
    /\ UNCHANGED <<data, aof_state, aof_selected_db, unixtime, rdb_child_pid, rdbproc, zombie,
                   diskVars, bufVars, flushVars, bioVars, clientVars>>

(* Mutant: the buffered writes are not added to the child's file.          *)
RenamesWithoutDiff ==
    /\ pc = "reap" /\ pc' = "switch"
    /\ aof_child_pid /\ aofproc = "ok"
    /\ aofproc' = "none"
    /\ file' = snap /\ synced' = Len(snap)
    /\ fsyncq' = Stale(fsyncq)
    /\ UNCHANGED <<data, aof_state, aof_selected_db, aof_rewrite_scheduled, unixtime, torn,
                   bufVars, rwVars, flushVars, aof_child_pid, rdb_child_pid, rdbproc, zombie,
                   syncing, clientVars>>

(* The child succeeded: its file is completed with the buffered writes and *)
(* renamed over the AOF.  The child synced its part.                       *)
RewriteRenames ==
    /\ pc = "reap" /\ pc' = "switch"
    /\ aof_child_pid /\ aofproc = "ok"
    /\ aofproc' = "none"
    /\ file' = snap \o aof_rewrite_buf /\ synced' = Len(snap)
    /\ fsyncq' = Stale(fsyncq)
    /\ UNCHANGED <<data, aof_state, aof_selected_db, aof_rewrite_scheduled, unixtime, torn,
                   bufVars, rwVars, flushVars, aof_child_pid, rdb_child_pid, rdbproc, zombie,
                   syncing, clientVars>>

(* Mutant: the writes that are in the new file stay in aof_buf.            *)
SwitchesKeepBuffer ==
    /\ pc = "switch" /\ pc' = "flush"
    /\ IF aof_state = "off"
       THEN UNCHANGED <<bufVars, aof_selected_db, synced, fsyncq>>
       ELSE /\ enddb' = rwdb /\ UNCHANGED aof_buf
            /\ aof_selected_db' = -1
            /\ synced' = IF AofFsync = "always" THEN Len(file) ELSE synced
            /\ fsyncq' = IF AofFsync = "everysec" THEN Append(fsyncq, "aof") ELSE fsyncq
    /\ aof_state' = IF aof_state = "wait" THEN "on" ELSE aof_state
    /\ CleanupRewrite(aof_state')
    /\ UNCHANGED <<data, unixtime, file, torn, flushVars, syncing, clientVars,
                   rdb_child_pid, aofproc, rdbproc, zombie>>

(* The rest of backgroundRewriteDoneHandler: with the AOF enabled, the new *)
(* descriptor is synced or queued to be, and replaces the old one.         *)
RewriteSwitches ==
    /\ pc = "switch" /\ pc' = "flush"
    /\ IF aof_state = "off"
       THEN UNCHANGED <<bufVars, aof_selected_db, synced, fsyncq>>
       ELSE /\ aof_buf' = <<>> /\ enddb' = rwdb
            /\ aof_selected_db' = -1
            /\ synced' = IF AofFsync = "always" THEN Len(file) ELSE synced
            /\ fsyncq' = IF AofFsync = "everysec" THEN Append(fsyncq, "aof") ELSE fsyncq
    /\ aof_state' = IF aof_state = "wait" THEN "on" ELSE aof_state
    /\ CleanupRewrite(aof_state')
    /\ UNCHANGED <<data, unixtime, file, torn, flushVars, syncing, clientVars,
                   rdb_child_pid, aofproc, rdbproc, zombie>>

CronFlush ==
    /\ pc = "flush" /\ pc' = "sleep"
    /\ IF aof_flush_postponed_start # 0
       THEN flushAppendOnlyFile(FALSE)
       ELSE UNCHANGED <<aof_buf, diskVars, flushVars, bioVars>>
    /\ UNCHANGED <<data, aof_state, aof_selected_db, aof_rewrite_scheduled, unixtime,
                   enddb, rwVars, childVars, clientVars>>

-----------------------------------------------------------------------------
(* CONFIG SET appendonly *)

startAppendOnly ==
    /\ ClientsSend /\ aof_state = "off"
    /\ aof_last_fsync' = unixtime
    /\ \/ /\ ~aof_child_pid /\ ForkRewrite
          /\ aof_state' = "wait"
       \/ /\ aof_child_pid \/ "fork" \in Faults
          /\ UNCHANGED <<rwVars, childVars, aof_selected_db, aof_rewrite_scheduled, aof_state>>
    /\ UNCHANGED <<pc, data, unixtime, diskVars, bufVars, aof_flush_postponed_start,
                   bioVars, clientVars>>

(* Mutant: the buffer of the killed rewrite is kept for the next one.      *)
KillAofChildKeepsBuffer ==
    IF aof_child_pid
    THEN /\ aof_child_pid' = FALSE /\ aofproc' = "none" /\ snap' = <<>>
         /\ UNCHANGED <<aof_rewrite_buf, rwdb, rdb_child_pid, rdbproc, zombie>>
    ELSE UNCHANGED <<rwVars, childVars>>

(* stopAppendOnly kills the rewriting child and waits for a child, not     *)
(* necessarily that one.                                                   *)
KillAofChild ==
    IF aof_child_pid
    THEN /\ aof_child_pid' = FALSE /\ aofproc' = "none"
         /\ aof_rewrite_buf' = <<>> /\ snap' = <<>>
         /\ \/ UNCHANGED <<rdbproc, zombie>>
            \/ /\ "wait3" \in Faults /\ rdbproc = "dead"
               /\ rdbproc' = "none" /\ zombie' = TRUE
         /\ UNCHANGED <<rwdb, rdb_child_pid>>
    ELSE UNCHANGED <<rwVars, childVars>>

stopAppendOnly ==
    /\ ClientsSend /\ aof_state # "off"
    /\ file' = file \o aof_buf /\ aof_buf' = <<>>
    /\ synced' = Len(file')
    /\ IF aof_buf = <<>>
       THEN fsyncq' = Stale(fsyncq) /\ UNCHANGED flushVars
       ELSE /\ fsyncq' = IF QueuesFsync THEN <<"old">> ELSE Stale(fsyncq)
            /\ aof_flush_postponed_start' = 0
            /\ aof_last_fsync' = IF FsyncIsDue THEN unixtime ELSE aof_last_fsync
    /\ aof_selected_db' = -1
    /\ aof_state' = "off"
    /\ KillAofChild
    /\ UNCHANGED <<pc, data, aof_rewrite_scheduled, unixtime, torn, enddb,
                   syncing, clientVars>>

-----------------------------------------------------------------------------
(* The end of the process and the next one *)

(* SHUTDOWN: prepareForShutdown syncs the AOF, it does not write aof_buf.  *)
ShutdownCommand ==
    /\ ClientsSend /\ "shutdown" \in Faults
    /\ synced' = IF aof_state # "off" THEN Len(file) ELSE synced
    /\ UNCHANGED <<file, torn>>
    /\ Stop("exited")

(* SHUTDOWN whose final rdbSave fails: the server goes on, with its        *)
(* children killed.                                                        *)
ShutdownFails ==
    /\ ClientsSend /\ "shutdown" \in Faults
    /\ synced' = IF aof_state # "off" THEN Len(file) ELSE synced
    /\ aofproc' = IF aofproc = "running" /\ aof_state # "off" THEN "signal" ELSE aofproc
    /\ rdbproc' = IF rdbproc = "running" THEN "dead" ELSE rdbproc
    /\ UNCHANGED <<pc, data, aof_state, aof_selected_db, aof_rewrite_scheduled, unixtime,
                   file, torn, bufVars, rwVars, flushVars, bioVars, clientVars,
                   aof_child_pid, rdb_child_pid, zombie>>

Kill ==
    /\ "kill" \in Faults /\ ~Down
    /\ pc = "switch" => "midrewrite" \in Faults
    /\ UNCHANGED diskVars
    /\ Stop("down")

(* What was not synced may reach the disk or not, in order, the last       *)
(* command partly.                                                         *)
PowerLoss ==
    /\ "power" \in Faults /\ pc # "exited"
    /\ pc = "switch" => "midrewrite" \in Faults
    /\ \E n \in synced .. Len(file) :
          /\ file' = SubSeq(file, 1, n) /\ synced' = n
          /\ torn' \in IF n < Len(file) THEN BOOLEAN ELSE {torn}
    /\ Stop("down")

(* redis-check-aof --fix cuts the AOF after its last complete command.     *)
CheckAofFix ==
    /\ pc = "down" /\ torn
    /\ torn' = FALSE
    /\ UNCHANGED <<pc, data, aof_state, aof_selected_db, aof_rewrite_scheduled, unixtime,
                   file, synced, bufVars, rwVars, flushVars, childVars, bioVars, clientVars>>

(* A server starts and loads the AOF; it exits when the AOF is torn.       *)
loadAppendOnlyFile ==
    /\ Down /\ ~torn
    /\ pc' = "sleep"
    /\ UNCHANGED <<diskVars, acked>>
    /\ ForgetMemory /\ data' = file

-----------------------------------------------------------------------------
MainLoop == beforeSleep \/ EndOfEvents \/ serverCron \/ StartBackgroundWork \/ ReapOther
            \/ RewriteFails \/ RewriteRenames \/ RewriteSwitches \/ CronFlush

Commands ==
    \/ \E c \in Clients : SendReply(c) \/ \E d \in DB : WriteCommand(c, d)
    \/ bgrewriteaofCommand \/ SaveOrSyncCommand \/ startAppendOnly \/ stopAppendOnly
    \/ ShutdownCommand \/ ShutdownFails

Next ==
    \/ MainLoop \/ Commands
    \/ BioFsyncStarts \/ BioFsyncEnds \/ AofChildEnds \/ RdbChildEnds
    \/ WriteError \/ Kill \/ PowerLoss \/ CheckAofFix \/ loadAppendOnlyFile

Spec == Init /\ [][Next]_vars

(* The event loop keeps running and its timer fires; time passes; children *)
(* end; fork, the rewrite and the rename work if they are tried for ever.  *)
(* Nothing is assumed of the disk: an fsync may last for ever.             *)
Fairness ==
    /\ WF_vars(MainLoop)
    /\ SF_vars(EndOfEvents /\ pc' = "cron")
    /\ SF_vars(serverCron /\ unixtime' # unixtime)
    /\ SF_vars(serverCron /\ aof_child_pid' # aof_child_pid)
    /\ WF_vars(AofChildEnds) /\ SF_vars(AofChildEnds /\ aofproc' = "ok")
    /\ WF_vars(RdbChildEnds) /\ SF_vars(ReapOther /\ rdb_child_pid' # rdb_child_pid)
    /\ SF_vars(RewriteRenames)

FairSpec == Spec /\ Fairness

(* The disk works as well.                                                 *)
FairDiskSpec == FairSpec /\ WF_vars(BioFsyncStarts) /\ WF_vars(BioFsyncEnds)

-----------------------------------------------------------------------------
(* Correctness *)

TypeOK ==
    /\ pc \in {"sleep", "events", "cron", "reap", "switch", "flush", "down", "exited"}
    /\ data \in Dataset /\ file \in Dataset /\ aof_buf \in Dataset
    /\ aof_rewrite_buf \in Dataset /\ snap \in Dataset
    /\ aof_state \in {"off", "on", "wait"}
    /\ aof_selected_db \in DB \cup {-1} /\ enddb \in DB /\ rwdb \in DB
    /\ aof_rewrite_scheduled \in BOOLEAN
    /\ aof_flush_postponed_start \in Nat /\ aof_last_fsync \in Nat /\ unixtime \in Nat
    /\ aof_child_pid \in BOOLEAN /\ rdb_child_pid \in BOOLEAN
    /\ aofproc \in {"none", "running", "ok", "error", "signal"}
    /\ rdbproc \in {"none", "running", "dead"} /\ zombie \in BOOLEAN
    /\ synced \in Nat /\ torn \in BOOLEAN
    /\ fsyncq \in Seq({"aof", "old"}) /\ syncing \in Nat \cup {-1}
    /\ reply \in [Clients -> Nat] /\ fired \subseteq Clients /\ acked \in Nat

(* While the AOF is on, the file and the buffer together execute to the    *)
(* dataset: every write once, in order, in the database of its client      *)
(* (feedAppendOnlyFile, backgroundRewriteDoneHandler).                     *)
TextIsData ==
    aof_state = "on" /\ ~Down => file \o (IF pc = "switch" THEN <<>> ELSE aof_buf) = data

(* While a child rewrites an AOF that is enabled, its dump and the buffered *)
(* writes together execute to the dataset (rewriteAppendOnlyFileBackground).*)
RewriteIsData ==
    aof_child_pid /\ aof_state # "off" => snap \o aof_rewrite_buf = data

(* A client is answered after its write reached the kernel: killing the    *)
(* process loses nothing that was answered (flushAppendOnlyFile is called  *)
(* by beforeSleep, replies are sent by file events).                       *)
AckedIsWritten == acked <= Len(file)

(* With appendfsync always a client is answered after its write reached    *)
(* the disk.  While backgroundRewriteDoneHandler is between rename and     *)
(* fsync this does not hold, see AckedIsAlwaysSynced.                      *)
AckedIsSynced == AofFsync = "always" /\ pc # "switch" => acked <= synced

(* The same at every moment: what redis.conf says of always.               *)
AckedIsAlwaysSynced == AofFsync = "always" => acked <= synced

(* A rewrite never shows a reader of the file less than was answered: the  *)
(* old file is replaced at once, by one that has every answered write.     *)
FileOnlyGrows == [][~Down /\ ~Down' => Len(file') >= Len(file)
                                        /\ SubSeq(file', 1, Len(file)) = file]_vars

(* rdb_child_pid names a process that wait3 can still return: otherwise    *)
(* the server waits for it for ever (stopAppendOnly, serverCron).          *)
RdbChildExists == rdb_child_pid => rdbproc # "none"

(* prepareForShutdown: the AOF that is left has the full dataset.          *)
ShutdownKeepsAll == [][pc' = "exited" /\ aof_state # "off" => file' = data]_vars

(* aof_flush_postponed_start is set only while a flush is postponed.       *)
PostponedHasBuffer == aof_flush_postponed_start # 0 => aof_buf # <<>>

(* A flush is postponed at most two seconds: a buffer that a slow fsync    *)
(* holds back is one that the current wait has held back for less than     *)
(* that (flushAppendOnlyFile).                                             *)
PostponedBriefly ==
    [][aof_buf # <<>> /\ aof_buf' = aof_buf /\ pc \in {"sleep", "flush"} /\ pc' # pc
       /\ ~Down' /\ aof_flush_postponed_start # 0
       => unixtime - aof_flush_postponed_start < 2]_vars

(* What was fed to the buffer is written, even when an fsync never ends:   *)
(* serverCron retries a postponed flush (flushAppendOnlyFile).             *)
BufferIsWritten == aof_buf # <<>> ~> aof_buf = <<>>

(* An AOF that was enabled at run time is in use one day, though rewrites  *)
(* fail: the handler schedules another one (backgroundRewriteDoneHandler). *)
WaitRewriteEnds == aof_state = "wait" ~> aof_state # "wait"

(* A BGREWRITEAOF that was scheduled because of a BGSAVE is run            *)
(* (bgrewriteaofCommand, serverCron).                                      *)
ScheduledRewriteRuns == aof_rewrite_scheduled ~> ~aof_rewrite_scheduled

(* With appendfsync everysec what was answered becomes durable             *)
(* (flushAppendOnlyFile, the bio thread).                                  *)
AckedBecomesDurable == \A n \in 1 .. MaxWrites : acked >= n ~> synced >= n

-----------------------------------------------------------------------------
(* The inductive invariant of the theorems of AppendOnlyFileProofs *)

PrefixOf(p, s) == Len(p) <= Len(s) /\ p = SubSeq(s, 1, Len(p))

(* What the file, the buffers and the dump of the child stand for.         *)
TextInv ==
    /\ TextIsData /\ RewriteIsData
    /\ ~Down => PrefixOf(file, data)
    /\ aof_child_pid => /\ PrefixOf(file, snap \o aof_rewrite_buf)
                        /\ PrefixOf(snap \o aof_rewrite_buf, data)
    /\ ~aof_child_pid => snap = <<>> /\ aof_rewrite_buf = <<>>
    /\ aof_child_pid /\ aof_state = "off" => aof_rewrite_buf = <<>>
    /\ aof_state # "on" => aof_buf = <<>>
    /\ Down => data = <<>> /\ aof_state = "on" /\ aof_buf = <<>> /\ ~aof_child_pid

(* Where the main thread is says what is under way.                        *)
ControlInv ==
    /\ aof_child_pid <=> (aofproc # "none" \/ pc = "switch")
    /\ pc = "switch" => aofproc = "none" /\ file = snap \o aof_rewrite_buf
    /\ aof_state = "wait" => aof_child_pid \/ aof_rewrite_scheduled
    /\ fired # {} => pc = "events"

(* What fsync covers is in the file, and a queued fsync does not cover more.*)
DiskInv ==
    /\ synced <= Len(file)
    /\ pc = "switch" => Len(snap) <= synced
    /\ syncing # -1 => /\ fsyncq # <<>>
                       /\ Head(fsyncq) = "aof" => syncing <= Len(file)

(* aof_selected_db tells what the text selects, or is -1.                  *)
SelectInv ==
    aof_selected_db # -1 =>
        /\ aof_state = "on" => enddb = aof_selected_db
        /\ aof_child_pid /\ aof_state # "off" => rwdb = aof_selected_db

(* What was answered, and what is about to be.                             *)
AnswerInv ==
    /\ AckedIsWritten
    /\ \A c \in Clients : reply[c] <= Len(data)
    /\ \A c \in fired : /\ reply[c] # 0
                        /\ aof_state = "on" => reply[c] <= Len(file)

(* Each write is synced before it is answered.                             *)
SyncsEachWrite ==
    AofFsync = "always" /\ ~NoFsyncOnRewrite /\ "midrewrite" \notin Faults

(* The same for the disk.                                                  *)
SyncedInv ==
    SyncsEachWrite =>
        /\ AckedIsSynced
        /\ \A c \in Clients :
              aof_state = "on" /\ pc # "switch" /\ aof_buf = <<>> => reply[c] <= synced
        /\ \A c \in fired : aof_state = "on" => reply[c] <= synced

DataInv == TypeOK /\ TextInv /\ ControlInv /\ DiskInv /\ SelectInv

IInv == DataInv /\ AnswerInv /\ SyncedInv

Log == INSTANCE DurableLog WITH log <- IF Down THEN file ELSE data

(* The server with its AOF, its crashes and its restarts is a durable log. *)
ImplementsDurableLog == Log!Spec

=============================================================================

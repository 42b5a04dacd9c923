----------------------------- MODULE DataTypes ------------------------------
(***************************************************************************)
(* A master that executes commands on its key space, the slave that        *)
(* executes the stream of the master, and the append only file as the key  *)
(* space that a server gets by loading it at LoadTime.  The three execute  *)
(* the same procedures (the modules of the data types) with different      *)
(* clocks, roles, configurations of the encodings, floating point units,   *)
(* orders of their hash tables and draws of their random elements: what    *)
(* the master propagates must make up for all of it.                       *)
(*                                                                         *)
(* The workload is one of several families of commands, so that the state  *)
(* space is the sum of theirs.                                             *)
(***************************************************************************)
EXTENDS StringCommands, Snapshot

CONSTANTS
    Families,    \* the workloads
    Commands(_), \* the commands of a workload
    Limits(_),   \* the configuration of the encodings of a role
    Policy(_),   \* maxmemory-policy in a workload
    MaxMemory,   \* maxmemory, as a number of keys, unless the policy is "unlimited"
    MaxNow,      \* the last instant of the clock
    MaxLag,      \* how far behind the slave is when the master executes a command
    MaxLen,      \* the most elements of a list
    MaxScore     \* the largest finite score

VARIABLES
    family,  \* the workload
    now,     \* mstime()
    master,  \* [db, expire] of the master
    slave,   \* [db, expire] of its slave
    aof,     \* [db, expire] of a server that loads the append only file
    stream,  \* the commands the slave has not executed yet
    target   \* [db, expire] of the server that MIGRATE moves keys to

vars == <<family, now, master, slave, aof, stream, target>>

(* The append only file is loaded when the clock of the model has ended.   *)
LoadTime == MaxNow + 1

-----------------------------------------------------------------------------
(* The command table of redis.c: the procedure of a command and how its    *)
(* arguments are read.                                                     *)

KeyProc(x, c) ==
    LET k == c.keys[1]
    IN  CASE c.name = "DEL"       -> delCommand(x, c.keys)
          [] c.name = "EXISTS"    -> existsCommand(x, k)
          [] c.name = "TYPE"      -> typeCommand(x, k)
          [] c.name = "FLUSHDB"   -> flushdbCommand(x, c.nums[1])
          [] c.name = "FLUSHALL"  -> flushallCommand(x)
          [] c.name = "DBSIZE"    -> dbsizeCommand(x, c.nums[1])
          [] c.name = "KEYS"      -> keysCommand(x, c.nums[1])
          [] c.name = "RANDOMKEY" -> randomkeyCommand(x, c.nums[1], c.keys)
          [] c.name = "RENAME"    -> renameGenericCommand(x, k, c.keys[2], FALSE)
          [] c.name = "RENAMENX"  -> renameGenericCommand(x, k, c.keys[2], TRUE)
          [] c.name = "MOVE"      -> moveCommand(x, k, c.keys[2])
          [] c.name = "EXPIRE"    -> expireGenericCommand(x, k, x.now + c.nums[1])
          [] c.name = "PEXPIREAT" -> expireGenericCommand(x, k, c.nums[1])
          [] c.name = "TTL"       -> ttlGenericCommand(x, k)
          [] c.name = "PERSIST"   -> persistCommand(x, k)
          [] c.name = "OBJECT"    -> objectCommand(x, k)
          [] c.name = "RESTORE"   -> restoreCommand(x, k, c.nums[1], c.vals[1])

StringProc(x, c) ==
    LET k == c.keys[1]
        v == c.vals[1]
        n == c.nums[1]
    IN  CASE c.name = "SET"         -> setGenericCommand(x, k, v, NoTtl, FALSE, FALSE)
          [] c.name = "SETNX"       -> setGenericCommand(x, k, v, NoTtl, TRUE, FALSE)
          [] c.name = "SETXX"       -> setGenericCommand(x, k, v, NoTtl, FALSE, TRUE)
          [] c.name \in {"SETEX", "SET EX"} -> setGenericCommand(x, k, v, n, FALSE, FALSE)
          [] c.name = "GET"         -> getGenericCommand(x, k)
          [] c.name = "GETSET"      -> getsetCommand(x, k, v)
          [] c.name = "SETRANGE"    -> setrangeCommand(x, k, n, v)
          [] c.name = "GETRANGE"    -> getrangeCommand(x, k, n, c.nums[2])
          [] c.name = "MGET"        -> mgetCommand(x, c.keys)
          [] c.name = "MSET"        -> msetGenericCommand(x, c.keys, c.vals, FALSE)
          [] c.name = "MSETNX"      -> msetGenericCommand(x, c.keys, c.vals, TRUE)
          [] c.name = "INCRBY"      -> incrDecrCommand(x, k, n)
          [] c.name = "DECRBY"      -> decrbyCommand(x, k, n)
          [] c.name = "INCRBYFLOAT" -> incrbyfloatCommand(x, k, n)
          [] c.name = "APPEND"      -> appendCommand(x, k, v)
          [] c.name = "STRLEN"      -> strlenCommand(x, k)
          [] c.name = "SETBIT"      -> setbitCommand(x, k, n, c.nums[2])
          [] c.name = "GETBIT"      -> getbitCommand(x, k, n)
          [] c.name \in {"AND", "OR", "XOR", "NOT"} -> bitopCommand(x, c.name, k, Tail(c.keys))
          [] c.name = "BITCOUNT"    -> bitcountCommand(x, k, n, c.nums[2])

ListProc(x, c) ==
    LET k == c.keys[1]
        v == c.vals[1]
        n == c.nums[1]
    IN  CASE c.name = "LPUSH"     -> pushGenericCommand(x, k, c.vals, TRUE)
          [] c.name = "RPUSH"     -> pushGenericCommand(x, k, c.vals, FALSE)
          [] c.name = "LPUSHX"    -> pushxGenericCommand(x, k, v, TRUE)
          [] c.name = "RPUSHX"    -> pushxGenericCommand(x, k, v, FALSE)
          [] c.name = "LINSERT"   -> linsertCommand(x, k, v, c.vals[2], n = 1)
          [] c.name = "LLEN"      -> llenCommand(x, k)
          [] c.name = "LINDEX"    -> lindexCommand(x, k, n)
          [] c.name = "LSET"      -> lsetCommand(x, k, n, v)
          [] c.name = "LPOP"      -> popGenericCommand(x, k, TRUE)
          [] c.name = "RPOP"      -> popGenericCommand(x, k, FALSE)
          [] c.name = "LRANGE"    -> lrangeCommand(x, k, n, c.nums[2])
          [] c.name = "LTRIM"     -> ltrimCommand(x, k, n, c.nums[2])
          [] c.name = "LREM"      -> lremCommand(x, k, n, v)
          [] c.name = "RPOPLPUSH" -> rpoplpushCommand(x, k, c.keys[2])

(* SPOP and SRANDMEMBER carry the element that the master draws.           *)
SetProc(x, c) ==
    LET k == c.keys[1]
        v == c.vals[1]
    IN  CASE c.name = "SADD"        -> saddCommand(x, k, c.vals)
          [] c.name = "SREM"        -> sremCommand(x, k, c.vals)
          [] c.name = "SMOVE"       -> smoveCommand(x, k, c.keys[2], v)
          [] c.name = "SISMEMBER"   -> sismemberCommand(x, k, v)
          [] c.name = "SCARD"       -> scardCommand(x, k)
          [] c.name = "SPOP"        -> spopCommand(x, k, v)
          [] c.name = "SRANDMEMBER" -> srandmemberCommand(x, k, v)
          [] c.name = "SRANDMEMBER COUNT" -> srandmemberWithCountCommand(x, k, c.nums[1])
          [] c.name = "SINTER"      -> sinterGenericCommand(x, c.keys, FALSE, k)
          [] c.name = "SINTERSTORE" -> sinterGenericCommand(x, Tail(c.keys), TRUE, k)
          [] c.name = "SUNION"      -> sunionDiffGenericCommand(x, c.keys, FALSE, k, FALSE)
          [] c.name = "SUNIONSTORE" -> sunionDiffGenericCommand(x, Tail(c.keys), TRUE, k, FALSE)
          [] c.name = "SDIFF"       -> sunionDiffGenericCommand(x, c.keys, FALSE, k, TRUE)
          [] c.name = "SDIFFSTORE"  -> sunionDiffGenericCommand(x, Tail(c.keys), TRUE, k, TRUE)

HashProc(x, c) ==
    LET k == c.keys[1]
        f == c.vals[1]
    IN  CASE c.name = "HSET"         -> hsetCommand(x, k, f, c.vals[2])
          [] c.name = "HSETNX"       -> hsetnxCommand(x, k, f, c.vals[2])
          [] c.name = "HMSET"        -> hmsetCommand(x, k, c.vals)
          [] c.name = "HINCRBY"      -> hincrbyCommand(x, k, f, c.nums[1])
          [] c.name = "HINCRBYFLOAT" -> hincrbyfloatCommand(x, k, f, c.nums[1])
          [] c.name = "HGET"         -> hgetCommand(x, k, f)
          [] c.name = "HMGET"        -> hmgetCommand(x, k, c.vals)
          [] c.name = "HEXISTS"      -> hexistsCommand(x, k, f)
          [] c.name = "HLEN"         -> hlenCommand(x, k)
          [] c.name = "HGETALL"      -> genericHgetallCommand(x, k)
          [] c.name = "HDEL"         -> hdelCommand(x, k, c.vals)

ScoreRange(c) == [min |-> c.nums[1], minex |-> c.nums[2] = 1, max |-> c.nums[3], maxex |-> c.nums[4] = 1]
Entries(c) == [i \in 1 .. Len(c.vals) |-> Entry(c.vals[i], c.nums[i])]
Aggregates == <<"SUM", "MIN", "MAX">>

SortedSetProc(x, c) ==
    LET k == c.keys[1]
        n == c.nums[1]
        Aggregate == Aggregates[Last(c.nums)]
    IN  CASE c.name = "ZADD"    -> zaddGenericCommand(x, k, Entries(c), FALSE)
          [] c.name = "ZINCRBY" -> zaddGenericCommand(x, k, Entries(c), TRUE)
          [] c.name = "ZREM"    -> zremCommand(x, k, c.vals)
          [] c.name = "ZREMRANGEBYSCORE" -> zremrangebyscoreCommand(x, k, ScoreRange(c))
          [] c.name = "ZREMRANGEBYRANK"  -> zremrangebyrankCommand(x, k, n, c.nums[2])
          [] c.name = "ZUNIONSTORE" -> zunionInterGenericCommand(x, k, Tail(c.keys), c.nums, Aggregate, FALSE)
          [] c.name = "ZINTERSTORE" -> zunionInterGenericCommand(x, k, Tail(c.keys), c.nums, Aggregate, TRUE)
          [] c.name = "ZRANGE"    -> zrangeGenericCommand(x, k, n, c.nums[2], FALSE)
          [] c.name = "ZREVRANGE" -> zrangeGenericCommand(x, k, n, c.nums[2], TRUE)
          [] c.name = "ZRANGEBYSCORE"    -> genericZrangebyscoreCommand(x, k, ScoreRange(c), c.nums[5], c.nums[6], FALSE)
          [] c.name = "ZREVRANGEBYSCORE" -> genericZrangebyscoreCommand(x, k, ScoreRange(c), c.nums[5], c.nums[6], TRUE)
          [] c.name = "ZCOUNT"   -> zcountCommand(x, k, ScoreRange(c))
          [] c.name = "ZCARD"    -> zcardCommand(x, k)
          [] c.name = "ZSCORE"   -> zscoreCommand(x, k, c.vals[1])
          [] c.name = "ZRANK"    -> zrankGenericCommand(x, k, c.vals[1], FALSE)
          [] c.name = "ZREVRANK" -> zrankGenericCommand(x, k, c.vals[1], TRUE)

(* SORT key [dst] with by (0 element, 1 nosort, 2 weight), ALPHA, DESC,    *)
(* GET, and the LIMIT.  With a second key it stores.                       *)
SortProc(x, c) ==
    sortCommand(x, c.keys[1],
        [by |-> <<"element", "nosort", "weight">>[c.nums[1] + 1], alpha |-> c.nums[2] = 1,
         desc |-> c.nums[3] = 1, get |-> c.nums[4] = 1, start |-> c.nums[5], count |-> c.nums[6],
         store |-> Len(c.keys) = 2, dst |-> Last(c.keys)])

ListNames == {"LPUSH", "RPUSH", "LPUSHX", "RPUSHX", "LINSERT", "LLEN", "LINDEX", "LSET", "LPOP", "RPOP",
              "LRANGE", "LTRIM", "LREM", "RPOPLPUSH"}
SetNames == {"SADD", "SREM", "SMOVE", "SISMEMBER", "SCARD", "SPOP", "SRANDMEMBER", "SRANDMEMBER COUNT",
             "SINTER", "SINTERSTORE", "SUNION", "SUNIONSTORE", "SDIFF", "SDIFFSTORE"}
HashNames == {"HSET", "HSETNX", "HMSET", "HINCRBY", "HINCRBYFLOAT", "HGET", "HMGET", "HEXISTS", "HLEN",
              "HGETALL", "HDEL"}
ZsetNames == {"ZADD", "ZINCRBY", "ZREM", "ZREMRANGEBYSCORE", "ZREMRANGEBYRANK", "ZUNIONSTORE",
              "ZINTERSTORE", "ZRANGE", "ZREVRANGE", "ZRANGEBYSCORE", "ZREVRANGEBYSCORE", "ZCOUNT",
              "ZCARD", "ZSCORE", "ZRANK", "ZREVRANK"}
KeyNames == {"DEL", "EXISTS", "TYPE", "FLUSHDB", "FLUSHALL", "DBSIZE", "KEYS", "RANDOMKEY", "RENAME",
             "RENAMENX", "MOVE", "EXPIRE", "PEXPIREAT", "TTL", "PERSIST", "OBJECT", "RESTORE"}

lookupCommand(x, c) ==
    CASE c.name \in KeyNames  -> KeyProc(x, c)
      [] c.name \in ListNames -> ListProc(x, c)
      [] c.name \in SetNames  -> SetProc(x, c)
      [] c.name \in HashNames -> HashProc(x, c)
      [] c.name \in ZsetNames -> SortedSetProc(x, c)
      [] c.name = "SORT"      -> SortProc(x, c)
      [] OTHER                -> StringProc(x, c)

-----------------------------------------------------------------------------
(* Execution and propagation *)

KeySpaceOf(x) == [db |-> x.db, expire |-> x.expire]

(* A server in a role that is about to execute c.                          *)
Server(ks, role, time, c) ==
    [db |-> ks.db, expire |-> ks.expire, role |-> role, now |-> time,
     ulp |-> IF role = "master" THEN 0 ELSE 1, limits |-> Limits(role),
     argv |-> c, dirty |-> 0, touched |-> {}, dels |-> <<>>, reply |-> [kind |-> "none", vals |-> <<>>]]

(* The server after the commands cs; call executes one.                    *)
RECURSIVE Executed(_, _)
Executed(x, cs) == IF cs = <<>> THEN x ELSE Executed(lookupCommand(x, Head(cs)), Tail(cs))
call(ks, role, time, c) == Executed(Server(ks, role, time, c), <<c>>)

(* What call propagates: the command, when it has changed something, after *)
(* the DELs of the keys it found expired.                                  *)
Propagated(y) == IF y.dirty > 0 THEN Append(y.dels, y.argv) ELSE y.dels

(* A bug that writes the relative time to the file.                        *)
feedVerbatim(c, time) == <<c>>

(* feedAppendOnlyFile makes the times of EXPIRE and SETEX absolute, and    *)
(* writes every other command as it is.                                    *)
feedAppendOnlyFile(c, time) ==
    LET At == Command("PEXPIREAT", <<c.keys[1]>>, <<>>, <<time + c.nums[1]>>)
    IN  CASE c.name = "EXPIRE" -> <<At>>
          [] c.name = "SETEX"  -> <<Command("SET", c.keys, c.vals, <<>>), At>>
          [] OTHER             -> <<c>>

(* The key space that the file loads to, after more commands.              *)
Loaded(ks, cs) == KeySpaceOf(Executed(Server(ks, "loading", LoadTime, <<>>), cs))

propagate(cs) ==
    /\ aof' = Loaded(aof, FlattenSeq([i \in 1 .. Len(cs) |-> feedAppendOnlyFile(cs[i], now)]))
    /\ stream' = stream \o cs

(* The master is y now, and propagates what it has done.                   *)
MasterIs(y) == master' = KeySpaceOf(y) /\ propagate(Propagated(y))

(* freeMemoryIfNeeded: the servers it can leave.  A turn evicts one key of *)
(* each database that has a candidate.                                     *)
EvictionTurn(xs) ==
    UNION {IF UsedMemory(x) <= MaxMemory \/ Turns(x, Policy(family)) = {} THEN {x}
           ELSE {FoldLeft(EvictOne, x, SetToSeq(ks)) : ks \in Turns(x, Policy(family))} : x \in xs}
freeMemoryIfNeeded(x) ==
    IF Policy(family) = "unlimited" THEN {x}
    ELSE FoldLeft(LAMBDA xs, i : EvictionTurn(xs), {x}, [i \in 1 .. Cardinality(Key) |-> i])

(* The commands of the workloads with a limit that are flagged m.          *)
DenyOom == {"SET", "SETEX", "APPEND"}

Small(ks) ==
    \A k \in Key : /\ ks.db[k].type = "list" => Len(ks.db[k].val) <= MaxLen
                   /\ ks.db[k].type = "zset" =>
                        \A i \in 1 .. Len(ks.db[k].val) :
                           IsInf(ks.db[k].val[i].score) \/ ks.db[k].val[i].score \in -MaxScore .. MaxScore

Init ==
    LET empty == [db |-> [k \in Key |-> NotFound], expire |-> [k \in Key |-> NoExpire]]
    IN  /\ family \in Families
        /\ now = 0
        /\ master = empty /\ slave = empty /\ aof = empty /\ target = empty
        /\ stream = <<>>

CommandsNamed(names) == {c \in Commands(family) : c.name \in names}

(* processCommand and call on the master.  Commands that may use memory    *)
(* are refused while there is too little.                                  *)
Execute ==
    /\ Len(stream) < MaxLag
    /\ \E c \in Commands(family) \ CommandsNamed({"DUMP", "MIGRATE"}) :
          \E x \in freeMemoryIfNeeded(Server(master, "master", now, c)) :
             LET oom == /\ Policy(family) # "unlimited" /\ UsedMemory(x) > MaxMemory
                        /\ c.name \in DenyOom
             IN  MasterIs(IF oom THEN ErrorReply(x) ELSE Executed(x, <<c>>))
    /\ Small(master')
    /\ UNCHANGED <<family, now, slave, target>>

(* The cron of the master samples an expired key.                          *)
ActiveExpire ==
    /\ Len(stream) < MaxLag
    /\ \E k \in Key :
          LET x == Server(master, "master", now, <<>>)
          IN  IsExpired(x, k) /\ MasterIs(activeExpireCycle(x, k))
    /\ UNCHANGED <<family, now, slave, target>>

(* The slave executes the next command of its master.                      *)
SlaveExecutes ==
    /\ stream # <<>>
    /\ slave' = KeySpaceOf(call(slave, "slave", now, Head(stream)))
    /\ stream' = Tail(stream)
    /\ UNCHANGED <<family, now, master, aof, target>>

(* Time passes only for the workloads that look at it.                     *)
Tick ==
    /\ now < MaxNow
    /\ CommandsNamed({"EXPIRE", "SETEX"}) # {}
    /\ now' = now + 1
    /\ UNCHANGED <<family, master, slave, aof, stream, target>>

(* A client dumps a key and restores the payload, as it is or damaged,     *)
(* under another name.                                                     *)
RestoreOf(x, r) == MasterIs(Executed(Rewritten(x, r), <<r>>))
Restore ==
    /\ Len(stream) < MaxLag
    /\ \E c \in CommandsNamed({"DUMP"}), intact \in BOOLEAN :
          LET x == dumpCommand(Server(master, "master", now, c), c.keys[1])
          IN  /\ x.reply.kind = "bulk"
              /\ RestoreOf(x, Command("RESTORE", <<c.keys[2]>>,
                                      <<[x.reply.vals[1] EXCEPT !.intact = intact]>>, <<0>>))
    /\ UNCHANGED <<family, now, slave, target>>

(* MIGRATE sends the RESTORE and waits for its reply.  The connection can  *)
(* fail before the target has the command and before its reply is here.    *)
MigrateOutcome(t, replied) ==
    IF ~replied THEN "ioerr" ELSE IF t.reply.kind = "error" THEN "error" ELSE "ok"
MigrateTo(x, k, t, sent, replied) ==
    /\ target' = IF sent /\ dbExists(x, k) THEN KeySpaceOf(t) ELSE target
    /\ MasterIs(migrateCommand(x, k, MigrateOutcome(t, sent /\ replied)))
Migrate ==
    /\ Len(stream) < MaxLag
    /\ \E c \in CommandsNamed({"MIGRATE"}), sent, replied \in BOOLEAN :
          LET x == lookupKeyRead(Server(master, "master", now, c), c.keys[1])
          IN  MigrateTo(x, c.keys[1],
                        restoreCommand([Server(target, "master", now, c) EXCEPT !.limits = Limits("slave")],
                                       c.keys[1], MigrateTtl(x, c.keys[1]),
                                       createDumpPayload(x.db[c.keys[1]])),
                        sent, replied)
    /\ UNCHANGED <<family, now, slave>>

Next == Execute \/ ActiveExpire \/ SlaveExecutes \/ Tick \/ Restore \/ Migrate

Spec == Init /\ [][Next]_vars

-----------------------------------------------------------------------------
(* Properties *)

(* The value of an object whatever its encoding.                           *)
Content(o) == IF o.type = "string" THEN getDecodedObject(o) ELSE o.val
SameValue(o, p) == o.type = p.type /\ Content(o) = Content(p)
SameKeys(a, b) == \A k \in Key : SameValue(a.db[k], b.db[k])

(* Every object has a known type and encoding, and every expire belongs to *)
(* a key.                                                                  *)
TypeOK ==
    /\ family \in Families /\ now \in 0 .. MaxNow
    /\ \A s \in {master, slave, aof, target} : \A k \in Key :
          /\ <<s.db[k].type, s.db[k].enc>> \in
                {<<"none", "none">>, <<"string", "raw">>, <<"string", "int">>, <<"list", "ziplist">>,
                 <<"list", "linkedlist">>, <<"set", "intset">>, <<"set", "hashtable">>, <<"hash", "ziplist">>,
                 <<"hash", "hashtable">>, <<"zset", "ziplist">>, <<"zset", "skiplist">>}
          /\ s.expire[k] # NoExpire => s.db[k].type # "none"

(* A slave that has executed the whole stream holds what its master holds, *)
(* although the procedures it executed depend on its own clock, random     *)
(* numbers, arithmetic, table order and encodings.                         *)
ReplicaAgrees == stream = <<>> => SameKeys(slave, master)

(* A server that loads the append only file at any later time gets the     *)
(* keys of the master.                                                     *)
AofAgrees == SameKeys(aof, master)

(* Both copies of the keys follow the master (propagate, redis.c).         *)
CopiesAgree == ReplicaAgrees /\ AofAgrees

(* And the instants at which they expire.                                  *)
AofKeepsExpires == aof.expire = master.expire

(* A key that a command changes, other than by finding it expired, is      *)
(* signalled to the clients that watch it, and the change is propagated.   *)
(* MOVE is known not to signal its keys.                                   *)
Signalled(y, c) ==
    \A k \in Key :
       ~SameValue(y.db[k], master.db[k])
          => \/ IsExpired(Server(master, "master", now, c), k)
             \/ y.dirty > 0 /\ (k \in y.touched \/ c.name = "MOVE")
EveryChangeIsSignalled ==
    \A c \in Commands(family) \ CommandsNamed({"DUMP", "MIGRATE"}) : Signalled(call(master, "master", now, c), c)

(* A slave that loads the snapshot of the master, and a server that loads  *)
(* the rewritten append only file, have its keys and their expires, apart  *)
(* from the keys that have expired, which neither writes.                  *)
SameAlive(x, y) ==
    \A k \in Key : IF Expired(x, k) THEN ~dbExists(y, k)
                   ELSE SameValue(x.db[k], y.db[k]) /\ x.expire[k] = y.expire[k]
ExactSnapshots(x) ==
    /\ SameAlive(x, rdbLoad(Server(slave, "slave", now, <<>>), rdbSave(x)))
    /\ SameAlive(x, Executed(Emptied(Server(aof, "loading", LoadTime, <<>>)), rewriteAppendOnlyFile(x)))
SnapshotIsExact == stream = <<>> => ExactSnapshots(Server(master, "master", now, <<>>))

(* MIGRATE deletes a key only when the target has it, with its value and   *)
(* with an expire if it has one, whatever is lost on the way.              *)
MigrateKeepsTheKey ==
    [][Migrate => \A k \in Key :
          \/ ~dbExists(master, k) \/ dbExists(master', k) \/ Expired(Server(master, "master", now, <<>>), k)
          \/ /\ SameValue(target'.db[k], master.db[k])
             /\ (target'.expire[k] = NoExpire) <=> (master.expire[k] = NoExpire)]_vars

(* RANDOMKEY finds a key that has not expired, or none, on the slave too.  *)
(* The slave does not delete what it draws: the loop of dbRandomKey does   *)
(* not end when all of its keys have expired.                              *)
RandomKeyReturns == \A d \in {k.db : k \in Key} : RandomKeyEnds(Server(slave, "slave", now, <<>>), d)

(* What the procedures of a type assume of its objects: no empty           *)
(* aggregate, integers in range, sorted sets sorted without repetition,    *)
(* and compact encodings for small objects only.                           *)
Short(e, max) == Len(e) <= max \/ \A i \in 1 .. Len(Unsigned(e)) : Digit(Unsigned(e)[i])
WellFormed(o, l) ==
    CASE o.type = "string" -> o.enc = "int" => InRange(o.val[1])
      [] o.type = "list" ->
           /\ o.val # <<>>
           /\ o.enc = "ziplist" => /\ Len(o.val) <= l.list_max_ziplist_entries
                                   /\ \A i \in 1 .. Len(o.val) : Short(o.val[i], l.list_max_ziplist_value)
      [] o.type = "set" ->
           /\ o.val # {}
           /\ o.enc = "intset" => /\ Cardinality(o.val) <= l.set_max_intset_entries
                                  /\ \A e \in o.val : string2ll(e)
      [] o.type = "hash" ->
           /\ DOMAIN o.val # {}
           /\ o.enc = "ziplist" => /\ Cardinality(DOMAIN o.val) <= l.hash_max_ziplist_entries
                                   /\ \A f \in DOMAIN o.val : Short(o.val[f], l.hash_max_ziplist_value)
      [] o.type = "zset" ->
           /\ o.val # <<>>
           /\ \A i, j \in 1 .. Len(o.val) : i < j => After(o.val[j], o.val[i])
           /\ \A i \in 1 .. Len(o.val) : o.val[i].score # NaN
           /\ o.enc = "ziplist" => Len(o.val) <= l.zset_max_ziplist_entries
      [] OTHER -> TRUE

ObjectsWellFormed ==
    /\ TypeOK
    /\ \A k \in Key : /\ WellFormed(master.db[k], Limits("master"))
                      /\ WellFormed(slave.db[k], Limits("slave"))
                      /\ WellFormed(aof.db[k], Limits("loading"))

=============================================================================

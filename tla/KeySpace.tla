------------------------------ MODULE KeySpace ------------------------------
(***************************************************************************)
(* The key space of one server and the commands on keys of any type: db.c, *)
(* the string objects of object.c, and what call (redis.c) propagates.     *)
(*                                                                         *)
(* A server executes commands one at a time, so that a command is a        *)
(* function of the server.  A server is a record of                        *)
(*   db, expire     the key space: the object and the expire of each key,  *)
(*   role           "master", "slave" or "loading" (an AOF),               *)
(*   now            mstime() while the command is executed,                *)
(*   ulp            what its floating point unit adds to a result,         *)
(*   limits         its configuration of the compact encodings, and what   *)
(* the current command has done so far:                                    *)
(*   argv           the command, that the procedure may rewrite,           *)
(*   dirty          by how much it has increased server.dirty,             *)
(*   touched        the keys given to signalModifiedKey,                   *)
(*   dels           the DELs propagated for keys that expired,             *)
(*   reply          its reply.                                             *)
(*                                                                         *)
(* A key is the record of its database and its name.  A string is the      *)
(* sequence of its bytes.                                                  *)
(***************************************************************************)
EXTENDS Integers, Sequences, FiniteSets, SequencesExt, FiniteSetsExt

CONSTANTS
    Key,       \* records [db, name]
    LLONG_MAX, \* the largest long long, and the largest long
    MaxString  \* the 512 MB that checkStringLength grants a string

LLONG_MIN == -LLONG_MAX - 1
InRange(n) == n \in LLONG_MIN .. LLONG_MAX

(* Negating the least integer gives it back.                               *)
Negated(n) == IF n = LLONG_MIN THEN n ELSE -n

(* NotFound is what the lookups give for a key that is not there.          *)
NotFound == [type |-> "none", enc |-> "none", val |-> <<>>]
NoExpire == -1

Command(name, keys, vals, nums) ==
    [name |-> name, keys |-> keys, vals |-> vals, nums |-> nums]

-----------------------------------------------------------------------------
(* Strings that are numbers: util.c and object.c *)

Digit(b) == b \in 48 .. 57
Unsigned(s) == IF s # <<>> /\ Head(s) = 45 THEN Tail(s) ELSE s

(* The value of the digits, as string2ll and strtoll compute it.           *)
RECURSIVE Magnitude(_)
Magnitude(s) == IF s = <<>> THEN 0 ELSE 10 * Magnitude(Front(s)) + (Last(s) - 48)
Value(s) == IF s # <<>> /\ Head(s) = 45 THEN -Magnitude(Tail(s)) ELSE Magnitude(s)

(* string2ll wants the digits that ll2string writes, strtoll any digits,   *)
(* and both a number in range.                                             *)
string2ll(s) ==
    LET d == Unsigned(s)
    IN  /\ d # <<>> /\ \A i \in 1 .. Len(d) : Digit(d[i])
        /\ (Head(d) = 48 => s = <<48>>)
        /\ InRange(Value(s))

Parses(s) ==
    LET d == Unsigned(s)
    IN  d # <<>> /\ (\A i \in 1 .. Len(d) : Digit(d[i])) /\ InRange(Value(s))

RECURSIVE ll2string(_)
ll2string(n) ==
    IF n < 0 THEN <<45>> \o ll2string(-n)
    ELSE IF n < 10 THEN <<48 + n>> ELSE ll2string(n \div 10) \o <<48 + (n % 10)>>

(* Strings are compared byte by byte, a prefix before what it begins.      *)
RECURSIVE StringLess(_, _)
StringLess(s, t) ==
    IF s = <<>> \/ t = <<>> THEN t # <<>> /\ s = <<>>
    ELSE IF Head(s) = Head(t) THEN StringLess(Tail(s), Tail(t)) ELSE Head(s) < Head(t)

(* Objects: the string object of argument s as tryObjectEncoding leaves    *)
(* it.  getDecodedObject gives the bytes of either encoding.               *)
RawString(s) == [type |-> "string", enc |-> "raw", val |-> s]
tryObjectEncoding(s) ==
    IF string2ll(s) THEN [type |-> "string", enc |-> "int", val |-> <<Value(s)>>] ELSE RawString(s)
getDecodedObject(o) == IF o.enc = "int" THEN ll2string(o.val[1]) ELSE o.val

(* getLongLongFromObject: a missing object counts as zero.                 *)
getLongLongFromObject(o) == IF o.type = "none" THEN 0 ELSE Value(getDecodedObject(o))
HasLongLong(o) == o.type = "none" \/ o.enc = "int" \/ Parses(o.val)

(* The check of the code against overflow, which looks at both signs.      *)
Overflows(old, incr) ==
    \/ incr < 0 /\ old < 0 /\ incr < LLONG_MIN - old
    \/ incr > 0 /\ old > 0 /\ incr > LLONG_MAX - old

-----------------------------------------------------------------------------
(* The C level API of db.c *)

(* A reply is the kind of its protocol line and the values it carries; a   *)
(* set is sent in the order of its table, which SetToSeq stands for.       *)
Reply(x, kind, vals) == [x EXCEPT !.reply = [kind |-> kind, vals |-> vals]]
IntReply(x, n)   == Reply(x, "int", <<<<n>>>>)
BulkReply(x, s)  == Reply(x, "bulk", <<s>>)
MultiReply(x, q) == Reply(x, "multi", q)
NilReply(x)      == Reply(x, "nil", <<>>)
ErrorReply(x)    == Reply(x, "error", <<>>)

dbExists(x, k) == x.db[k].type # "none"
dbAdd(x, k, o) == [x EXCEPT !.db[k] = o]
dbOverwrite(x, k, o) == [x EXCEPT !.db[k] = o]

(* A bug that leaves the expire behind.                                    *)
dbDeleteValue(x, k) == [x EXCEPT !.db[k] = NotFound]
dbDelete(x, k) == [x EXCEPT !.db[k] = NotFound, !.expire[k] = NoExpire]
removeExpire(x, k) == [x EXCEPT !.expire[k] = NoExpire]
setExpire(x, k, when) == [x EXCEPT !.expire[k] = when]

(* A command that changed key k in n ways.                                 *)
signalModifiedKey(x, k) == [x EXCEPT !.touched = @ \cup {k}]
Changed(x, k, n) == [signalModifiedKey(x, k) EXCEPT !.dirty = @ + n]

(* rewriteClientCommandVector: the command is propagated in another form.  *)
Rewritten(x, argv) == [x EXCEPT !.argv = argv]

propagateExpire(x, k) ==
    [x EXCEPT !.dels = Append(@, Command("DEL", <<k>>, <<>>, <<>>))]

(* The server after expireIfNeeded.  A slave waits for the DEL of its      *)
(* master, and nothing expires while the AOF is loaded.                    *)
expireIfNeeded(x, k) ==
    IF x.expire[k] = NoExpire \/ x.role # "master" \/ x.now <= x.expire[k] THEN x
    ELSE dbDelete(propagateExpire(x, k), k)

(* What expireIfNeeded returns.                                            *)
IsExpired(x, k) ==
    x.expire[k] # NoExpire /\ x.role # "loading" /\ x.now > x.expire[k]

(* The lookups: the server afterwards; the object is that of its db.       *)
RECURSIVE lookupKeys(_, _)
lookupKeys(x, keys) ==
    IF keys = <<>> THEN x ELSE lookupKeys(expireIfNeeded(x, Head(keys)), Tail(keys))
lookupKeyRead(x, k)  == lookupKeys(x, <<k>>)
lookupKeyWrite(x, k) == lookupKeys(x, <<k>>)

setKey(x, k, o) == signalModifiedKey(removeExpire(dbOverwrite(lookupKeyWrite(x, k), k, o), k), k)

(* checkType: the key holds another type.                                  *)
checkType(x, k, type) == x.db[k].type \notin {"none", type}
WrongType(x) == Reply(x, "wrongtype", <<>>)

-----------------------------------------------------------------------------
(* Commands on keys of any type *)

delCommand(x, keys) ==
    LET Del(y, k) == IF dbExists(y, k) THEN Changed(dbDelete(y, k), k, 1) ELSE y
        y == FoldLeft(Del, x, keys)
    IN  IntReply(y, y.dirty)

existsCommand(x, k) ==
    LET y == expireIfNeeded(x, k) IN IntReply(y, IF dbExists(y, k) THEN 1 ELSE 0)

typeCommand(x, k) ==
    LET y == lookupKeyRead(x, k) IN Reply(y, y.db[k].type, <<>>)

(* FLUSHDB and FLUSHALL empty the keys of a database, or of all.  The      *)
(* watched keys are touched when they exist.                               *)
Flush(x, keys, extra) ==
    LET there == {k \in keys : dbExists(x, k)}
    IN  [x EXCEPT !.db = [k \in Key |-> IF k \in keys THEN NotFound ELSE @[k]],
                  !.expire = [k \in Key |-> IF k \in keys THEN NoExpire ELSE @[k]],
                  !.touched = @ \cup there,
                  !.dirty = @ + Cardinality(there) + extra]
flushdbCommand(x, d) == Flush(x, {k \in Key : k.db = d}, 0)
flushallCommand(x)   == Flush(x, Key, 1)

dbsizeCommand(x, d) == IntReply(x, Cardinality({k \in Key : k.db = d /\ dbExists(x, k)}))

(* KEYS * lists the keys of the database that expireIfNeeded leaves.       *)
keysCommand(x, d) ==
    LET keys == SetToSeq({k \in Key : k.db = d /\ dbExists(x, k)})
        y    == lookupKeys(x, keys)
    IN  MultiReply(y, SetToSeq({k.name : k \in {j \in ToSet(keys) : ~IsExpired(x, j)}}))

(* RANDOMKEY draws keys, and expires them, until one is alive.  k is the   *)
(* key it ends with, the ones before it are any of those that expired.     *)
RandomKeyEnds(x, d) ==
    \/ x.role = "master"
    \/ \A k \in Key : k.db = d => ~dbExists(x, k)
    \/ \E k \in Key : k.db = d /\ dbExists(x, k) /\ ~IsExpired(x, k)

randomkeyCommand(x, d, drawn) ==
    LET y == lookupKeys(x, SelectSeq(drawn, LAMBDA k : k.db = d))
    IN  IF \E k \in Key : k.db = d /\ dbExists(y, k) /\ ~IsExpired(y, k) THEN Reply(y, "key", <<>>)
        ELSE NilReply(lookupKeys(x, SetToSeq({k \in Key : k.db = d})))

renameGenericCommand(x, src, dst, nx) ==
    LET y == lookupKeyWrite(x, src)
        z == lookupKeyWrite(y, dst)
    IN  CASE src = dst -> ErrorReply(x)
          [] src # dst /\ ~dbExists(y, src) -> ErrorReply(y)
          [] src # dst /\ dbExists(y, src) /\ nx /\ dbExists(z, dst) -> IntReply(z, 0)
          [] OTHER ->
               LET moved == setExpire(dbAdd(dbDelete(z, dst), dst, y.db[src]), dst, y.expire[src])
               IN  Changed(signalModifiedKey(dbDelete(moved, src), src), dst, 1)

(* src and dst are the same name in two databases.                         *)
moveCommand(x, src, dst) ==
    LET y == lookupKeyWrite(x, src)
        z == lookupKeyWrite(y, dst)
    IN  IF ~dbExists(y, src) THEN IntReply(y, 0)
        ELSE IF dbExists(z, dst) THEN IntReply(z, 0)
        ELSE IntReply([dbDelete(dbAdd(z, dst, z.db[src]), src) EXCEPT !.dirty = @ + 1], 1)

(* EXPIRE and PEXPIRE count from now, EXPIREAT and PEXPIREAT from zero;    *)
(* the times of the model are in one unit.                                 *)
expireGenericCommand(x, k, when) ==
    LET y == lookupKeyRead(x, k)
    IN  IF ~dbExists(y, k) THEN IntReply(y, 0)
        ELSE IF when <= y.now /\ y.role = "master"
        THEN IntReply(Rewritten(Changed(dbDelete(y, k), k, 1), Command("DEL", <<k>>, <<>>, <<>>)), 1)
        ELSE IntReply(Changed(setExpire(y, k, when), k, 1), 1)

ttlGenericCommand(x, k) ==
    IntReply(x, IF x.expire[k] = NoExpire \/ x.expire[k] < x.now THEN -1 ELSE x.expire[k] - x.now)

(* The key is looked up in the dictionary itself.                          *)
persistCommand(x, k) ==
    IF ~dbExists(x, k) \/ x.expire[k] = NoExpire THEN IntReply(x, 0)
    ELSE IntReply([removeExpire(x, k) EXCEPT !.dirty = @ + 1], 1)

(* OBJECT ENCODING does not expire the key it looks up.                    *)
objectCommand(x, k) == Reply(x, x.db[k].enc, <<>>)

-----------------------------------------------------------------------------
(* Expiry by the cron, and eviction *)

(* One key that activeExpireCycle samples; slaves do not run it.           *)
activeExpireCycle(x, k) ==
    IF x.expire[k] # NoExpire /\ x.now > x.expire[k] THEN dbDelete(propagateExpire(x, k), k) ELSE x

(* The policies evict among all keys or among those with an expire.  Any   *)
(* of them can be the best of maxmemory_samples keys drawn with            *)
(* repetition.                                                             *)
EvictionPool(x, policy) ==
    CASE policy = "noeviction" -> {}
      [] policy = "allkeys" -> {k \in Key : dbExists(x, k)}
      [] policy = "volatile" -> {k \in Key : x.expire[k] # NoExpire}

(* The memory of the keys is their number.                                 *)
UsedMemory(x) == Cardinality({k \in Key : dbExists(x, k)})

(* One turn of the loop of freeMemoryIfNeeded over the databases evicts    *)
(* one key of each database that has a candidate.                          *)
EvictOne(x, k) == dbDelete(propagateExpire(x, k), k)

(* The sets of keys a turn can evict.                                      *)
Turns(x, policy) ==
    LET pool == EvictionPool(x, policy)
        dbs  == {k.db : k \in pool}
    IN  IF pool = {} THEN {}
        ELSE {{pick[d] : d \in dbs} : pick \in {f \in [dbs -> pool] : \A d \in dbs : f[d].db = d}}

=============================================================================

------------------------------ MODULE Snapshot ------------------------------
(***************************************************************************)
(* The key space as a sequence of records in an RDB file (rdb.c), as the   *)
(* commands of a rewritten append only file (aof.c), and one value of it   *)
(* as the payload of DUMP, RESTORE and MIGRATE (migrate.c).  The tables    *)
(* are written in their own order, which SetToSeq stands for.              *)
(***************************************************************************)
EXTENDS HashCommands, SortedSetCommands

CONSTANT ITEMS_PER_CMD  \* REDIS_AOF_REWRITE_ITEMS_PER_CMD

-----------------------------------------------------------------------------
(* Values *)

(* A string that is an integer is stored as one.  Compression, and the     *)
(* width of the integer, make no difference to the loader.                 *)
rdbSaveRawString(s) ==
    IF string2ll(s) THEN [enc |-> "int", val |-> <<Value(s)>>] ELSE [enc |-> "raw", val |-> s]
rdbGenericLoadStringObject(r) == IF r.enc = "int" THEN ll2string(r.val[1]) ELSE r.val

(* Scores: three lengths stand for the values that are no numbers.         *)
rdbSaveDoubleValue(s) ==
    CASE s = NaN -> <<253>> [] s = PosInf -> <<254>> [] s = NegInf -> <<255>>
      [] OTHER -> <<Len(ll2string(s))>> \o ll2string(s)
rdbLoadDoubleValue(d) ==
    CASE d[1] = 253 -> NaN [] d[1] = 254 -> PosInf [] d[1] = 255 -> NegInf
      [] OTHER -> Value(SubSeq(d, 2, d[1] + 1))

(* The compact encodings are copied as they are in memory, the others are  *)
(* written element by element.                                             *)
rdbSaveObjectType(o) == <<o.type, IF o.type = "string" THEN "raw" ELSE o.enc>>
Compact == {"ziplist", "intset"}

RdbStrings(q) == [i \in 1 .. Len(q) |-> rdbSaveRawString(q[i])]
rdbSaveObject(o) ==
    CASE o.type = "string" -> RdbStrings(<<getDecodedObject(o)>>)
      [] o.type # "string" /\ o.enc \in Compact -> o.val
      [] o.type = "list" /\ o.enc = "linkedlist" -> RdbStrings(o.val)
      [] o.type = "set"  /\ o.enc = "hashtable"  -> RdbStrings(SetToSeq(o.val))
      [] o.type = "hash" /\ o.enc = "hashtable"  ->
           LET fs == SetToSeq(DOMAIN o.val)
           IN  [i \in 1 .. Len(fs) |-> [field |-> rdbSaveRawString(fs[i]), value |-> rdbSaveRawString(o.val[fs[i]])]]
      [] o.type = "zset" /\ o.enc = "skiplist"   ->
           LET es == SetToSeq(Elements(o.val))
           IN  [i \in 1 .. Len(es) |-> [ele |-> rdbSaveRawString(es[i]),
                                        score |-> rdbSaveDoubleValue(ScoreOf(o.val, es[i]))]]

(* The encoding that the loader chooses: by the length and the elements of *)
(* what was written one by one, by the length only of what was copied.     *)
FitsList(l, q) == Len(q) <= l.list_max_ziplist_entries
                  /\ \A i \in 1 .. Len(q) : string2ll(q[i]) \/ Len(q[i]) <= l.list_max_ziplist_value
FitsSet(l, q) == Len(q) <= l.set_max_intset_entries /\ \A i \in 1 .. Len(q) : string2ll(q[i])
FitsZset(l, q) == Len(q) <= l.zset_max_ziplist_entries
                  /\ \A i \in 1 .. Len(q) : string2ll(q[i].ele) \/ Len(q[i].ele) <= l.zset_max_ziplist_value
FitsHash(l, h) == Cardinality(DOMAIN h) <= l.hash_max_ziplist_entries
                  /\ \A f \in DOMAIN h : Len(f) <= l.hash_max_ziplist_value /\ Len(h[f]) <= l.hash_max_ziplist_value

LoadStrings(r) == [i \in 1 .. Len(r) |-> rdbGenericLoadStringObject(r[i])]
LoadList(l, q) == ListObject(IF FitsList(l, q) THEN "ziplist" ELSE "linkedlist", q)
LoadSet(l, q)  == SetObject(IF FitsSet(l, q) THEN "intset" ELSE "hashtable", ToSet(q))
LoadZset(l, q) == ZsetObject(IF FitsZset(l, q) THEN "ziplist" ELSE "skiplist", q)
LoadHash(l, h) == HashObject(IF FitsHash(l, h) THEN "ziplist" ELSE "hashtable", h)

(* A sorted set was not written in order: each element is inserted.        *)
ZsetOf(r) ==
    FoldLeft(LAMBDA q, e : zslInsert(q, rdbGenericLoadStringObject(e.ele), rdbLoadDoubleValue(e.score)), <<>>, r)
HashOf(r) ==
    FoldLeft(LAMBDA h, p : (rdbGenericLoadStringObject(p.field) :> rdbGenericLoadStringObject(p.value)) @@ h, <<>>, r)

LoadCompact(l, type, v) ==
    CASE type = "list" -> ListObject(IF Len(v) > l.list_max_ziplist_entries THEN "linkedlist" ELSE "ziplist", v)
      [] type = "set"  -> SetObject(IF Cardinality(v) > l.set_max_intset_entries THEN "hashtable" ELSE "intset", v)
      [] type = "zset" -> ZsetObject(IF Len(v) > l.zset_max_ziplist_entries THEN "skiplist" ELSE "ziplist", v)
      [] type = "hash" ->
           HashObject(IF Cardinality(DOMAIN v) > l.hash_max_ziplist_entries THEN "hashtable" ELSE "ziplist", v)

rdbLoadObject(l, t, r) ==
    CASE t[2] \in Compact -> LoadCompact(l, t[1], r)
      [] t[1] = "string"  -> tryObjectEncoding(rdbGenericLoadStringObject(r[1]))
      [] t = <<"list", "linkedlist">> -> LoadList(l, LoadStrings(r))
      [] t = <<"set", "hashtable">>   -> LoadSet(l, LoadStrings(r))
      [] t = <<"zset", "skiplist">>   -> LoadZset(l, ZsetOf(r))
      [] t = <<"hash", "hashtable">>  -> LoadHash(l, HashOf(r))

-----------------------------------------------------------------------------
(* The RDB file of a server x, and the key space that a server y loads it  *)
(* to: a slave keeps the keys that have expired, for its master to delete. *)

Expired(x, k) == x.expire[k] # NoExpire /\ x.expire[k] < x.now

rdbSaveKeyValuePair(x, k) ==
    IF Expired(x, k) THEN <<>>
    ELSE <<[key |-> k, expire |-> x.expire[k],
            rdbtype |-> rdbSaveObjectType(x.db[k]), value |-> rdbSaveObject(x.db[k])]>>

Keys(x) == SetToSeq({k \in Key : dbExists(x, k)})
rdbSave(x) == FlattenSeq([i \in 1 .. Len(Keys(x)) |-> rdbSaveKeyValuePair(x, Keys(x)[i])])

Emptied(y) == [y EXCEPT !.db = [k \in Key |-> NotFound], !.expire = [k \in Key |-> NoExpire]]
rdbLoad(y, file) ==
    LET Load(z, r) == setExpire(dbAdd(z, r.key, rdbLoadObject(z.limits, r.rdbtype, r.value)), r.key, r.expire)
        Skips(r)   == y.role = "master" /\ r.expire # NoExpire /\ r.expire < y.now
    IN  FoldLeft(LAMBDA z, r : IF Skips(r) THEN z ELSE Load(z, r), Emptied(y), file)

-----------------------------------------------------------------------------
(* The commands of a rewritten append only file *)

(* A bug that loses the elements of the last command.                      *)
WholePieces(q, n) == [i \in 1 .. Len(q) \div n |-> SubSeq(q, (i - 1) * n + 1, i * n)]

(* A sequence in pieces of at most n.                                      *)
Pieces(q, n) ==
    LET Upto(i) == IF i * n > Len(q) THEN Len(q) ELSE i * n
    IN  [i \in 1 .. (Len(q) + n - 1) \div n |-> SubSeq(q, (i - 1) * n + 1, Upto(i))]
ItemsPerCmd(q) == Pieces(q, ITEMS_PER_CMD)

OnePerPiece(ps, Cmd(_)) == [i \in 1 .. Len(ps) |-> Cmd(ps[i])]

rewriteListObject(k, o) ==
    OnePerPiece(ItemsPerCmd(o.val), LAMBDA q : Command("RPUSH", <<k>>, q, <<>>))
rewriteSetObject(k, o) ==
    OnePerPiece(ItemsPerCmd(SetToSeq(o.val)), LAMBDA q : Command("SADD", <<k>>, q, <<>>))

(* In the order of the ziplist, or of the dictionary of the sorted set.    *)
rewriteSortedSetObject(k, o) ==
    LET es == IF o.enc = "ziplist" THEN o.val
              ELSE LET d == SetToSeq(Elements(o.val)) IN [i \in 1 .. Len(d) |-> Entry(d[i], ScoreOf(o.val, d[i]))]
        Zadd(q) == Command("ZADD", <<k>>, [i \in 1 .. Len(q) |-> q[i].ele], [i \in 1 .. Len(q) |-> q[i].score])
    IN  OnePerPiece(ItemsPerCmd(es), Zadd)

rewriteHashObject(k, o) ==
    LET Hmset(q) == Command("HMSET", <<k>>, FlattenSeq([i \in 1 .. Len(q) |-> <<q[i], o.val[q[i]]>>]), <<>>)
    IN  OnePerPiece(ItemsPerCmd(SetToSeq(DOMAIN o.val)), Hmset)

RewriteKey(x, k, o) ==
    (CASE o.type = "string" -> <<Command("SET", <<k>>, <<getDecodedObject(o)>>, <<>>)>>
       [] o.type = "list" -> rewriteListObject(k, o)
       [] o.type = "set"  -> rewriteSetObject(k, o)
       [] o.type = "zset" -> rewriteSortedSetObject(k, o)
       [] o.type = "hash" -> rewriteHashObject(k, o))
    \o (IF x.expire[k] = NoExpire THEN <<>> ELSE <<Command("PEXPIREAT", <<k>>, <<>>, <<x.expire[k]>>)>>)

rewriteAppendOnlyFile(x) ==
    FlattenSeq([i \in 1 .. Len(Keys(x)) |->
                   IF Expired(x, Keys(x)[i]) THEN <<>> ELSE RewriteKey(x, Keys(x)[i], x.db[Keys(x)[i]])])

-----------------------------------------------------------------------------
(* DUMP, RESTORE and MIGRATE.  A payload is intact or not: its version and *)
(* its checksum are verified together.                                     *)

createDumpPayload(o) == [rdbtype |-> rdbSaveObjectType(o), value |-> rdbSaveObject(o), intact |-> TRUE]
verifyDumpPayload(p) == p.intact

dumpCommand(x, k) ==
    LET y == lookupKeyRead(x, k)
    IN  IF dbExists(y, k) THEN BulkReply(y, createDumpPayload(y.db[k])) ELSE NilReply(y)

restoreCommand(x, k, ttl, p) ==
    LET y == lookupKeyWrite(x, k)
        z == dbAdd(y, k, rdbLoadObject(y.limits, p.rdbtype, p.value))
    IN  IF dbExists(y, k) \/ ttl < 0 \/ ~verifyDumpPayload(p) THEN ErrorReply(y)
        ELSE Reply(Changed(IF ttl = 0 THEN z ELSE setExpire(z, k, z.now + ttl), k, 1), "ok", <<>>)

(* What MIGRATE sends to the target.  A key that is about to expire gets   *)
(* at least a millisecond there.                                           *)
MigrateTtl(x, k) ==
    IF x.expire[k] = NoExpire THEN 0 ELSE IF x.expire[k] - x.now < 1 THEN 1 ELSE x.expire[k] - x.now

(* The source after MIGRATE.  outcome is "ok", "error" (the target refused *)
(* the RESTORE), or "ioerr": the connection, the write or the reply failed *)
(* or timed out, and the target may have executed the RESTORE or not.      *)
MigrateDone(y, k) ==
    Rewritten(Reply(Changed(dbDelete(y, k), k, 1), "ok", <<>>), Command("DEL", <<k>>, <<>>, <<>>))

(* A bug that takes a lost reply for a success.                            *)
migrateOptimistic(x, k, outcome) ==
    LET y == lookupKeyRead(x, k)
    IN  CASE ~dbExists(y, k) -> Reply(y, "nokey", <<>>)
          [] dbExists(y, k) /\ outcome # "error" -> MigrateDone(y, k)
          [] OTHER -> ErrorReply(y)

migrateCommand(x, k, outcome) ==
    LET y == lookupKeyRead(x, k)
    IN  CASE ~dbExists(y, k) -> Reply(y, "nokey", <<>>)
          [] dbExists(y, k) /\ outcome = "ok" -> MigrateDone(y, k)
          [] OTHER -> ErrorReply(y)

=============================================================================

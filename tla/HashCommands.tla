---------------------------- MODULE HashCommands ----------------------------
(* The commands on hashes, t_hash.c.  A hash is the function from its      *)
(* fields to their values, in a ziplist while it is small.                 *)
EXTENDS KeySpace

HashObject(enc, h) == [type |-> "hash", enc |-> enc, val |-> h]

(* The hash at the key, or the empty one that the writes create.           *)
HashAt(x, k) == IF dbExists(x, k) THEN x.db[k] ELSE HashObject("ziplist", <<>>)

(* Long arguments make it a hash table; so do too many fields, in          *)
(* hashTypeSet.  Nothing makes it a ziplist again.                         *)
hashTypeTryConversion(limits, o, args) ==
    IF \E i \in 1 .. Len(args) : Len(args[i]) > limits.hash_max_ziplist_value
    THEN HashObject("hashtable", o.val) ELSE o

hashTypeSet(limits, o, f, v) ==
    LET h == (f :> v) @@ o.val
    IN  HashObject(IF Cardinality(DOMAIN h) > limits.hash_max_ziplist_entries THEN "hashtable"
                                                                             ELSE o.enc, h)

hashTypeDelete(o, f) == HashObject(o.enc, [g \in DOMAIN o.val \ {f} |-> o.val[g]])
hashTypeExists(o, f) == f \in DOMAIN o.val
hashTypeGet(o, f) == IF hashTypeExists(o, f) THEN <<o.val[f]>> ELSE <<>>

hsetCommand(x, k, f, v) ==
    LET y == lookupKeyWrite(x, k)
        o == hashTypeTryConversion(y.limits, HashAt(y, k), <<f, v>>)
    IN  IF checkType(y, k, "hash") THEN WrongType(y)
        ELSE IntReply(Changed(dbOverwrite(y, k, hashTypeSet(y.limits, o, f, v)), k, 1),
                      IF hashTypeExists(o, f) THEN 0 ELSE 1)

(* The conversion comes before the test.                                   *)
hsetnxCommand(x, k, f, v) ==
    LET y == lookupKeyWrite(x, k)
        o == hashTypeTryConversion(y.limits, HashAt(y, k), <<f, v>>)
    IN  IF checkType(y, k, "hash") THEN WrongType(y)
        ELSE IF hashTypeExists(o, f) THEN IntReply(dbOverwrite(y, k, o), 0)
        ELSE IntReply(Changed(dbOverwrite(y, k, hashTypeSet(y.limits, o, f, v)), k, 1), 1)

(* args are fields and values in turn.                                     *)
hmsetCommand(x, k, args) ==
    LET y == lookupKeyWrite(x, k)
        o == hashTypeTryConversion(y.limits, HashAt(y, k), args)
        Add(h, i) == hashTypeSet(y.limits, h, args[2 * i - 1], args[2 * i])
    IN  IF Len(args) % 2 = 1 THEN ErrorReply(x)
        ELSE IF checkType(y, k, "hash") THEN WrongType(y)
        ELSE Reply(Changed(dbOverwrite(y, k, FoldLeft(Add, o, [i \in 1 .. Len(args) \div 2 |-> i])), k, 1),
                   "ok", <<>>)

(* The old value of HINCRBY and HINCRBYFLOAT.                              *)
OldNumber(o, f) == IF hashTypeExists(o, f) THEN RawString(o.val[f]) ELSE NotFound

(* The new value is set without hashTypeTryConversion.                     *)
hincrbyCommand(x, k, f, incr) ==
    LET y   == lookupKeyWrite(x, k)
        o   == HashAt(y, k)
        old == getLongLongFromObject(OldNumber(o, f))
        new == hashTypeSet(y.limits, o, f, ll2string(old + incr))
    IN  IF checkType(y, k, "hash") THEN WrongType(y)
        ELSE IF ~HasLongLong(OldNumber(o, f)) \/ Overflows(old, incr)
        THEN ErrorReply(dbOverwrite(y, k, o))
        ELSE IntReply(Changed(dbOverwrite(y, k, new), k, 1), old + incr)

hincrbyfloatCommand(x, k, f, incr) ==
    LET y   == lookupKeyWrite(x, k)
        o   == HashAt(y, k)
        v   == ll2string(getLongLongFromObject(OldNumber(o, f)) + incr + y.ulp)
    IN  IF checkType(y, k, "hash") THEN WrongType(y)
        ELSE IF ~HasLongLong(OldNumber(o, f)) THEN ErrorReply(dbOverwrite(y, k, o))
        ELSE Rewritten(BulkReply(Changed(dbOverwrite(y, k, hashTypeSet(y.limits, o, f, v)), k, 1), v),
                       Command("HSET", <<k>>, <<f, v>>, <<>>))

(* The reads: HGET, HMGET, HEXISTS, HLEN, and HGETALL with HKEYS and HVALS *)
hgetCommand(x, k, f) ==
    LET y == lookupKeyRead(x, k)
    IN  IF checkType(y, k, "hash") THEN WrongType(y)
        ELSE IF hashTypeGet(HashAt(y, k), f) = <<>> THEN NilReply(y)
        ELSE BulkReply(y, HashAt(y, k).val[f])

hmgetCommand(x, k, fs) ==
    LET y == lookupKeyRead(x, k)
        Get(f) == IF hashTypeExists(HashAt(y, k), f) THEN HashAt(y, k).val[f] ELSE <<-1>>
    IN  IF checkType(y, k, "hash") THEN WrongType(y)
        ELSE MultiReply(y, [i \in 1 .. Len(fs) |-> Get(fs[i])])

hexistsCommand(x, k, f) ==
    LET y == lookupKeyRead(x, k)
    IN  IF checkType(y, k, "hash") THEN WrongType(y)
        ELSE IntReply(y, IF hashTypeExists(HashAt(y, k), f) THEN 1 ELSE 0)

hlenCommand(x, k) ==
    LET y == lookupKeyRead(x, k)
    IN  IF checkType(y, k, "hash") THEN WrongType(y)
        ELSE IntReply(y, Cardinality(DOMAIN HashAt(y, k).val))

genericHgetallCommand(x, k) ==
    LET y == lookupKeyRead(x, k)
        h == HashAt(y, k).val
        fields == SetToSeq(DOMAIN h)
    IN  IF checkType(y, k, "hash") THEN WrongType(y)
        ELSE MultiReply(y, fields \o [i \in 1 .. Len(fields) |-> h[fields[i]]])

hdelCommand(x, k, fs) ==
    LET y    == lookupKeyWrite(x, k)
        gone == DOMAIN HashAt(y, k).val \cap ToSet(fs)
        o    == FoldLeft(hashTypeDelete, HashAt(y, k), SetToSeq(gone))
        z    == IF DOMAIN o.val = {} THEN dbDelete(y, k) ELSE dbOverwrite(y, k, o)
    IN  IF checkType(y, k, "hash") THEN WrongType(y)
        ELSE IF gone = {} THEN IntReply(y, 0)
        ELSE IntReply(Changed(z, k, Cardinality(gone)), Cardinality(gone))

=============================================================================

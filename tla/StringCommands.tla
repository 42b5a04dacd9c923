--------------------------- MODULE StringCommands ---------------------------
(* The commands on strings, t_string.c, and on their bits, bitops.c.       *)
EXTENDS KeySpace, Bitwise

(* The bytes of the string at the key, of none if it is missing.           *)
StringAt(x, k) == getDecodedObject(x.db[k])

(* ttl is the argument of EX, PX, SETEX or PSETEX, or NoTtl.               *)
NoTtl == -100

setGenericCommand(x, k, s, ttl, nx, xx) ==
    LET y    == IF nx \/ xx THEN lookupKeyWrite(x, k) ELSE x
        done == Reply(Changed(setKey(y, k, tryObjectEncoding(s)), k, 1), "ok", <<>>)
    IN  IF ttl # NoTtl /\ ttl <= 0 THEN ErrorReply(x)
        ELSE IF (nx /\ dbExists(y, k)) \/ (xx /\ ~dbExists(y, k)) THEN NilReply(y)
        ELSE IF ttl = NoTtl THEN done ELSE setExpire(done, k, x.now + ttl)

getGenericCommand(x, k) ==
    LET y == lookupKeyRead(x, k)
    IN  IF ~dbExists(y, k) THEN NilReply(y)
        ELSE IF checkType(y, k, "string") THEN WrongType(y) ELSE BulkReply(y, StringAt(y, k))

getsetCommand(x, k, s) ==
    LET y == getGenericCommand(x, k)
    IN  IF checkType(y, k, "string") THEN y
        ELSE Changed(setKey(y, k, tryObjectEncoding(s)), k, 1)

(* The string grown with zero bytes to n bytes, as sdsgrowzero does.       *)
sdsgrowzero(s, n) == s \o [i \in 1 .. (IF n > Len(s) THEN n - Len(s) ELSE 0) |-> 0]

setrangeCommand(x, k, offset, s) ==
    LET y   == lookupKeyWrite(x, k)
        old == sdsgrowzero(StringAt(y, k), offset + Len(s))
        new == [i \in 1 .. Len(old) |-> IF i \in offset + 1 .. offset + Len(s) THEN s[i - offset]
                                                                             ELSE old[i]]
    IN  IF offset < 0 THEN ErrorReply(x)
        ELSE IF checkType(y, k, "string") THEN WrongType(y)
        ELSE IF s = <<>> THEN IntReply(y, Len(StringAt(y, k)))
        ELSE IF offset + Len(s) > MaxString THEN ErrorReply(y)
        ELSE IntReply(Changed(dbOverwrite(y, k, RawString(new)), k, 1), Len(new))

(* The range start .. end of n positions from 0, negative ones counting    *)
(* from the end, as GETRANGE and BITCOUNT convert it.                      *)
FromStart(i, n) == IF i >= 0 THEN i ELSE IF n + i < 0 THEN 0 ELSE n + i
ByteRange(start, end, n) ==
    FromStart(start, n) + 1 .. (IF FromStart(end, n) >= n THEN n ELSE FromStart(end, n) + 1)

getrangeCommand(x, k, start, end) ==
    LET y == lookupKeyRead(x, k)
        s == StringAt(y, k)
        r == ByteRange(start, end, Len(s))
    IN  IF checkType(y, k, "string") THEN WrongType(y)
        ELSE BulkReply(y, IF r = {} THEN <<>> ELSE SubSeq(s, Min(r), Max(r)))

mgetCommand(x, keys) ==
    LET y == lookupKeys(x, keys)
    IN  MultiReply(y, [i \in 1 .. Len(keys) |->
                          IF y.db[keys[i]].type = "string" THEN StringAt(y, keys[i]) ELSE <<-1>>])

msetGenericCommand(x, keys, vals, nx) ==
    LET y == IF nx THEN lookupKeys(x, keys) ELSE x
        SetAt(z, i) == setKey(z, keys[i], tryObjectEncoding(vals[i]))
    IN  IF nx /\ \E k \in ToSet(keys) : dbExists(y, k) THEN IntReply(y, 0)
        ELSE [FoldLeft(SetAt, y, [i \in 1 .. Len(keys) |-> i]) EXCEPT !.dirty = @ + Len(keys)]

incrDecrCommand(x, k, incr) ==
    LET y   == lookupKeyWrite(x, k)
        old == getLongLongFromObject(y.db[k])
    IN  IF checkType(y, k, "string") THEN WrongType(y)
        ELSE IF ~HasLongLong(y.db[k]) \/ Overflows(old, incr) THEN ErrorReply(y)
        ELSE IntReply(Changed(dbOverwrite(y, k, tryObjectEncoding(ll2string(old + incr))), k, 1),
                      old + incr)

decrbyCommand(x, k, incr) == incrDecrCommand(x, k, Negated(incr))

(* A bug that propagates the increment.                                    *)
incrbyfloatVerbatim(x, k, incr) ==
    LET y   == lookupKeyWrite(x, k)
        new == ll2string(getLongLongFromObject(y.db[k]) + incr + y.ulp)
    IN  IF checkType(y, k, "string") THEN WrongType(y)
        ELSE IF ~HasLongLong(y.db[k]) THEN ErrorReply(y)
        ELSE BulkReply(Changed(dbOverwrite(y, k, RawString(new)), k, 1), new)

(* The arithmetic of the server is in long doubles, which differ from one  *)
(* build to another: ulp is its part.  The values of the model are whole.  *)
incrbyfloatCommand(x, k, incr) ==
    LET y   == lookupKeyWrite(x, k)
        new == ll2string(getLongLongFromObject(y.db[k]) + incr + y.ulp)
    IN  IF checkType(y, k, "string") THEN WrongType(y)
        ELSE IF ~HasLongLong(y.db[k]) THEN ErrorReply(y)
        ELSE Rewritten(BulkReply(Changed(dbOverwrite(y, k, RawString(new)), k, 1), new),
                       Command("SET", <<k>>, <<new>>, <<>>))

appendCommand(x, k, s) ==
    LET y   == lookupKeyWrite(x, k)
        new == StringAt(y, k) \o s
    IN  IF ~dbExists(y, k) THEN IntReply(Changed(dbAdd(y, k, tryObjectEncoding(s)), k, 1), Len(s))
        ELSE IF checkType(y, k, "string") THEN WrongType(y)
        ELSE IF Len(new) > MaxString THEN ErrorReply(y)
        ELSE IntReply(Changed(dbOverwrite(y, k, RawString(new)), k, 1), Len(new))

strlenCommand(x, k) ==
    LET y == lookupKeyRead(x, k)
    IN  IF checkType(y, k, "string") THEN WrongType(y) ELSE IntReply(y, Len(StringAt(y, k)))

-----------------------------------------------------------------------------
(* Bits.  Bit 0 is the most significant bit of the first byte.             *)

BitOf(byte, i) == (byte \div 2^(7 - i)) % 2

(* getBitOffsetFromArgument refuses offsets past the largest string.       *)
BadOffset(offset) == offset < 0 \/ offset \div 8 >= MaxString

setbitCommand(x, k, offset, on) ==
    LET y    == lookupKeyWrite(x, k)
        byte == offset \div 8 + 1
        s    == sdsgrowzero(StringAt(y, k), byte)
        was  == BitOf(s[byte], offset % 8)
        new  == [s EXCEPT ![byte] = @ + (on - was) * 2^(7 - (offset % 8))]
    IN  IF BadOffset(offset) \/ on \notin {0, 1} THEN ErrorReply(x)
        ELSE IF checkType(y, k, "string") THEN WrongType(y)
        ELSE IntReply(Changed(dbOverwrite(y, k, RawString(new)), k, 1), was)

getbitCommand(x, k, offset) ==
    LET y == lookupKeyRead(x, k)
        s == StringAt(y, k)
    IN  IF BadOffset(offset) THEN ErrorReply(x)
        ELSE IF checkType(y, k, "string") THEN WrongType(y)
        ELSE IntReply(y, IF offset \div 8 < Len(s) THEN BitOf(s[offset \div 8 + 1], offset % 8) ELSE 0)

ByteOp(op, a, b) ==
    CASE op = "AND" -> a & b
      [] op = "OR"  -> a | b
      [] op = "XOR" -> a ^^ b

(* The bytes of the operation; short strings count as padded with zeros.   *)
(* The path that handles 32 bytes at a time gives what the loop does.      *)
BitOp(op, strings) ==
    LET maxlen == Max({Len(strings[i]) : i \in 1 .. Len(strings)})
        Byte(i, j) == IF j <= Len(strings[i]) THEN strings[i][j] ELSE 0
    IN  [j \in 1 .. maxlen |->
            IF op = "NOT" THEN 255 - Byte(1, j)
            ELSE FoldLeft(LAMBDA a, i : ByteOp(op, a, Byte(i, j)), Byte(1, j),
                          [i \in 1 .. Len(strings) - 1 |-> i + 1])]

(* The keys are looked up one after the other until one has another type.  *)
bitopCommand(x, op, target, keys) ==
    LET bad == {i \in 1 .. Len(keys) : checkType(lookupKeys(x, SubSeq(keys, 1, i)), keys[i], "string")}
        y   == lookupKeys(x, IF bad = {} THEN keys ELSE SubSeq(keys, 1, Min(bad)))
        res == BitOp(op, [i \in 1 .. Len(keys) |-> StringAt(y, keys[i])])
    IN  IF op = "NOT" /\ Len(keys) # 1 THEN ErrorReply(x)
        ELSE IF bad # {} THEN WrongType(y)
        ELSE IF res # <<>> THEN IntReply(Changed(setKey(y, target, RawString(res)), target, 1), Len(res))
        ELSE IF dbExists(y, target) THEN IntReply(Changed(dbDelete(y, target), target, 1), 0)
        ELSE IntReply([y EXCEPT !.dirty = @ + 1], 0)

popcount(s) == FoldLeft(LAMBDA n, b : n + Cardinality({i \in 0 .. 7 : BitOf(b, i) = 1}), 0, s)

bitcountCommand(x, k, start, end) ==
    LET y == lookupKeyRead(x, k)
        s == StringAt(y, k)
        r == ByteRange(start, end, Len(s))
    IN  IF checkType(y, k, "string") THEN WrongType(y)
        ELSE IntReply(y, IF r = {} THEN 0 ELSE popcount(SubSeq(s, Min(r), Max(r))))

=============================================================================

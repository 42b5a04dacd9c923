---------------------------- MODULE ListCommands ----------------------------
(* The commands on lists that do not block, t_list.c.  A list is a ziplist *)
(* while it is short and its elements are, and a linked list from then on. *)
EXTENDS KeySpace

ListObject(enc, q) == [type |-> "list", enc |-> enc, val |-> q]
ListAt(x, k) == IF dbExists(x, k) THEN x.db[k] ELSE ListObject("ziplist", <<>>)
StoreList(x, k, o) == IF o.val = <<>> THEN dbDelete(x, k) ELSE dbOverwrite(x, k, o)

(* Integers are not measured.                                              *)
listTypeTryConversion(limits, o, e) ==
    IF ~string2ll(e) /\ Len(e) > limits.list_max_ziplist_value THEN ListObject("linkedlist", o.val) ELSE o

listTypePush(limits, o, e, head) ==
    LET c   == listTypeTryConversion(limits, o, e)
        enc == IF Len(c.val) >= limits.list_max_ziplist_entries THEN "linkedlist" ELSE c.enc
    IN  ListObject(enc, IF head THEN <<e>> \o c.val ELSE Append(c.val, e))

listTypePop(o, head) == ListObject(o.enc, IF head THEN Tail(o.val) ELSE Front(o.val))
Popped(o, head) == IF head THEN Head(o.val) ELSE Last(o.val)

(* The index of ziplistIndex and listIndex as a position, or 0.            *)
Position(q, i) ==
    LET p == IF i >= 0 THEN i + 1 ELSE Len(q) + i + 1
    IN  IF p \in 1 .. Len(q) THEN p ELSE 0

(* The positions that LRANGE returns and LTRIM keeps.                      *)
ListRange(q, start, end) ==
    LET s == IF start >= 0 THEN start ELSE IF Len(q) + start < 0 THEN 0 ELSE Len(q) + start
        e == IF end >= 0 THEN end ELSE Len(q) + end
    IN  IF s > e \/ s >= Len(q) THEN {} ELSE s + 1 .. (IF e >= Len(q) THEN Len(q) ELSE e + 1)

Slice(q, range) == IF range = {} THEN <<>> ELSE SubSeq(q, Min(range), Max(range))

-----------------------------------------------------------------------------

pushGenericCommand(x, k, es, head) ==
    LET y == lookupKeyWrite(x, k)
        o == FoldLeft(LAMBDA l, e : listTypePush(y.limits, l, e, head), ListAt(y, k), es)
    IN  IF checkType(y, k, "list") THEN WrongType(y)
        ELSE IntReply(Changed(dbOverwrite(y, k, o), k, Len(es)), Len(o.val))

(* LPUSHX and RPUSHX.                                                      *)
pushxGenericCommand(x, k, e, head) ==
    LET y == lookupKeyRead(x, k)
        o == listTypePush(y.limits, ListAt(y, k), e, head)
    IN  IF ~dbExists(y, k) THEN IntReply(y, 0)
        ELSE IF checkType(y, k, "list") THEN WrongType(y)
        ELSE IntReply(Changed(dbOverwrite(y, k, o), k, 1), Len(o.val))

(* LINSERT converts the list before it looks for the pivot.                *)
linsertCommand(x, k, pivot, e, before) ==
    LET y    == lookupKeyRead(x, k)
        o    == listTypeTryConversion(y.limits, ListAt(y, k), e)
        at   == {i \in 1 .. Len(o.val) : o.val[i] = pivot}
        new  == InsertAt(o.val, IF before THEN Min(at) ELSE Min(at) + 1, e)
        enc  == IF Len(new) > y.limits.list_max_ziplist_entries THEN "linkedlist" ELSE o.enc
    IN  IF ~dbExists(y, k) THEN IntReply(y, 0)
        ELSE IF checkType(y, k, "list") THEN WrongType(y)
        ELSE IF at = {} THEN IntReply(dbOverwrite(y, k, o), -1)
        ELSE IntReply(Changed(dbOverwrite(y, k, ListObject(enc, new)), k, 1), Len(new))

llenCommand(x, k) ==
    LET y == lookupKeyRead(x, k)
    IN  IF checkType(y, k, "list") THEN WrongType(y) ELSE IntReply(y, Len(ListAt(y, k).val))

lindexCommand(x, k, i) ==
    LET y == lookupKeyRead(x, k)
        q == ListAt(y, k).val
    IN  IF checkType(y, k, "list") THEN WrongType(y)
        ELSE IF Position(q, i) = 0 THEN NilReply(y) ELSE BulkReply(y, q[Position(q, i)])

lsetCommand(x, k, i, e) ==
    LET y == lookupKeyWrite(x, k)
        o == listTypeTryConversion(y.limits, ListAt(y, k), e)
        p == Position(o.val, i)
    IN  IF ~dbExists(y, k) THEN ErrorReply(y)
        ELSE IF checkType(y, k, "list") THEN WrongType(y)
        ELSE IF p = 0 THEN ErrorReply(dbOverwrite(y, k, o))
        ELSE Reply(Changed(dbOverwrite(y, k, ListObject(o.enc, [o.val EXCEPT ![p] = e])), k, 1), "ok", <<>>)

popGenericCommand(x, k, head) ==
    LET y == lookupKeyWrite(x, k)
        o == ListAt(y, k)
    IN  IF ~dbExists(y, k) THEN NilReply(y)
        ELSE IF checkType(y, k, "list") THEN WrongType(y)
        ELSE BulkReply(Changed(StoreList(y, k, listTypePop(o, head)), k, 1), Popped(o, head))

lrangeCommand(x, k, start, end) ==
    LET y == lookupKeyRead(x, k)
        q == ListAt(y, k).val
    IN  IF checkType(y, k, "list") THEN WrongType(y)
        ELSE MultiReply(y, Slice(q, ListRange(q, start, end)))

ltrimCommand(x, k, start, end) ==
    LET y == lookupKeyWrite(x, k)
        o == ListAt(y, k)
        z == StoreList(y, k, ListObject(o.enc, Slice(o.val, ListRange(o.val, start, end))))
    IN  IF ~dbExists(y, k) THEN Reply(y, "ok", <<>>)
        ELSE IF checkType(y, k, "list") THEN WrongType(y)
        ELSE Reply(Changed(z, k, 1), "ok", <<>>)

(* The positions LREM removes: all, or the first or last n of them.        *)
lremCommand(x, k, n, e) ==
    LET y    == lookupKeyWrite(x, k)
        o    == ListAt(y, k)
        all  == {i \in 1 .. Len(o.val) : o.val[i] = e}
        gone == {i \in all : \/ n = 0
                             \/ n > 0 /\ Cardinality({j \in all : j < i}) < n
                             \/ n < 0 /\ Cardinality({j \in all : j > i}) < -n}
        kept == SetToSortSeq(1 .. Len(o.val) \ gone, LAMBDA i, j : i < j)
        new  == [i \in 1 .. Len(kept) |-> o.val[kept[i]]]
    IN  IF ~dbExists(y, k) THEN IntReply(y, 0)
        ELSE IF checkType(y, k, "list") THEN WrongType(y)
        ELSE IF gone = {} THEN IntReply(y, 0)
        ELSE IntReply(Changed(StoreList(y, k, ListObject(o.enc, new)), k, Cardinality(gone)),
                      Cardinality(gone))

(* The source and the destination may be the same list.                    *)
rpoplpushCommand(x, src, dst) ==
    LET y == lookupKeyWrite(x, src)
        e == Popped(ListAt(y, src), FALSE)
        z == lookupKeyWrite(y, dst)
        p == dbOverwrite(z, src, listTypePop(z.db[src], FALSE))
        d == IF dst = src THEN p.db[src] ELSE ListAt(z, dst)
        w == dbOverwrite(p, dst, listTypePush(z.limits, d, e, TRUE))
    IN  IF ~dbExists(y, src) THEN NilReply(y)
        ELSE IF checkType(y, src, "list") THEN WrongType(y)
        ELSE IF checkType(z, dst, "list") THEN WrongType(z)
        ELSE BulkReply(Changed(signalModifiedKey(StoreList(w, src, w.db[src]), dst), src, 1), e)

=============================================================================

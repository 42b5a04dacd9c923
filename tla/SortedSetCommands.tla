-------------------------- MODULE SortedSetCommands -------------------------
(* The commands on sorted sets, t_zset.c, and SORT, sort.c.  A sorted set  *)
(* is the sequence of its elements and scores in the order of the ziplist  *)
(* or of the bottom level of the skiplist, both of which keep it sorted.   *)
EXTENDS SetCommands, ListCommands

(* Scores are doubles: whole numbers, the two infinities and NaN.          *)
PosInf == 1000
NegInf == -1000
NaN == 9999
IsInf(s) == s \in {PosInf, NegInf}
AddScore(a, b) ==
    IF a = NaN \/ b = NaN \/ (IsInf(a) /\ IsInf(b) /\ a # b) THEN NaN
    ELSE IF IsInf(a) THEN a ELSE IF IsInf(b) THEN b ELSE a + b
MulScore(w, s) ==
    IF (IsInf(w) /\ s = 0) \/ (IsInf(s) /\ w = 0) THEN NaN
    ELSE IF IsInf(w) \/ IsInf(s) THEN IF (w > 0) = (s > 0) THEN PosInf ELSE NegInf
    ELSE w * s

Entry(e, s) == [ele |-> e, score |-> s]
ZsetObject(enc, q) == [type |-> "zset", enc |-> enc, val |-> q]
ZsetAt(x, k) == IF dbExists(x, k) THEN x.db[k] ELSE ZsetObject("ziplist", <<>>)
StoreZset(x, k, o) == IF o.val = <<>> THEN dbDelete(x, k) ELSE dbOverwrite(x, k, o)

Elements(q) == {q[i].ele : i \in 1 .. Len(q)}
Rank(q, e)  == CHOOSE i \in 1 .. Len(q) : q[i].ele = e
ScoreOf(q, e) == q[Rank(q, e)].score

(* zzlInsert and zslInsert: before the first greater score, or the same    *)
(* score with a greater element.                                           *)
After(a, b) == b.score < a.score \/ (b.score = a.score /\ StringLess(b.ele, a.ele))

(* A bug that orders by the score only.                                    *)
InsertByScore(q, e, s) ==
    LET n    == Entry(e, s)
        more == {i \in 1 .. Len(q) : q[i].score >= s}
    IN  InsertAt(q, IF more = {} THEN Len(q) + 1 ELSE Min(more), n)

zslInsert(q, e, s) ==
    LET n    == Entry(e, s)
        more == {i \in 1 .. Len(q) : After(q[i], n)}
    IN  InsertAt(q, IF more = {} THEN Len(q) + 1 ELSE Min(more), n)

zslDelete(q, e) == RemoveAt(q, Rank(q, e))

zsetConvert(o, enc) == ZsetObject(enc, o.val)

(* zslParseRange: the bounds of a range of scores can be exclusive.        *)
zslValueGteMin(s, r) == IF r.minex THEN s > r.min ELSE s >= r.min
zslValueLteMax(s, r) == IF r.maxex THEN s < r.max ELSE s <= r.max
InScores(q, r) == {i \in 1 .. Len(q) : zslValueGteMin(q[i].score, r) /\ zslValueLteMax(q[i].score, r)}

-----------------------------------------------------------------------------

(* ZADD, and ZINCRBY with incr, of entries in turn.                        *)
ZsetAdd(limits, o, n, incr) ==
    LET old == IF n.ele \in Elements(o.val) THEN ScoreOf(o.val, n.ele) ELSE 0
        s   == IF incr THEN AddScore(n.score, old) ELSE n.score
        new == zslInsert(o.val, n.ele, n.score)
        big == \/ Len(new) > limits.zset_max_ziplist_entries
               \/ Len(n.ele) > limits.zset_max_ziplist_value
    IN  IF n.ele \notin Elements(o.val) THEN ZsetObject(IF big THEN "skiplist" ELSE o.enc, new)
        ELSE IF s = old \/ s = NaN THEN o
        ELSE ZsetObject(o.enc, zslInsert(zslDelete(o.val, n.ele), n.ele, s))

zaddGenericCommand(x, k, entries, incr) ==
    LET y     == lookupKeyWrite(x, k)
        big   == \/ y.limits.zset_max_ziplist_entries = 0
                 \/ y.limits.zset_max_ziplist_value < Len(entries[1].ele)
        old   == IF dbExists(y, k) THEN y.db[k] ELSE ZsetObject(IF big THEN "skiplist" ELSE "ziplist", <<>>)
        Upto(i) == FoldLeft(LAMBDA o, n : ZsetAdd(y.limits, o, n, incr), old, SubSeq(entries, 1, i))
        news  == Cardinality({i \in 1 .. Len(entries) : Upto(i).val # Upto(i - 1).val})
        nan   == incr /\ entries[1].ele \in Elements(old.val)
                      /\ AddScore(entries[1].score, ScoreOf(old.val, entries[1].ele)) = NaN
        done  == dbOverwrite(y, k, Upto(Len(entries)))
        added == Len(Upto(Len(entries)).val) - Len(old.val)
    IN  IF checkType(y, k, "zset") THEN WrongType(y)
        ELSE IF nan THEN ErrorReply(y)
        ELSE IntReply(IF news = 0 THEN done ELSE Changed(done, k, news),
                      IF incr THEN ScoreOf(done.db[k].val, entries[1].ele) ELSE added)

(* The removals share their end: the entries at some positions go.         *)
RemoveEntries(y, k, gone) ==
    LET o    == ZsetAt(y, k)
        kept == SetToSortSeq(1 .. Len(o.val) \ gone, LAMBDA i, j : i < j)
        new  == ZsetObject(o.enc, [i \in 1 .. Len(kept) |-> o.val[kept[i]]])
    IN  IF checkType(y, k, "zset") THEN WrongType(y)
        ELSE IF gone = {} THEN IntReply(y, 0)
        ELSE IntReply(Changed(StoreZset(y, k, new), k, Cardinality(gone)), Cardinality(gone))

zremCommand(x, k, es) ==
    LET y == lookupKeyWrite(x, k)
        q == ZsetAt(y, k).val
    IN  IF checkType(y, k, "zset") THEN WrongType(y)
        ELSE RemoveEntries(y, k, {i \in 1 .. Len(q) : q[i].ele \in ToSet(es)})

zremrangebyscoreCommand(x, k, r) ==
    LET y == lookupKeyWrite(x, k)
    IN  IF checkType(y, k, "zset") THEN WrongType(y)
        ELSE RemoveEntries(y, k, InScores(ZsetAt(y, k).val, r))

zremrangebyrankCommand(x, k, start, end) ==
    LET y == lookupKeyWrite(x, k)
    IN  IF checkType(y, k, "zset") THEN WrongType(y)
        ELSE RemoveEntries(y, k, ListRange(ZsetAt(y, k).val, start, end))

(* The sources of ZUNIONSTORE and ZINTERSTORE: sorted sets, or sets whose  *)
(* members have score 1 (zuiNext, zuiFind).                                *)
zuiLength(o) == IF o.type = "set" THEN Cardinality(o.val) ELSE Len(o.val)
zuiElements(o) == IF o.type = "set" THEN o.val ELSE Elements(o.val)   \* none if the key is missing
zuiFind(o, e) == IF o.type = "set" THEN 1 ELSE ScoreOf(o.val, e)

zunionInterAggregate(target, val, aggregate) ==
    CASE aggregate = "SUM" -> IF AddScore(target, val) = NaN THEN 0 ELSE AddScore(target, val)
      [] aggregate = "MIN" -> IF val # NaN /\ val < target THEN val ELSE target
      [] aggregate = "MAX" -> IF val # NaN /\ val > target THEN val ELSE target

(* The score of an element from the sources that hold it, in their order.  *)
zuiScore(src, e, aggregate) ==
    LET in == SelectSeq([i \in 1 .. Len(src) |-> i], LAMBDA i : e \in zuiElements(src[i].o))
        First(s) == IF s = NaN THEN 0 ELSE s
        Weighted(i) == MulScore(src[i].w, zuiFind(src[i].o, e))
    IN  FoldLeft(LAMBDA s, i : zunionInterAggregate(s, Weighted(i), aggregate),
                 First(Weighted(in[1])), Tail(in))

(* The result replaces the destination.                                    *)
zunionInterStore(y, dst, res) ==
    LET small == /\ Len(res) <= y.limits.zset_max_ziplist_entries
                 /\ \A e \in Elements(res) : string2ll(e) \/ Len(e) <= y.limits.zset_max_ziplist_value
        z     == IF dbExists(y, dst) THEN Changed(dbDelete(y, dst), dst, 1) ELSE y
        o     == ZsetObject(IF small THEN "ziplist" ELSE "skiplist", res)
    IN  IF res = <<>> THEN IntReply(z, 0) ELSE IntReply(Changed(dbAdd(z, dst, o), dst, 1), Len(res))

(* The sources are walked from the smallest to the largest.                *)
zunionInterGenericCommand(x, dst, keys, weights, aggregate, inter) ==
    LET seen  == lookupKeys(x, keys)
        stop  == [i \in 1 .. Len(keys) |-> seen.db[keys[i]].type \notin {"none", "set", "zset"}]
        y     == LookedUp(x, keys, stop)
        src   == SortSeq([i \in 1 .. Len(keys) |-> [o |-> y.db[keys[i]], w |-> weights[i]]],
                         LAMBDA a, b : zuiLength(a.o) < zuiLength(b.o))
        all   == UNION {zuiElements(src[i].o) : i \in 1 .. Len(src)}
        these == IF inter THEN {e \in all : \A i \in 1 .. Len(src) : e \in zuiElements(src[i].o)} ELSE all
        res   == FoldLeft(LAMBDA q, e : zslInsert(q, e, zuiScore(src, e, aggregate)), <<>>, SetToSeq(these))
    IN  IF \E i \in 1 .. Len(keys) : stop[i] THEN WrongType(y) ELSE zunionInterStore(y, dst, res)

(* The reads.  A reversed range counts from the end.                       *)
ZsetReply(y, q, withscores) ==
    MultiReply(y, [i \in 1 .. Len(q) |-> IF withscores THEN Append(q[i].ele, q[i].score) ELSE q[i].ele])

zrangeGenericCommand(x, k, start, end, reverse) ==
    LET y == lookupKeyRead(x, k)
        q == IF reverse THEN Reverse(ZsetAt(y, k).val) ELSE ZsetAt(y, k).val
    IN  IF checkType(y, k, "zset") THEN WrongType(y)
        ELSE ZsetReply(y, Slice(q, ListRange(q, start, end)), TRUE)

genericZrangebyscoreCommand(x, k, r, offset, limit, reverse) ==
    LET y  == lookupKeyRead(x, k)
        q  == ZsetAt(y, k).val
        in == Slice(q, InScores(q, r))
        d  == IF reverse THEN Reverse(in) ELSE in
        from == IF offset < 0 THEN Len(d) + 1 ELSE offset + 1
    IN  IF checkType(y, k, "zset") THEN WrongType(y)
        ELSE ZsetReply(y, SubSeq(d, from, IF limit < 0 \/ from + limit - 1 > Len(d) THEN Len(d)
                                          ELSE from + limit - 1), FALSE)

(* The skiplist counts by the ranks of the ends of the range.              *)
zcountCommand(x, k, r) ==
    LET y  == lookupKeyRead(x, k)
        q  == ZsetAt(y, k).val
        in == InScores(q, r)
        byRank == (Len(q) - (Min(in) - 1)) - (Len(q) - Max(in))
    IN  IF checkType(y, k, "zset") THEN WrongType(y)
        ELSE IntReply(y, IF in = {} THEN 0 ELSE IF ZsetAt(y, k).enc = "skiplist" THEN byRank
                         ELSE Cardinality(in))

zcardCommand(x, k) ==
    LET y == lookupKeyRead(x, k)
    IN  IF checkType(y, k, "zset") THEN WrongType(y) ELSE IntReply(y, Len(ZsetAt(y, k).val))

zscoreCommand(x, k, e) ==
    LET y == lookupKeyRead(x, k)
        q == ZsetAt(y, k).val
    IN  IF checkType(y, k, "zset") THEN WrongType(y)
        ELSE IF e \in Elements(q) THEN IntReply(y, ScoreOf(q, e)) ELSE NilReply(y)

zrankGenericCommand(x, k, e, reverse) ==
    LET y == lookupKeyRead(x, k)
        q == ZsetAt(y, k).val
    IN  IF checkType(y, k, "zset") THEN WrongType(y)
        ELSE IF e \notin Elements(q) THEN NilReply(y)
        ELSE IntReply(y, IF reverse THEN Len(q) - Rank(q, e) ELSE Rank(q, e) - 1)

-----------------------------------------------------------------------------
(* SORT.  Its options are a record: by is "element", "nosort" (a pattern   *)
(* without a star) or "weight" (the keys with prefix w), get whether the   *)
(* values of those keys are wanted.                                        *)

WeightKey(k, e) == [db |-> k.db, name |-> <<119>> \o e]

(* lookupKeyByPattern: the string at the key of the element, or none.      *)
lookupKeyByPattern(x, k, e) ==
    LET w == WeightKey(k, e)
    IN  IF w \in Key /\ x.db[w].type = "string" THEN x.db[w] ELSE NotFound

(* The elements in the order in which the structure is walked.  The order  *)
(* of a hash table differs from one server to another, the one of an       *)
(* intset and of a skiplist does not.                                      *)
SortVector(x, o) ==
    CASE o.type = "list" -> o.val
      [] o.type = "zset" -> [i \in 1 .. Len(o.val) |-> o.val[i].ele]
      [] o.type = "set" ->
           LET up == SetToSortSeq(o.val, StringLess)
           IN  IF o.enc = "intset" \/ x.role = "master" THEN up ELSE Reverse(up)

(* sortCompare.  Equal scores are ordered by the elements; equal strings   *)
(* of a pattern are not.                                                   *)
SortBefore(a, b, opts) ==
    IF ~opts.alpha THEN a.score < b.score \/ (a.score = b.score /\ StringLess(a.ele, b.ele))
    ELSE IF opts.by = "weight" THEN StringLess(a.str, b.str)
    ELSE StringLess(a.ele, b.ele)

(* What the vector holds of an element: the score or the string it is      *)
(* sorted by.  A weight that is missing sorts first, as does the empty     *)
(* string of the model.                                                    *)
SortItem(x, k, e, opts) ==
    LET by == IF opts.by = "weight" THEN lookupKeyByPattern(x, k, e) ELSE RawString(e)
        ok == HasLongLong(by)
    IN  [ele |-> e, bad |-> ~opts.alpha /\ ~ok,
         score |-> IF ~opts.alpha /\ ok THEN getLongLongFromObject(by) ELSE 0,
         str |-> IF by.type = "none" THEN <<>> ELSE getDecodedObject(by)]

(* A stable sort; qsort leaves the order of equal items open.              *)
SortItems(items, opts) ==
    LET Before(i, j) == \/ SortBefore(items[i], items[j], opts)
                        \/ ~SortBefore(items[j], items[i], opts) /\ i < j
        order == SetToSortSeq(1 .. Len(items), Before)
        up    == [i \in 1 .. Len(items) |-> items[order[i]].ele]
    IN  IF opts.desc THEN Reverse(up) ELSE up

(* The range of LIMIT, in positions from 1.                                *)
SortLimit(q, start, count) ==
    LET s == IF start < 0 THEN 0 ELSE start
        e == IF count < 0 THEN Len(q) - 1 ELSE s + count - 1
    IN  IF s >= Len(q) THEN <<>> ELSE SubSeq(q, s + 1, IF e >= Len(q) THEN Len(q) ELSE e + 1)

(* The reply, or what is stored at dst.                                    *)
SortOutput(y, opts, out) ==
    LET list == FoldLeft(LAMBDA l, e : listTypePush(y.limits, l, e, FALSE), ListObject("ziplist", <<>>), out)
    IN  IF ~opts.store THEN MultiReply(y, out)
        ELSE IF out # <<>>
        THEN IntReply([setKey(y, opts.dst, list) EXCEPT !.dirty = @ + Len(out)], Len(out))
        ELSE IntReply(IF dbExists(y, opts.dst) THEN Changed(dbDelete(y, opts.dst), opts.dst, 1) ELSE y, 0)

SortGet(y, k, opts, range) ==
    IF ~opts.get THEN range
    ELSE [i \in 1 .. Len(range) |-> getDecodedObject(lookupKeyByPattern(y, k, range[i]))]

(* The vector of the elements is loaded, sorted and cut.                   *)
SortLoaded(y, k, opts, vector, items) ==
    LET sorted == IF opts.by # "nosort" THEN SortItems(items, opts)
                  ELSE IF y.db[k].type = "zset" /\ opts.desc THEN Reverse(vector) ELSE vector
    IN  IF opts.by # "nosort" /\ \E i \in 1 .. Len(items) : items[i].bad THEN ErrorReply(y)
        ELSE SortOutput(y, opts, SortGet(y, k, opts, SortLimit(sorted, opts.start, opts.count)))

SortWeighed(y, k, opts, vector) ==
    SortLoaded(y, k, opts, vector, [i \in 1 .. Len(vector) |-> SortItem(y, k, vector[i], opts)])

(* The keys of the pattern are looked up; a sorted set is converted for    *)
(* good.                                                                   *)
SortVectorOf(x, k, opts, vector) ==
    LET needs == {WeightKey(k, vector[i]) : i \in 1 .. Len(vector)} \cap Key
        y     == IF x.db[k].type = "zset" THEN dbOverwrite(x, k, zsetConvert(x.db[k], "skiplist")) ELSE x
    IN  SortWeighed(IF opts.by = "weight" \/ opts.get THEN lookupKeys(y, SetToSeq(needs)) ELSE y,
                    k, opts, vector)

(* What is stored is sorted even if the pattern says not to, except for    *)
(* the elements of a sorted set.                                           *)
SortObject(x, k, opts, o) ==
    LET forced == opts.store /\ opts.by = "nosort" /\ o.type # "zset"
    IN  IF o.type \notin {"list", "set", "zset"} THEN WrongType(x)
        ELSE SortVectorOf(x, k, IF forced THEN [opts EXCEPT !.by = "element", !.alpha = TRUE] ELSE opts,
                          SortVector(x, o))

SortFound(x, k, opts) ==
    SortObject(x, k, opts, IF dbExists(x, k) THEN x.db[k] ELSE ListObject("ziplist", <<>>))

sortCommand(x, k, opts) == SortFound(lookupKeyRead(x, k), k, opts)

=============================================================================

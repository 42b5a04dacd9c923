------------------------------- MODULE ZipList ------------------------------
(***************************************************************************)
(* The ziplist, ziplist.c: one block of memory in which every entry holds  *)
(* the length of the entry before it, in one byte or in five.  An          *)
(* insertion or a deletion moves memory, rewrites the length that the next *)
(* entry holds and may so change the size of that entry, and so on through *)
(* the list.                                                               *)
(* Memory is a sequence of cells, one for a byte.  The first cell of a     *)
(* field tells what the field holds, the others are filled; the encoding   *)
(* and the data of an entry are one field, its body.                       *)
(***************************************************************************)
EXTENDS Integers, Sequences, FiniteSets, SequencesExt, FiniteSetsExt

CONSTANTS
    Value,          \* what is inserted: the encoding of an integer, or the length of a string
    ZIP_BIGLEN,     \* lengths from which the length of the entry before takes five bytes, 254
    LENGTH_MAX,     \* UINT16_MAX: the number of entries that the header can tell
    MaxEntries      \* entries in the list

VARIABLES
    ziplist,   \* memory, with the tail offset and the length of the header
    content    \* the values that the list should hold

zipVars == <<ziplist, content>>

HEADER_SIZE == 10
PREV_BIG == 5
Fill == [k |-> "fill", size |-> 0, v |-> 0]
ZIP_END == [k |-> "end", size |-> 0, v |-> 0]
Room(n) == [i \in 1 .. n |-> Fill]

-----------------------------------------------------------------------------
(* Memory.  An address counts from 0; what lies outside of the block, and  *)
(* a byte that is not the first of its field, decodes to anything.         *)
At(c, p) == IF p + 1 \in DOMAIN c THEN c[p + 1] ELSE Fill
IsEnd(c, p) == p + 1 \notin DOMAIN c \/ c[p + 1] = ZIP_END
Write(c, p, field) == [i \in DOMAIN c |-> IF i - p \in DOMAIN field THEN field[i - p] ELSE c[i]]
memmove(c, to, from, n) == [i \in DOMAIN c |-> IF i - 1 \in to .. to + n - 1 THEN At(c, i - 1 - to + from) ELSE c[i]]
ziplistResize(c, n) ==
    [i \in 1 .. n |-> IF i = n THEN ZIP_END ELSE IF i \in DOMAIN c THEN c[i] ELSE Fill]

(* Sizes of integers and strings, without and with the byte or bytes that  *)
(* tell the encoding and the length.                                       *)
zipIntSize(enc) == CASE enc = "imm" -> 0 [] enc = "8B" -> 1 [] enc = "16B" -> 2 [] enc = "24B" -> 3
                     [] enc = "32B" -> 4 [] enc = "64B" -> 8
zipEncodeLength(v) == IF v.type = "int" \/ v.len <= 63 THEN 1 ELSE IF v.len <= 16383 THEN 2 ELSE 5
BodySize(v) == zipEncodeLength(v) + (IF v.type = "int" THEN zipIntSize(v.enc) ELSE v.len)

zipPrevEncodeLength(len) == IF len < ZIP_BIGLEN THEN 1 ELSE PREV_BIG
Prev(len, size) == <<[k |-> "prev", size |-> size, v |-> len]>> \o Room(size - 1)
PrevField(len) == Prev(len, zipPrevEncodeLength(len))
Body(v) == <<[k |-> "body", size |-> BodySize(v), v |-> v]>> \o Room(BodySize(v) - 1)

(* zipEntry, zipRawEntryLength: the entry at p.                            *)
PrevSize(c, p) == IF At(c, p).k = "prev" THEN At(c, p).size ELSE 1
PrevLen(c, p) == At(c, p).v
RawLen(c, p) == PrevSize(c, p) + (LET b == At(c, p + PrevSize(c, p)) IN IF b.k = "body" THEN b.size ELSE 1)
zipPrevLenByteDiff(c, p, len) == zipPrevEncodeLength(len) - PrevSize(c, p)

-----------------------------------------------------------------------------
(* The entry at p has a new size: the length that the next one holds is    *)
(* corrected.  It grows where it must and never shrinks, and once it       *)
(* does not grow the rest of the list stays as it is.                      *)
RECURSIVE CascadeUpdate(_, _)
CascadeUpdate(z, p) ==
    LET raw  == RawLen(z.cells, p)
        np   == p + raw
        size == zipPrevEncodeLength(raw)
        has  == PrevSize(z.cells, np)
        cur  == Len(z.cells)
    IN  CASE IsEnd(z.cells, p) \/ IsEnd(z.cells, np) \/ PrevLen(z.cells, np) = raw -> z
          [] size <= has -> [z EXCEPT !.cells = Write(@, np, Prev(raw, has))]
          [] OTHER ->
               CascadeUpdate(
                  [z EXCEPT !.cells = Write(memmove(ziplistResize(@, cur + size - has), np + size, np + has, cur - np - has - 1),
                                            np, PrevField(raw)),
                            !.tail = IF @ # np THEN @ + size - has ELSE @],
                  np)

(* A bug that moves the tail offset although the tail itself changed size. *)
TailAlwaysMoves(c, p, diff) == diff

(* How the tail offset moves when the entry at p changes its size: not at  *)
(* all if that entry is the tail.                                          *)
TailMoves(c, p, diff) == IF IsEnd(c, p + RawLen(c, p)) THEN 0 ELSE diff

IncrLength(len, n) == IF len < LENGTH_MAX THEN len + n ELSE len

(* p is the address of an entry or of the end.                             *)
ziplistInsert(z, p, v) ==
    LET cur     == Len(z.cells)
        prevlen == IF ~IsEnd(z.cells, p) THEN PrevLen(z.cells, p)
                   ELSE IF IsEnd(z.cells, z.tail) THEN 0 ELSE RawLen(z.cells, z.tail)
        req     == BodySize(v) + zipPrevEncodeLength(prevlen)
        diff    == IF IsEnd(z.cells, p) THEN 0 ELSE zipPrevLenByteDiff(z.cells, p, req)
        room    == ziplistResize(z.cells, cur + req + diff)
        moved   == Write(memmove(room, p + req, p - diff, cur - p - 1 + diff), p + req, PrevField(req))
        tail    == z.tail + req + TailMoves(moved, p + req, diff)
        done    == IF IsEnd(room, p) THEN [z EXCEPT !.cells = room, !.tail = p]
                   ELSE [z EXCEPT !.cells = moved, !.tail = tail]
        updated == IF diff = 0 THEN done ELSE CascadeUpdate(done, p + req)
    IN  [updated EXCEPT !.cells = Write(@, p, PrevField(prevlen) \o Body(v)), !.len = IncrLength(@, 1)]

(* The address after num entries, or the end of the list.                  *)
RECURSIVE After(_, _, _)
After(c, p, num) == IF num = 0 \/ IsEnd(c, p) THEN p ELSE After(c, p + RawLen(c, p), num - 1)
Count(c, p, q) == Cardinality({i \in p .. q - 1 : At(c, i).k = "prev"})

(* num entries from first on go; the next entry takes over the length that *)
(* the first one held.                                                     *)
ziplistDelete(z, first, num) ==
    LET p     == After(z.cells, first, num)
        gone  == Count(z.cells, first, p)
        prev  == PrevLen(z.cells, first)
        diff  == IF IsEnd(z.cells, p) THEN 0 ELSE zipPrevLenByteDiff(z.cells, p, prev)
        wrote == Write(z.cells, p - diff, PrevField(prev))
        cells == ziplistResize(memmove(wrote, first, p - diff, Len(wrote) - (p - diff) - 1), Len(z.cells) - (p - first) + diff)
        tail  == z.tail - (p - first) + TailMoves(wrote, p - diff, diff)
        done  == IF IsEnd(z.cells, p)
                 THEN [cells |-> ziplistResize(z.cells, first + 1), tail |-> first - prev, len |-> IncrLength(z.len, -gone)]
                 ELSE [cells |-> cells, tail |-> tail, len |-> IncrLength(z.len, -gone)]
    IN  IF p = first THEN z ELSE IF diff = 0 THEN done ELSE CascadeUpdate(done, first)

-----------------------------------------------------------------------------
(* ziplistIndex: from the head, or from the tail by the lengths that the   *)
(* entries hold.                                                           *)
Head0 == HEADER_SIZE
RECURSIVE Forward(_, _), Backward(_, _)
Forward(c, p) == IF IsEnd(c, p) THEN <<>> ELSE <<p>> \o Forward(c, p + RawLen(c, p))
Backward(c, p) == IF IsEnd(c, p) THEN <<>>
                  ELSE (IF PrevLen(c, p) > 0 /\ p - PrevLen(c, p) >= Head0 THEN Backward(c, p - PrevLen(c, p)) ELSE <<>>) \o <<p>>

(* A list that the header cannot tell the length of is counted.            *)
ziplistLen(z) == IF z.len < LENGTH_MAX THEN z.len ELSE Len(Forward(z.cells, Head0))

(* ziplistGet: the entry at p holds v.                                     *)
HoldsValue(c, p, v) == LET b == At(c, p + PrevSize(c, p)) IN b.k = "body" /\ b.v = v

ZipInsert(i, v) ==
    /\ Len(content) < MaxEntries /\ i <= Len(content) + 1
    /\ ziplist' = ziplistInsert(ziplist, After(ziplist.cells, Head0, i - 1), v)
    /\ content' = SubSeq(content, 1, i - 1) \o <<v>> \o SubSeq(content, i, Len(content))

ZipDeleteRange(i, num) ==
    /\ i <= Len(content)
    /\ ziplist' = ziplistDelete(ziplist, After(ziplist.cells, Head0, i - 1), num)
    /\ content' = SubSeq(content, 1, i - 1) \o SubSeq(content, i + num, Len(content))

ZipLength ==
    /\ ziplist.len = LENGTH_MAX /\ ziplistLen(ziplist) < LENGTH_MAX
    /\ ziplist' = [ziplist EXCEPT !.len = ziplistLen(ziplist)]
    /\ UNCHANGED content

ZipInit ==
    /\ ziplist = [cells |-> Room(HEADER_SIZE) \o <<ZIP_END>>, tail |-> HEADER_SIZE, len |-> 0]
    /\ content = <<>>

ZipNext ==
    \/ \E i \in 1 .. MaxEntries, v \in Value : ZipInsert(i, v)
    \/ \E i, num \in 1 .. MaxEntries : ZipDeleteRange(i, num)
    \/ ZipLength

-----------------------------------------------------------------------------
(* Whatever is inserted and deleted in any order, the block can be walked  *)
(* from the head and from the tail, both walks meet the same entries with  *)
(* the values that were put in, the last one ends where the block ends,    *)
(* and the length is exact, although the header tells it only up to a      *)
(* limit.                                                                  *)
ZiplistIsWalkable ==
    LET c     == ziplist.cells
        there == Forward(c, Head0)
    IN  /\ there = Backward(c, ziplist.tail)
        /\ Len(there) = Len(content) /\ \A i \in 1 .. Len(there) : HoldsValue(c, there[i], content[i])
        /\ After(c, Head0, Len(content)) = Len(c) - 1
        /\ ziplistLen(ziplist) = Len(content)
=============================================================================

------------------------------- MODULE ZipMap -------------------------------
(***************************************************************************)
(* The zipmap, zipmap.c, which hashes of older dump files are: keys and    *)
(* values in one block of memory, each after its length.  A value that is  *)
(* replaced by a shorter one leaves a few free bytes behind it; more of    *)
(* them are given back by moving the rest of the block.                    *)
(* Memory is a sequence of cells, one for a byte: the first cell of a      *)
(* field tells what the field holds.  Keys and values are their lengths.   *)
(***************************************************************************)
EXTENDS Integers, Sequences, FiniteSets, SequencesExt

CONSTANTS
    MapKeys, MapValues,    \* lengths of keys and of values
    ZIPMAP_BIGLEN          \* 254: lengths and numbers of entries from which one byte does not do

ZIPMAP_VALUE_MAX_FREE == 4

VARIABLES
    zipmap,    \* the block: its first byte and the rest
    mapped     \* the value of each key

zipmapVars == <<zipmap, mapped>>

Filler == [k |-> "fill", v |-> 0]
MAP_END == [k |-> "end", v |-> 0]
Block(k, n) == [i \in 1 .. n |-> IF i = 1 THEN [k |-> k, v |-> n] ELSE Filler]

(* The first byte is not part of the cells: address 1 is the first cell.   *)
Cell(c, p) == IF p \in DOMAIN c THEN c[p] ELSE Filler
IsMapEnd(c, p) == p \notin DOMAIN c \/ c[p] = MAP_END
Put(c, p, field) == [i \in DOMAIN c |-> IF i - p + 1 \in DOMAIN field THEN field[i - p + 1] ELSE c[i]]
MoveCells(c, to, from, n) == [i \in DOMAIN c |-> IF i \in to .. to + n - 1 THEN Cell(c, i - to + from) ELSE c[i]]
zipmapResize(c, n) == [i \in 1 .. n |-> IF i = n THEN MAP_END ELSE Cell(c, i)]

zipmapEncodeLength(len) == IF len < ZIPMAP_BIGLEN THEN 1 ELSE 5
LengthField(len) == <<[k |-> "len", v |-> len]>> \o [i \in 1 .. zipmapEncodeLength(len) - 1 |-> Filler]
zipmapRequiredLength(klen, vlen) ==
    klen + vlen + 3 + (IF klen >= ZIPMAP_BIGLEN THEN 4 ELSE 0) + (IF vlen >= ZIPMAP_BIGLEN THEN 4 ELSE 0)

zipmapRawKeyLength(c, p) == zipmapEncodeLength(Cell(c, p).v) + Cell(c, p).v
FreeAt(c, p) == Cell(c, p + zipmapEncodeLength(Cell(c, p).v)).v
zipmapRawValueLength(c, p) == zipmapEncodeLength(Cell(c, p).v) + 1 + Cell(c, p).v + FreeAt(c, p)
zipmapRawEntryLength(c, p) ==
    zipmapRawKeyLength(c, p) + zipmapRawValueLength(c, p + zipmapRawKeyLength(c, p))

(* zipmapNext: the addresses of the entries.                               *)
RECURSIVE MapEntries(_, _)
MapEntries(c, p) == IF IsMapEnd(c, p) THEN <<>> ELSE <<p>> \o MapEntries(c, p + zipmapRawEntryLength(c, p))

KeyAt(c, p) == Cell(c, p).v
MapValueAt(c, p) == Cell(c, p + zipmapRawKeyLength(c, p)).v
NotThere == 0
zipmapLookupRaw(c, key) ==
    LET hits == {p \in ToSet(MapEntries(c, 1)) : KeyAt(c, p) = key}
    IN  IF hits = {} THEN NotThere ELSE CHOOSE p \in hits : \A q \in hits : p <= q

-----------------------------------------------------------------------------
(* A bug that gives back bytes and still counts them as free.              *)
FreeAsBefore(empty) == empty

(* The free bytes that are kept.                                           *)
FreeBytes(empty) == IF empty >= ZIPMAP_VALUE_MAX_FREE THEN 0 ELSE empty

WriteEntry(c, p, key, val, free) ==
    Put(c, p, LengthField(key) \o Block("key", key) \o LengthField(val) \o <<[k |-> "free", v |-> free]>> \o Block("val", val))

(* An entry at p that takes has bytes and should take req; without enough  *)
(* room the rest moves back, with too much of it it moves to the front.    *)
FitEntry(c, p, has, req) ==
    LET tail == Len(c) - (p - 1 + has + 1)
    IN  CASE has < req -> MoveCells(zipmapResize(c, Len(c) - has + req), p + req, p + has, tail)
          [] has - req >= ZIPMAP_VALUE_MAX_FREE -> zipmapResize(MoveCells(c, p + req, p + has, tail), Len(c) - (has - req))
          [] OTHER -> c

zipmapSet(z, key, val) ==
    LET p   == zipmapLookupRaw(z.cells, key)
        req == zipmapRequiredLength(key, val)
        has == zipmapRawEntryLength(z.cells, p)
    IN  IF p = NotThere
        THEN [cells |-> WriteEntry(zipmapResize(z.cells, Len(z.cells) + req), Len(z.cells), key, val, 0),
              count |-> IF z.count < ZIPMAP_BIGLEN THEN z.count + 1 ELSE z.count]
        ELSE [z EXCEPT !.cells = WriteEntry(FitEntry(@, p, has, req), p, key, val,
                                            IF has < req THEN 0 ELSE FreeBytes(has - req))]

zipmapDel(z, key) ==
    LET p   == zipmapLookupRaw(z.cells, key)
        has == zipmapRawEntryLength(z.cells, p)
    IN  IF p = NotThere THEN z
        ELSE [cells |-> zipmapResize(MoveCells(z.cells, p, p + has, Len(z.cells) - (p - 1 + has + 1)), Len(z.cells) - has),
              count |-> IF z.count < ZIPMAP_BIGLEN THEN z.count - 1 ELSE z.count]

zipmapLen(z) == IF z.count < ZIPMAP_BIGLEN THEN z.count ELSE Len(MapEntries(z.cells, 1))

-----------------------------------------------------------------------------
MapSet(key, val) ==
    /\ zipmap' = zipmapSet(zipmap, key, val)
    /\ mapped' = [x \in DOMAIN mapped \cup {key} |-> IF x = key THEN val ELSE mapped[x]]

MapDel(key) ==
    /\ zipmap' = zipmapDel(zipmap, key)
    /\ mapped' = [x \in DOMAIN mapped \ {key} |-> mapped[x]]

(* zipmapLen stores the length again when it counted a small one.          *)
MapLen ==
    /\ zipmap.count = ZIPMAP_BIGLEN /\ zipmapLen(zipmap) < ZIPMAP_BIGLEN
    /\ zipmap' = [zipmap EXCEPT !.count = zipmapLen(zipmap)]
    /\ UNCHANGED mapped

MapInit == zipmap = [cells |-> <<MAP_END>>, count |-> 0] /\ mapped = <<>>
MapNext == MapLen \/ \E key \in MapKeys : MapDel(key) \/ \E val \in MapValues : MapSet(key, val)

(* The block holds each key once, with its value, and ends where its last  *)
(* entry ends; free bytes stay below their limit; the number of entries is *)
(* exact, although the first byte tells it only up to a limit.             *)
ZipmapIsTheMap ==
    LET c  == zipmap.cells
        ps == MapEntries(c, 1)
    IN  /\ {<<KeyAt(c, p), MapValueAt(c, p)>> : p \in ToSet(ps)} = {<<x, mapped[x]>> : x \in DOMAIN mapped}
        /\ Len(ps) = Cardinality(DOMAIN mapped) /\ zipmapLen(zipmap) = Len(ps)
        /\ FoldLeft(LAMBDA n, p : n + zipmapRawEntryLength(c, p), 0, ps) = Len(c) - 1
        /\ \A p \in ToSet(ps) : FreeAt(c, p + zipmapRawKeyLength(c, p)) < ZIPMAP_VALUE_MAX_FREE
=============================================================================

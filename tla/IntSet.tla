------------------------------- MODULE IntSet -------------------------------
(***************************************************************************)
(* The sorted array of integers of a small set, intset.c.  All members     *)
(* have the width of the widest one, and the array is widened in place.    *)
(* Memory is a sequence of digits, which stand for bytes; an integer is    *)
(* two's complement, its lowest digit first.                               *)
(***************************************************************************)
EXTENDS Integers, Sequences, FiniteSets, SequencesExt

CONSTANTS
    Int64,      \* integers that are added and removed
    BASE,       \* values of a digit
    ENC16, ENC32, ENC64   \* digits of the three encodings

(* What the digit i + 1 counts.                                            *)
Weight == LET w[i \in 0 .. ENC64] == IF i = 0 THEN 1 ELSE BASE * w[i - 1] IN w
Half(enc) == Weight[enc] \div 2
Fits(v, enc) == v >= -Half(enc) /\ v < Half(enc)

ASSUME IntSetAssumption ==
    /\ BASE \in Nat \ {0, 1}
    /\ ENC16 \in Nat \ {0} /\ ENC32 \in Nat /\ ENC64 \in Nat /\ ENC16 < ENC32 /\ ENC32 < ENC64
    /\ \A v \in Int64 : v \in Int /\ Fits(v, ENC64)

VARIABLES
    intset,     \* encoding, length and contents
    members     \* the members of the set

intsetVars == <<intset, members>>

(* memcpy of an integer to and from memory; a cast to a narrower type      *)
(* keeps the lower digits.                                                 *)
Digits(v, enc) == [i \in 1 .. enc |-> ((v % Weight[enc]) \div Weight[i - 1]) % BASE]
Unsigned(mem, at, enc) ==
    LET u[k \in 0 .. enc] == IF k = 0 THEN 0 ELSE u[k - 1] + Weight[k - 1] * mem[at + k]
    IN  u[enc]
Load(mem, at, enc) ==
    LET u == Unsigned(mem, at, enc) IN IF u < Half(enc) THEN u ELSE u - Weight[enc]
Store(mem, at, digits) == [i \in DOMAIN mem |-> IF i - at \in DOMAIN digits THEN digits[i - at] ELSE mem[i]]

intsetValueEncoding(v) == IF ~Fits(v, ENC32) THEN ENC64 ELSE IF ~Fits(v, ENC16) THEN ENC32 ELSE ENC16

intsetGetEncoded(is, pos, enc) == Load(is.mem, pos * enc, enc)
intsetGet(is, pos) == intsetGetEncoded(is, pos, is.enc)
intsetSet(is, pos, v) == [is EXCEPT !.mem = Store(@, pos * is.enc, Digits(v, is.enc))]

(* zrealloc: what is new can hold anything; and memmove.                   *)
Realloc(mem, size) == [i \in 1 .. size |-> IF i \in DOMAIN mem THEN mem[i] ELSE 0]
Memmove(mem, dst, src, n) == [i \in DOMAIN mem |-> IF i - dst \in 1 .. n THEN mem[i - dst + src] ELSE mem[i]]

intsetResize(is, len) == [is EXCEPT !.mem = Realloc(@, len * is.enc)]

-----------------------------------------------------------------------------
(* The loop of the search: min .. max holds v, if it is a member, until it *)
(* is found or nothing is left.                                            *)
Halved(is, v, b) ==
    LET mid == (b.min + b.max) \div 2
        cur == intsetGet(is, mid)
    IN  IF b.found \/ b.max < b.min THEN b
        ELSE IF v > cur THEN [b EXCEPT !.min = mid + 1]
        ELSE IF v < cur THEN [b EXCEPT !.max = mid - 1]
        ELSE [b EXCEPT !.found = TRUE]

Bisect(is, v) ==
    LET after[n \in 0 .. is.length] == IF n = 0 THEN [min |-> 0, max |-> is.length - 1, found |-> FALSE]
                                       ELSE Halved(is, v, after[n - 1])
        end == after[is.length]
    IN  [found |-> end.found, pos |-> IF end.found THEN (end.min + end.max) \div 2 ELSE end.min]

intsetSearch(is, v) ==
    IF is.length = 0 THEN [found |-> FALSE, pos |-> 0]
    ELSE IF v > intsetGet(is, is.length - 1) THEN [found |-> FALSE, pos |-> is.length]
    ELSE IF v < intsetGet(is, 0) THEN [found |-> FALSE, pos |-> 0]
    ELSE Bisect(is, v)

(* Member pos is written where its wider form belongs.                     *)
Widened(is, curenc, pos, prepend) == intsetSet(is, pos + prepend, intsetGetEncoded(is, pos, curenc))

(* A bug that widens the members from the first to the last.               *)
WidenUpwards(is, curenc, length, prepend) ==
    LET after[n \in 0 .. length] == IF n = 0 THEN is ELSE Widened(after[n - 1], curenc, n - 1, prepend)
    IN  after[length]

(* The members are widened from the last to the first, because the wider   *)
(* ones cover the narrower ones that follow.                               *)
Widen(is, curenc, length, prepend) ==
    LET after[n \in 0 .. length] == IF n = 0 THEN is ELSE Widened(after[n - 1], curenc, length - n, prepend)
    IN  after[length]

(* The new value is beyond all members: below them if it is negative.      *)
intsetUpgradeAndAdd(is, v) ==
    LET prepend == IF v < 0 THEN 1 ELSE 0
        room    == intsetResize([is EXCEPT !.enc = intsetValueEncoding(v)], is.length + 1)
    IN  [intsetSet(Widen(room, is.enc, is.length, prepend), IF prepend = 1 THEN 0 ELSE is.length, v)
            EXCEPT !.length = @ + 1]

intsetMoveTail(is, from, to) ==
    [is EXCEPT !.mem = Memmove(@, to * is.enc, from * is.enc, (is.length - from) * is.enc)]

intsetAdd(is, v) ==
    LET s    == intsetSearch(is, v)
        room == intsetResize(is, is.length + 1)
    IN  IF intsetValueEncoding(v) > is.enc THEN intsetUpgradeAndAdd(is, v)
        ELSE IF s.found THEN is
        ELSE [intsetSet(IF s.pos < is.length THEN intsetMoveTail(room, s.pos, s.pos + 1) ELSE room, s.pos, v)
                 EXCEPT !.length = @ + 1]

intsetFind(is, v) == intsetValueEncoding(v) <= is.enc /\ intsetSearch(is, v).found

intsetRemove(is, v) ==
    LET pos == intsetSearch(is, v).pos
    IN  IF ~intsetFind(is, v) THEN is
        ELSE [intsetResize(IF pos < is.length - 1 THEN intsetMoveTail(is, pos + 1, pos) ELSE is, is.length - 1)
                 EXCEPT !.length = @ - 1]

-----------------------------------------------------------------------------
IntsetAdd(v) == intset' = intsetAdd(intset, v) /\ members' = members \cup {v}
IntsetRemove(v) == intset' = intsetRemove(intset, v) /\ members' = members \ {v}

IntsetInit == intset = [enc |-> ENC16, length |-> 0, mem |-> <<>>] /\ members = {}
IntsetNext == \E v \in Int64 : IntsetAdd(v) \/ IntsetRemove(v)

(* The array is strictly sorted, holds the set and finds each member and   *)
(* no other integer, whatever was added and removed and however often the  *)
(* array was widened; its size is the one that its header tells.           *)
IntsetIsTheSet ==
    LET get == [i \in 0 .. intset.length - 1 |-> intsetGet(intset, i)]
    IN  /\ Len(intset.mem) = intset.length * intset.enc
        /\ {get[i] : i \in DOMAIN get} = members
        /\ \A i, k \in DOMAIN get : i < k => get[i] < get[k]
        /\ \A v \in Int64 : intsetFind(intset, v) <=> v \in members
=============================================================================

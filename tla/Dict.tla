-------------------------------- MODULE Dict --------------------------------
(***************************************************************************)
(* The hash table (dict.c): chains of keys in one table, or in two while   *)
(* the keys are moved bucket by bucket to a table of another size.  Every  *)
(* operation moves a bucket, unless a safe iterator goes through the       *)
(* table; the user of the iterator may add keys, look keys up and delete   *)
(* the key it was given.                                                   *)
(***************************************************************************)
EXTENDS Integers, Sequences, FiniteSets, SequencesExt

CONSTANTS
    DictKeys,           \* keys: numbers, each its own hash value
    HT_INITIAL_SIZE,    \* DICT_HT_INITIAL_SIZE
    FORCE_RESIZE_RATIO, \* dict_force_resize_ratio
    MaxSize             \* the largest table

ASSUME DictAssumption ==
    /\ DictKeys \subseteq Nat
    /\ HT_INITIAL_SIZE \in Nat \ {0} /\ MaxSize \in Nat /\ HT_INITIAL_SIZE <= MaxSize
    /\ FORCE_RESIZE_RATIO \in Nat

VARIABLES
    ht,          \* the two tables
    rehashidx, iterators, \* fields of the dict
    can_resize,  \* dict_can_resize: off while a child saves
    iter,        \* a safe iterator
    present      \* the keys that were added and not deleted

dictVars == <<ht, rehashidx, iterators, can_resize, iter, present>>

NoKeyYet == -1
NewTable(n) == [size |-> n, table |-> [i \in 0 .. n - 1 |-> <<>>], used |-> 0]
NoTable == NewTable(0)

(* The sizes of a table: the first one, doubled again and again.           *)
Powers == {p \in HT_INITIAL_SIZE .. MaxSize : \E n \in 0 .. MaxSize : p = HT_INITIAL_SIZE * 2 ^ n}
SizesFor(n) == {p \in Powers : n <= p}
NextPower(n) == Min(SizesFor(n))

(* The operations work on a copy of the dict.                              *)
D == [t0 |-> ht[0], t1 |-> ht[1], idx |-> rehashidx]
DictBecomes(d) == ht' = [i \in 0 .. 1 |-> IF i = 0 THEN d.t0 ELSE d.t1] /\ rehashidx' = d.idx
IsRehashing(d) == d.idx # -1

HasKey(t, k) == t.size > 0 /\ Contains(t.table[k % t.size], k)
FilledFrom(t, b) == {c \in b .. t.size - 1 : t.table[c] # <<>>}

AddTo(t, k) ==
    [size |-> t.size, table |-> [t.table EXCEPT ![k % t.size] = <<k>> \o @], used |-> t.used + 1]
RemoveFrom(t, k) ==
    [size |-> t.size, table |-> [t.table EXCEPT ![k % t.size] = RemoveFirst(@, k)], used |-> t.used - 1]

-----------------------------------------------------------------------------
dictExpand(d, n) ==
    IF IsRehashing(d) \/ d.t0.used > n \/ SizesFor(n) = {} THEN d
    ELSE IF d.t0.size = 0 THEN [d EXCEPT !.t0 = NewTable(NextPower(n))]
    ELSE [d EXCEPT !.t1 = NewTable(NextPower(n)), !.idx = 0]

ExpandIfNeeded(d) ==
    IF IsRehashing(d) THEN d
    ELSE IF d.t0.size = 0 THEN dictExpand(d, HT_INITIAL_SIZE)
    ELSE IF d.t0.used >= d.t0.size /\ (can_resize \/ d.t0.used \div d.t0.size > FORCE_RESIZE_RATIO)
         THEN dictExpand(d, 2 * (IF d.t0.size > d.t0.used THEN d.t0.size ELSE d.t0.used))
    ELSE d

Emptied(t, b) ==
    [size |-> t.size, table |-> [t.table EXCEPT ![b] = <<>>], used |-> t.used - Len(t.table[b])]

(* The bucket that is moved: the first that is not empty.  Its keys are    *)
(* put at the head of their new chains, one by one.                        *)
Added(t, keys) ==
    LET with[n \in 0 .. Len(keys)] == IF n = 0 THEN t ELSE AddTo(with[n - 1], keys[n])
    IN  with[Len(keys)]

MoveBucket(d, b) ==
    [t0 |-> Emptied(d.t0, b), t1 |-> Added(d.t1, d.t0.table[b]), idx |-> b + 1]

RehashOne(d) ==
    IF ~IsRehashing(d) THEN d
    ELSE IF d.t0.used = 0 THEN [t0 |-> d.t1, t1 |-> NoTable, idx |-> -1]
    ELSE MoveBucket(d, Min(FilledFrom(d.t0, d.idx)))

(* A bug that moves a bucket under an iterator.                            *)
StepAlways(d) == RehashOne(d)

RehashTimes(d, m) ==
    LET after[n \in 0 .. m] == IF n = 0 THEN d ELSE RehashOne(after[n - 1])
    IN  after[m]

dictRehashStep(d) == IF iterators = 0 THEN RehashOne(d) ELSE d

dictAddRaw(d, k) ==
    LET e == ExpandIfNeeded(dictRehashStep(d))
    IN  IF HasKey(e.t0, k) \/ HasKey(e.t1, k) THEN e
        ELSE IF IsRehashing(e) THEN [e EXCEPT !.t1 = AddTo(@, k)] ELSE [e EXCEPT !.t0 = AddTo(@, k)]

dictGenericDelete(d, k) ==
    IF d.t0.size = 0 THEN d
    ELSE LET e == dictRehashStep(d)
         IN  IF HasKey(e.t0, k) THEN [e EXCEPT !.t0 = RemoveFrom(@, k)]
             ELSE IF IsRehashing(e) /\ HasKey(e.t1, k) THEN [e EXCEPT !.t1 = RemoveFrom(@, k)]
             ELSE e

-----------------------------------------------------------------------------
NoIter == [on |-> FALSE, table |-> 0, index |-> -1, entry |-> NoKeyYet, next |-> NoKeyYet, done |-> FALSE,
           seen |-> <<>>, must |-> {}]

dictAdd(k) ==
    /\ DictBecomes(dictAddRaw(D, k))
    /\ present' = present \cup {k}
    /\ UNCHANGED <<iterators, can_resize, iter>>

(* An iterator's user deletes only the key that it was given last.         *)
dictDelete(k) ==
    /\ iter.on => k = iter.entry
    /\ DictBecomes(dictGenericDelete(D, k))
    /\ present' = present \ {k}
    /\ iter' = [iter EXCEPT !.must = @ \ {k}]
    /\ UNCHANGED <<iterators, can_resize>>

(* A lookup moves a bucket too; dictGetRandomKey likewise.                 *)
dictFind ==
    /\ ht[0].size > 0
    /\ DictBecomes(dictRehashStep(D))
    /\ UNCHANGED <<iterators, can_resize, iter, present>>

(* The cron, which runs while there is no iterator: it shrinks the table,  *)
(* or moves many buckets.                                                  *)
dictResize ==
    /\ ~iter.on /\ can_resize /\ ~IsRehashing(D)
    /\ DictBecomes(dictExpand(D, IF ht[0].used < HT_INITIAL_SIZE THEN HT_INITIAL_SIZE ELSE ht[0].used))
    /\ UNCHANGED <<iterators, can_resize, iter, present>>

dictRehashMilliseconds ==
    /\ ~iter.on /\ IsRehashing(D)
    /\ \E n \in 1 .. MaxSize + 1 : DictBecomes(RehashTimes(D, n))
    /\ UNCHANGED <<iterators, can_resize, iter, present>>

dictEmpty ==
    /\ ~iter.on
    /\ DictBecomes([t0 |-> NoTable, t1 |-> NoTable, idx |-> -1])
    /\ present' = {}
    /\ iterators' = 0
    /\ UNCHANGED <<can_resize, iter>>

(* updateDictResizePolicy: a child starts or ends.                         *)
updateDictResizePolicy ==
    /\ ~iter.on
    /\ can_resize' = ~can_resize
    /\ UNCHANGED <<ht, rehashidx, iterators, iter, present>>

-----------------------------------------------------------------------------
dictGetSafeIterator ==
    /\ ~iter.on
    /\ iter' = [NoIter EXCEPT !.on = TRUE, !.must = present]
    /\ UNCHANGED <<ht, rehashidx, iterators, can_resize, present>>

(* The key after k in its chain.                                           *)
Further(s, k) == LET at == CHOOSE n \in 1 .. Len(s) : s[n] = k IN IF at < Len(s) THEN s[at + 1] ELSE NoKeyYet

(* The iterator moves to key k of bucket b in table t.                     *)
Visit(t, b, k) ==
    [iter EXCEPT !.table = t, !.index = b, !.entry = k, !.next = Further(ht[t].table[b], k), !.seen = Append(@, k)]

VisitFirst(t, b) == Visit(t, b, Head(ht[t].table[b]))

(* The next key: the rest of the chain, or the first bucket after index    *)
(* that is not empty, in this table or in the next.                        *)
dictNext ==
    LET here  == FilledFrom(ht[iter.table], iter.index + 1)
        there == IF iter.table = 0 /\ IsRehashing(D) THEN FilledFrom(ht[1], 0) ELSE {}
    IN  /\ iter.on /\ ~iter.done
        /\ iterators' = IF iter.index = -1 /\ iter.table = 0 THEN iterators + 1 ELSE iterators
        /\ iter' = IF iter.entry # NoKeyYet /\ iter.next # NoKeyYet THEN Visit(iter.table, iter.index, iter.next)
                   ELSE IF here # {} THEN VisitFirst(iter.table, Min(here))
                   ELSE IF there # {} THEN VisitFirst(1, Min(there))
                   ELSE [iter EXCEPT !.done = TRUE, !.index = ht[iter.table].size, !.entry = NoKeyYet]
        /\ UNCHANGED <<ht, rehashidx, can_resize, present>>

dictReleaseIterator ==
    /\ iter.on
    /\ iterators' = IF iter.index = -1 /\ iter.table = 0 THEN iterators ELSE iterators - 1
    /\ iter' = NoIter
    /\ UNCHANGED <<ht, rehashidx, can_resize, present>>

DictInit ==
    /\ ht = [i \in 0 .. 1 |-> NoTable] /\ rehashidx = -1 /\ iterators = 0
    /\ can_resize = TRUE /\ iter = NoIter /\ present = {}

DictNext ==
    \/ \E k \in DictKeys : dictAdd(k) \/ dictDelete(k)
    \/ dictFind \/ dictResize \/ dictRehashMilliseconds \/ dictEmpty \/ updateDictResizePolicy
    \/ dictGetSafeIterator \/ dictNext \/ dictReleaseIterator

-----------------------------------------------------------------------------
(* Whatever is added, deleted, resized and moved in any order: every key   *)
(* is found, once, in the chain of its hash value, the counters are exact  *)
(* and the buckets below rehashidx are empty.  An iterator that reached    *)
(* the end has returned every key that was there when it began and was not *)
(* deleted, none of them twice, although the table may have grown meanwhile.   *)
KeysOf(t) == UNION {ToSet(t.table[b]) : b \in DOMAIN t.table}
InTheirChains(t) ==
    \A b \in DOMAIN t.table : /\ IsInjective(t.table[b])
                              /\ \A k \in ToSet(t.table[b]) : k % t.size = b
ReturnedOnce(i) == \A m, n \in 1 .. Len(i.seen) : i.seen[m] = i.seen[n] /\ i.seen[m] \in i.must => m = n

DictKeepsKeys ==
    /\ \A t \in 0 .. 1 : InTheirChains(ht[t]) /\ ht[t].used = Cardinality(KeysOf(ht[t]))
    /\ KeysOf(ht[0]) \cup KeysOf(ht[1]) = present /\ KeysOf(ht[0]) \cap KeysOf(ht[1]) = {}
    /\ \A b \in 0 .. rehashidx - 1 : ht[0].table[b] = <<>>
    /\ ReturnedOnce(iter)
    /\ iter.done => iter.must \subseteq ToSet(iter.seen)
    /\ ~iter.on => iterators = 0

=============================================================================

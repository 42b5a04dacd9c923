---------------------------- MODULE SetCommands -----------------------------
(* The commands on sets, t_set.c.  A set is an intset while it holds few   *)
(* integers only, and a hash table from then on.                           *)
EXTENDS KeySpace

SetObject(enc, members) == [type |-> "set", enc |-> enc, val |-> members]
EmptyIntset == SetObject("intset", {})

(* The members of the set at the key, none if it is missing.               *)
Members(x, k) == IF dbExists(x, k) THEN x.db[k].val ELSE {}

setTypeCreate(e) == IF string2ll(e) THEN EmptyIntset ELSE SetObject("hashtable", {})

(* The set with e; setTypeConvert makes it a hash table.                   *)
setTypeAdd(limits, o, e) ==
    LET members == o.val \cup {e}
        stays   == /\ o.enc = "intset" /\ string2ll(e)
                   /\ (e \in o.val \/ Cardinality(members) <= limits.set_max_intset_entries)
    IN  SetObject(IF stays THEN "intset" ELSE "hashtable", members)

setTypeRemove(o, e) == SetObject(o.enc, o.val \ {e})

(* The order in which the table is walked does not matter, so long as the  *)
(* limit is reached by the number of members.                              *)
AddAll(limits, o, es) == FoldLeft(LAMBDA s, e : setTypeAdd(limits, s, e), o, es)

(* The set is stored at the key, or the key deleted when it is empty.      *)
StoreSet(x, k, o) == IF o.val = {} THEN dbDelete(x, k) ELSE dbOverwrite(x, k, o)

saddCommand(x, k, es) ==
    LET y     == lookupKeyWrite(x, k)
        old   == IF dbExists(y, k) THEN y.db[k] ELSE setTypeCreate(es[1])
        new   == AddAll(y.limits, old, es)
        added == Cardinality(new.val) - Cardinality(old.val)
        z     == dbOverwrite(y, k, new)
    IN  IF checkType(y, k, "set") THEN WrongType(y)
        ELSE IntReply(IF added > 0 THEN Changed(z, k, added) ELSE z, added)

sremCommand(x, k, es) ==
    LET y    == lookupKeyWrite(x, k)
        gone == Members(y, k) \cap ToSet(es)
        new  == SetObject(y.db[k].enc, y.db[k].val \ gone)
    IN  IF checkType(y, k, "set") THEN WrongType(y)
        ELSE IF gone = {} THEN IntReply(y, 0)
        ELSE IntReply(Changed(StoreSet(y, k, new), k, Cardinality(gone)), Cardinality(gone))

(* A bug that signals the source only.                                     *)
smoveSignalsSource(x, src, dst, e) ==
    LET y     == lookupKeys(x, <<src, dst>>)
        into  == IF dbExists(y, dst) THEN y.db[dst] ELSE setTypeCreate(e)
        z     == Changed(StoreSet(y, src, setTypeRemove(y.db[src], e)), src, 1)
    IN  IF ~dbExists(y, src) THEN IntReply(y, 0)
        ELSE IF checkType(y, src, "set") \/ checkType(y, dst, "set") THEN WrongType(y)
        ELSE IF src = dst THEN IntReply(y, 1)
        ELSE IF e \notin Members(y, src) THEN IntReply(y, 0)
        ELSE IntReply(dbOverwrite(z, dst, setTypeAdd(y.limits, into, e)), 1)

smoveCommand(x, src, dst, e) ==
    LET y     == lookupKeys(x, <<src, dst>>)
        into  == IF dbExists(y, dst) THEN y.db[dst] ELSE setTypeCreate(e)
        z     == Changed(StoreSet(y, src, setTypeRemove(y.db[src], e)), src, 1)
        more  == IF e \in into.val THEN 0 ELSE 1
    IN  IF ~dbExists(y, src) THEN IntReply(y, 0)
        ELSE IF checkType(y, src, "set") \/ checkType(y, dst, "set") THEN WrongType(y)
        ELSE IF src = dst THEN IntReply(y, 1)
        ELSE IF e \notin Members(y, src) THEN IntReply(y, 0)
        ELSE IntReply(Changed(dbOverwrite(z, dst, setTypeAdd(y.limits, into, e)), dst, more), 1)

sismemberCommand(x, k, e) ==
    LET y == lookupKeyRead(x, k)
    IN  IF checkType(y, k, "set") THEN WrongType(y)
        ELSE IntReply(y, IF e \in Members(y, k) THEN 1 ELSE 0)

scardCommand(x, k) ==
    LET y == lookupKeyRead(x, k)
    IN  IF checkType(y, k, "set") THEN WrongType(y) ELSE IntReply(y, Cardinality(Members(y, k)))

(* setTypeRandomElement: each server draws its own; the master draws e     *)
(* when it can.                                                            *)
setTypeRandomElement(x, members, e) ==
    IF x.role = "master" /\ e \in members THEN e ELSE CHOOSE m \in members : TRUE

(* A bug that propagates SPOP itself.                                      *)
spopVerbatim(x, k, e) ==
    LET y   == lookupKeyWrite(x, k)
        ele == setTypeRandomElement(y, Members(y, k), e)
    IN  IF ~dbExists(y, k) THEN NilReply(y)
        ELSE IF checkType(y, k, "set") THEN WrongType(y)
        ELSE BulkReply(Changed(StoreSet(y, k, setTypeRemove(y.db[k], ele)), k, 1), ele)

spopCommand(x, k, e) ==
    LET y   == lookupKeyWrite(x, k)
        ele == setTypeRandomElement(y, Members(y, k), e)
    IN  IF ~dbExists(y, k) THEN NilReply(y)
        ELSE IF checkType(y, k, "set") THEN WrongType(y)
        ELSE Rewritten(BulkReply(Changed(StoreSet(y, k, setTypeRemove(y.db[k], ele)), k, 1), ele),
                       Command("SREM", <<k>>, <<ele>>, <<>>))

(* SRANDMEMBER with a count: how many elements it answers, repeated ones   *)
(* if the count is negative; the four ways to draw them differ in cost.    *)
srandmemberWithCountCommand(x, k, l) ==
    LET y    == lookupKeyRead(x, k)
        size == Cardinality(Members(y, k))
    IN  IF checkType(y, k, "set") THEN WrongType(y)
        ELSE IntReply(y, IF size = 0 THEN 0 ELSE IF l < 0 THEN -l ELSE IF l >= size THEN size ELSE l)

srandmemberCommand(x, k, e) ==
    LET y == lookupKeyRead(x, k)
    IN  IF ~dbExists(y, k) THEN NilReply(y)
        ELSE IF checkType(y, k, "set") THEN WrongType(y)
        ELSE BulkReply(y, setTypeRandomElement(y, Members(y, k), e))

(* The keys up to the first that the loop of the command stops at.         *)
LookedUp(x, keys, stop) ==
    LET at == {i \in 1 .. Len(keys) : stop[i]}
    IN  lookupKeys(x, IF at = {} THEN keys ELSE SubSeq(keys, 1, Min(at)))

(* SINTER, and SINTERSTORE with a destination.  A missing key ends it.     *)
sinterGenericCommand(x, keys, store, dst) ==
    LET seen == lookupKeys(x, keys)
        stop == [i \in 1 .. Len(keys) |-> seen.db[keys[i]].type # "set"]
        y    == LookedUp(x, keys, stop)
        at   == {i \in 1 .. Len(keys) : stop[i]}
        all  == {e \in Members(y, keys[1]) : \A i \in 1 .. Len(keys) : e \in Members(y, keys[i])}
        z    == Changed(StoreSet(dbDelete(y, dst), dst, AddAll(y.limits, EmptyIntset, SetToSeq(all))), dst, 1)
    IN  IF at # {} /\ dbExists(y, keys[Min(at)]) THEN WrongType(y)
        ELSE IF at # {}
        THEN IF ~store THEN MultiReply(y, <<>>)
             ELSE IntReply(IF dbExists(y, dst) THEN Changed(dbDelete(y, dst), dst, 1) ELSE y, 0)
        ELSE IF store THEN IntReply(z, Cardinality(all)) ELSE MultiReply(y, SetToSeq(all))

(* SUNION and SDIFF; a missing key is an empty set.  The result grows in   *)
(* an intset and shrinks by the sets that are subtracted.                  *)
sunionDiffGenericCommand(x, keys, store, dst, diff) ==
    LET seen  == lookupKeys(x, keys)
        stop  == [i \in 1 .. Len(keys) |-> checkType(seen, keys[i], "set")]
        y     == LookedUp(x, keys, stop)
        Fold(s, i) == IF diff /\ i > 1 THEN SetObject(s.enc, s.val \ Members(y, keys[i]))
                      ELSE AddAll(y.limits, s, SetToSeq(Members(y, keys[i])))
        res   == FoldLeft(Fold, EmptyIntset, [i \in 1 .. Len(keys) |-> i])
    IN  IF \E i \in 1 .. Len(keys) : stop[i] THEN WrongType(y)
        ELSE IF store THEN IntReply(Changed(StoreSet(dbDelete(y, dst), dst, res), dst, 1), Cardinality(res.val))
        ELSE MultiReply(y, SetToSeq(res.val))

=============================================================================

------------------------------ MODULE MCServer ------------------------------
(* The parts that keep their own state, and the data structures, checked   *)
(* side by side in the same way.                                           *)
EXTENDS Server, Dict, SkipList, ZipList, IntSet, ZipMap

(* Requests: complete ones, QUIT, and some that break the protocol.        *)
R(type, args, line) == [type |-> type, args |-> args, line |-> line]
Req == {R("multibulk", <<<<Byte>>, <<>>>>, <<>>), R("multibulk", <<<<CR, LF, Byte>>, <<Byte, CR>>>>, <<>>),
        R("multibulk", <<>>, <<>>), R("multibulk", <<<<Quit>>>>, <<>>),
        R("inline", <<<<Byte>>, <<Byte>>>>, <<>>),
        R("badcount", <<>>, <<>>), R("badbulk", <<>>, <<Byte>>), R("badbulk", <<<<Byte>>>>, <<Tok("$", Invalid)>>),
        R("endless", <<>>, [i \in 1 .. 8 |-> Byte])}
MCStreams == {<<a, b>> : a \in {r \in Req : r.type # "endless"}, b \in Req}

(* Scripts: a slow one, two that use commands that are not deterministic.  *)
Calls(op, key) == [op |-> op, key |-> key]
MCScript == {<<Calls("get", "a"), Calls("loop", "a"), Calls("set", "a"), Calls("loop", "a")>>,
             <<Calls("random", "a"), Calls("pset", "a"), Calls("get", "b"), Calls("set", "b")>>,
             <<Calls("get", "a"), Calls("set", "b"), Calls("random", "a"), Calls("error", "a")>>}

(* Integers of each encoding, and those at the ends of its range.          *)
MCInt64 == {-40, -9, -8, -2, -1, 0, 1, 2, 7, 8}

(* An integer, a string whose entry is below the length from which the     *)
(* next one needs five bytes, and one above.                               *)
MCValue == {[type |-> "int", enc |-> "16B"], [type |-> "str", len |-> 5], [type |-> "str", len |-> 8]}

(* The shortest entry too.                                                 *)
MCShort == MCValue \cup {[type |-> "int", enc |-> "imm"]}

(* A part that does not run has one initial state.                         *)
RestingPartsAreFixed ==
    /\ part # "links" => kind = "master" /\ ~auth
    /\ part # "slave" => masterhost = NoHost
    /\ part # "input" => requests = <<R("multibulk", <<>>, <<>>), R("multibulk", <<>>, <<>>)>>
    /\ part # "output" => ~outIocp /\ ~fromMaster

structVars == <<dictVars, zsetVars, zipVars, intsetVars, zipmapVars>>
vars == <<serverPartVars, structVars>>

Init ==
    /\ ServerInit /\ RestingPartsAreFixed
    /\ DictInit /\ ZsetInit /\ ZipInit /\ IntsetInit /\ MapInit

RunsStructure(p) ==
    /\ part = p
    /\ UNCHANGED serverPartVars
    /\ IF p = "dict"     THEN TRUE ELSE UNCHANGED dictVars
    /\ IF p = "skiplist" THEN TRUE ELSE UNCHANGED zsetVars
    /\ IF p = "ziplist"  THEN TRUE ELSE UNCHANGED zipVars
    /\ IF p = "intset"   THEN TRUE ELSE UNCHANGED intsetVars
    /\ IF p = "zipmap"   THEN TRUE ELSE UNCHANGED zipmapVars

Next ==
    \/ ServerNext /\ UNCHANGED structVars
    \/ RunsStructure("dict") /\ DictNext
    \/ RunsStructure("skiplist") /\ ZsetNext
    \/ RunsStructure("ziplist") /\ ZipNext
    \/ RunsStructure("intset") /\ IntsetNext
    \/ RunsStructure("zipmap") /\ MapNext

Spec == Init /\ [][Next]_vars

-----------------------------------------------------------------------------
(* Data structures hold what was put into them: the dictionary while it is *)
(* rehashed, both encodings of sorted sets, and the compact encodings.     *)
StructuresKeepTheirContent ==
    /\ part = "dict" => DictKeepsKeys
    /\ part = "skiplist" => SkipListIsLinked /\ EncodingsAgree
    /\ part = "ziplist" => ZiplistIsWalkable
    /\ part = "intset" => IntsetIsTheSet
    /\ part = "zipmap" => ZipmapIsTheMap
=============================================================================

-------------------------- MODULE MCCommandExecution ------------------------
(* The instances of CommandExecution that TLC checks.                      *)
EXTENDS CommandExecution, TLC

CONSTANTS c1, c2, c3, k1, k2

OneClient    == {c1}
TwoClients   == {c1, c2}
ThreeClients == {c1, c2, c3}
SingleKey    == {k1}
BothKeys     == {k1, k2}

(* A producer that uses transactions, and consumers.                       *)
Roles == [cl \in Client |->
    IF cl = c1 THEN {"MULTI", "WATCH", "GET", "RPUSH"}
    ELSE {"BLPOP", "BRPOPLPUSH", "SET", "DEL", "FLUSHDB"}]

(* Everybody sends everything.                                             *)
AllSave   == [cl \in Client |-> {"MULTI", "SET", "SAVE"}]
AllRename == [cl \in Client |-> {"RPUSH", "RENAME", "BLPOP"}]
AllPop    == [cl \in Client |-> {"RPUSH", "BLPOP"}]
AllMove   == [cl \in Client |-> {"RPUSH", "BRPOPLPUSH"}]
AllRead   == [cl \in Client |-> {"MULTI", "GET", "SET"}]

(* Consumers are interchangeable, and so are keys; no liveness is checked. *)
Symmetry == Permutations(Client \ {c1}) \cup Permutations(Key)

=============================================================================

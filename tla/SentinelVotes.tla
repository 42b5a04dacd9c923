--------------------------- MODULE SentinelVotes ---------------------------
(***************************************************************************)
(* How a Sentinel learns of the other Sentinels of a master and counts     *)
(* their votes (sentinel.c): hello messages on a channel of the master,    *)
(* SENTINEL is-master-down-by-addr, O_DOWN and the objective leader.  The  *)
(* other Sentinels restart with another run id, move to another address,   *)
(* answer late or never, and say of the master and of its leader what they *)
(* like.                                                                   *)
(***************************************************************************)
EXTENDS Integers, Sequences, FiniteSets, SequencesExt, FiniteSetsExt

CONSTANTS
    QUORUM,         \* master->quorum
    Others,         \* the other Sentinels
    Vote,           \* what they may say: the run id they vote for, 0 for none ("?")
    MyRunId,        \* server.runid of this Sentinel; run ids are numbers, in their order
    Apart,          \* added to a run id or an address it gives one that was never used
    MayMoveAgain,   \* a Sentinel with a new run id may change its address
    MaxMoves,       \* restarts and changes of address
    MaxAnswers,     \* answers to SENTINEL is-master-down-by-addr
    MaxHello        \* hello messages under way

ASSUME VotesAssumption ==
    /\ Others \subseteq 1 .. Apart /\ Apart \in Nat
    /\ QUORUM \in Nat

VARIABLES
    process,   \* run id and address of each of the other Sentinels
    sentinels, \* master->sentinels: for an address, the sentinelRedisInstance
    hello,     \* hello messages under way
    masterIs,  \* S_DOWN, O_DOWN and the failover flags of the master
    moves,     \* restarts and changes of address so far
    answers,   \* answers so far
    said       \* history: the last answer of each run id that is still valid

voteVars == <<process, sentinels, hello, masterIs, moves, answers, said>>

NoVote == -1
MasterDown == {a \in DOMAIN sentinels : sentinels[a].down}
Without(f, S) == [x \in DOMAIN f \ S |-> f[x]]
Recorded(f, x, v) == [y \in DOMAIN f \cup {x} |-> IF y = x THEN v ELSE f[y]]

-----------------------------------------------------------------------------
(* Discovery *)

Publish(p) ==
    /\ Len(hello) < MaxHello
    /\ hello' = Append(hello, process[p])
    /\ UNCHANGED <<process, sentinels, masterIs, moves, answers, said>>

(* A bug that looks for duplicates by address only.                        *)
MatchingAddress(h) == {a \in DOMAIN sentinels : a = h.addr}

(* The instances with the address or with the run id of a hello message.   *)
removeMatchingSentinelsFromMaster(h) ==
    {a \in DOMAIN sentinels : a = h.addr \/ sentinels[a].runid = h.runid}

getSentinelRedisInstanceByAddrAndRunID(h) ==
    {a \in DOMAIN sentinels : a = h.addr /\ sentinels[a].runid = h.runid}

ReceiveHello ==
    /\ hello # <<>>
    /\ LET h   == Head(hello)
           new == [runid |-> h.runid, disconnected |-> TRUE, down |-> FALSE, leader |-> NoVote, reply |-> <<>>]
       IN  sentinels' = IF getSentinelRedisInstanceByAddrAndRunID(h) # {} THEN sentinels
                        ELSE Recorded(Without(sentinels, removeMatchingSentinelsFromMaster(h)), h.addr, new)
    /\ hello' = Tail(hello)
    /\ UNCHANGED <<process, masterIs, moves, answers, said>>

-----------------------------------------------------------------------------
(* Questions and answers *)

(* The Sentinel at the address answers; the answer is under way.           *)
Answer(p) ==
    LET a == process[p].addr
    IN  /\ a \in DOMAIN sentinels /\ ~sentinels[a].disconnected /\ sentinels[a].reply = <<>>
        /\ masterIs.sdown \/ masterIs.failover # "none"
        /\ \E d \in BOOLEAN, l \in Vote :
              sentinels' = [sentinels EXCEPT ![a].reply = <<[runid |-> process[p].runid, down |-> d, leader |-> l]>>]
        /\ answers < MaxAnswers /\ answers' = answers + 1
        /\ UNCHANGED <<process, hello, masterIs, moves, said>>

sentinelReceiveIsMasterDownReply(a) ==
    /\ sentinels[a].reply # <<>>
    /\ LET r == Head(sentinels[a].reply)
       IN  /\ sentinels' = [sentinels EXCEPT ![a].reply = <<>>, ![a].down = r.down, ![a].leader = r.leader]
           /\ said' = Recorded(said, r.runid, [down |-> r.down, leader |-> r.leader])
    /\ UNCHANGED <<process, hello, masterIs, moves, answers>>

-----------------------------------------------------------------------------
(* Counting.  t is the table of the Sentinels after the old answers were   *)
(* dropped; fresh are those that answered to PING lately (it matters only  *)
(* of the run ids below that of this Sentinel).                            *)

Smaller == {a \in DOMAIN sentinels : sentinels[a].runid < MyRunId}
sentinelGetSubjectiveLeader(t, fresh) ==
    Min({MyRunId} \cup {t[a].runid : a \in {b \in fresh : ~t[b].disconnected}})

(* A bug that forgets the quorum.                                          *)
MajorityOnly(t, fresh, inprog) ==
    LET voters == {a \in DOMAIN t : t[a].leader # NoVote /\ (inprog \/ t[a].down)}
        mine   == sentinelGetSubjectiveLeader(t, fresh)
        Votes(r) == Cardinality({a \in voters : t[a].leader = r}) + IF mine = r THEN 1 ELSE 0
    IN  {r \in Vote \cup {mine} : 2 * Votes(r) > Cardinality(voters) + 1}

(* The run ids with the absolute majority of the voters and the quorum: at *)
(* most one.                                                               *)
sentinelGetObjectiveLeader(t, fresh, inprog) ==
    LET voters == {a \in DOMAIN t : t[a].leader # NoVote /\ (inprog \/ t[a].down)}
        mine   == sentinelGetSubjectiveLeader(t, fresh)
        Votes(r) == Cardinality({a \in voters : t[a].leader = r}) + IF mine = r THEN 1 ELSE 0
    IN  {r \in Vote \cup {mine} :
            Votes(r) >= (Cardinality(voters) + 1) \div 2 + 1 /\ Votes(r) >= QUORUM}

CheckObjectivelyDown(t, sdown) ==
    sdown /\ 1 + Cardinality({a \in DOMAIN t : t[a].down}) >= QUORUM

(* The table without the answers that are old, the links opened again.     *)
TimerTable(old) ==
    [a \in DOMAIN sentinels |->
        [sentinels[a] EXCEPT !.down = @ /\ a \notin old, !.disconnected = FALSE,
                             !.leader = IF a \in old THEN NoVote ELSE @]]
TimerSaid(old) == Without(said, {sentinels[a].runid : a \in old})

(* The timer of the master: old answers are dropped, links open again, the *)
(* master looks up or down, and the failover starts or is taken over.      *)
VoteTimer ==
    /\ \E old \in SUBSET DOMAIN sentinels, fresh \in SUBSET Smaller, sdown, lags \in BOOLEAN :
          LET t      == TimerTable(old)
              odown  == CheckObjectivelyDown(t, sdown)
              inprog == masterIs.failover # "none"
              won    == (odown \/ inprog) /\ MyRunId \in sentinelGetObjectiveLeader(t, fresh, inprog)
          IN  /\ sentinels' = t
              /\ masterIs' = [sdown |-> sdown, odown |-> odown,
                              failover |-> IF won /\ (inprog => lags) THEN "leader" ELSE masterIs.failover]
              /\ said' = TimerSaid(old)
    /\ UNCHANGED <<process, hello, moves, answers>>

(* A failover is detected, or ends.                                        *)
FailoverChanges ==
    /\ masterIs' = [masterIs EXCEPT !.failover = IF @ = "none" THEN "observer" ELSE "none"]
    /\ UNCHANGED <<process, sentinels, hello, moves, answers, said>>

-----------------------------------------------------------------------------
(* Another Sentinel restarts with a new run id, or moves to an address     *)
(* that was never used; its links break and their replies are lost.        *)
NewRunId(p) == [process[p] EXCEPT !.runid = @ + Apart]
NewAddress(p) == [process[p] EXCEPT !.addr = @ + Apart]
HasNewRunId(p) == process[p].runid # p

Move(p) ==
    /\ moves < MaxMoves
    /\ moves' = moves + 1
    /\ \/ process' = [process EXCEPT ![p] = NewRunId(p)]
       \/ /\ HasNewRunId(p) => MayMoveAgain
          /\ process' = [process EXCEPT ![p] = NewAddress(p)]
    /\ LET a == process[p].addr
       IN  sentinels' = IF a \notin DOMAIN sentinels THEN sentinels
                        ELSE [sentinels EXCEPT ![a].disconnected = TRUE, ![a].reply = <<>>]
    /\ UNCHANGED <<hello, masterIs, answers, said>>

VotesInit ==
    /\ process = [p \in Others |-> [runid |-> p, addr |-> p]]
    /\ sentinels = <<>>
    /\ hello = <<>>
    /\ masterIs = [sdown |-> FALSE, odown |-> FALSE, failover |-> "none"]
    /\ moves = 0
    /\ answers = 0
    /\ said = <<>>

VotesNext ==
    \/ ReceiveHello \/ VoteTimer \/ FailoverChanges
    \/ \E p \in Others : Publish(p) \/ Answer(p) \/ Move(p)
    \/ \E a \in DOMAIN sentinels : sentinelReceiveIsMasterDownReply(a)

-----------------------------------------------------------------------------
(* The Sentinels that say that the master is down, that vote for this one. *)
Saying == Cardinality({r \in DOMAIN said : said[r].down})
ForMe == Cardinality({r \in DOMAIN said : said[r].leader = MyRunId})

(* "otherwise we may end counting the same instance multiple times": when  *)
(* the master is taken for objectively down, a quorum of different         *)
(* Sentinels says so; when this Sentinel starts a failover as the leader,  *)
(* a quorum of different Sentinels votes for it, whatever restarts, moves  *)
(* and late hello messages there were.                                     *)
QuorumIsReal ==
    [][/\ masterIs'.odown /\ ~masterIs.odown => 1 + Saying' >= QUORUM
       /\ masterIs'.failover = "leader" /\ masterIs.failover # "leader" => 1 + ForMe' >= QUORUM]_voteVars

=============================================================================

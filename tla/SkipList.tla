------------------------------ MODULE SkipList ------------------------------
(***************************************************************************)
(* The two encodings of a sorted set, t_zset.c: the skip list with its     *)
(* levels, spans and backward pointers, beside the dict from elements to   *)
(* scores, and the ziplist in which every element is followed by its       *)
(* score.  Each operation is made on both.  An element is a number; the    *)
(* node of an element is named by it.                                      *)
(***************************************************************************)
EXTENDS Integers, Sequences, FiniteSets, SequencesExt, FiniteSetsExt

CONSTANTS
    Element,               \* elements, in the order of compareStringObjects
    Score,
    ZSKIPLIST_MAXLEVEL

VARIABLES
    zsl,     \* the skip list
    zdict,   \* zset.dict: the score of each element
    zl       \* the ziplist: element, score, element, score, ...

zsetVars == <<zsl, zdict, zl>>

HEADER == 0
NULL == -1

(* zslCreateNode, zslCreate: the levels of the header are never freed.     *)
zslCreate ==
    [node   |-> HEADER :> [score |-> 0, backward |-> NULL,
                           level |-> [i \in 1 .. ZSKIPLIST_MAXLEVEL |-> [forward |-> NULL, span |-> 0]]],
     level  |-> 1,
     length |-> 0,
     tail   |-> NULL]

Interval == [min : Score, max : Score, minex : BOOLEAN, maxex : BOOLEAN]
GteMin(s, r) == IF r.minex THEN s > r.min ELSE s >= r.min
LteMax(s, r) == IF r.maxex THEN s < r.max ELSE s <= r.max

-----------------------------------------------------------------------------
(* The loop that every operation begins with: from the highest level down, *)
(* forward as long as the condition holds.  The condition is about the     *)
(* next node, one of a set of nodes, or about the rank that it has.        *)
Goes(cond, next, rank) == IF cond.by = "node" THEN next \in cond.nodes ELSE rank <= cond.rank

RECURSIVE Descend(_, _, _, _)
Descend(z, cond, i, at) ==
    IF i = 0 THEN at
    ELSE LET link == z.node[at.x].level[i]
         IN  IF link.forward # NULL /\ Goes(cond, link.forward, at.traversed + link.span)
             THEN Descend(z, cond, i, [at EXCEPT !.x = link.forward, !.traversed = @ + link.span])
             ELSE Descend(z, cond, i - 1, [at EXCEPT !.update = <<at.x>> \o @, !.rank = <<at.traversed>> \o @])

Search(z, cond) == Descend(z, cond, z.level, [x |-> HEADER, traversed |-> 0, update |-> <<>>, rank |-> <<>>])

Members(z) == DOMAIN z.node \ {HEADER}
ByNode(S) == [by |-> "node", nodes |-> S]
ByRank(n) == [by |-> "rank", rank |-> n]
Before(z, s, e) == {n \in Members(z) : z.node[n].score < s \/ (z.node[n].score = s /\ n < e)}

(* The header takes part in the levels that are new.                       *)
Raise(z, level) ==
    IF level <= z.level THEN z
    ELSE [z EXCEPT !.level = level,
                   !.node[HEADER].level = [i \in DOMAIN @ |-> IF i \in z.level + 1 .. level
                                             THEN [@[i] EXCEPT !.span = z.length] ELSE @[i]]]

(* A bug that leaves the spans of the levels above the new node alone.     *)
AboveUntouched(link) == link

(* The link that passes over the new node, on a level it does not reach.   *)
Above(link) == [link EXCEPT !.span = @ + 1]

(* update: the nodes before the new one on each level, rank: their ranks.  *)
LinkIn(z, e, s, level, update, rank) ==
    LET old(i)     == z.node[update[i]].level[i]
        crossed(i) == rank[1] - rank[i]
        next       == old(1).forward
        new        == [score    |-> s,
                       backward |-> IF update[1] = HEADER THEN NULL ELSE update[1],
                       level    |-> [i \in 1 .. level |-> [forward |-> old(i).forward, span |-> old(i).span - crossed(i)]]]
        levels(n)  == [i \in DOMAIN z.node[n].level |->
                         CASE i > z.level \/ update[i] # n -> z.node[n].level[i]
                           [] i <= level                   -> [forward |-> e, span |-> crossed(i) + 1]
                           [] OTHER                        -> Above(old(i))]
    IN  [z EXCEPT !.node   = (e :> new) @@ [n \in DOMAIN @ |-> [@[n] EXCEPT !.level = levels(n),
                                                                  !.backward = IF n = next THEN e ELSE @]],
                  !.tail   = IF next = NULL THEN e ELSE @,
                  !.length = @ + 1]

(* zslRandomLevel: any level.                                              *)
zslInsert(z, s, e, level) ==
    LET at  == Search(z, ByNode(Before(z, s, e)))
        top == IF level > z.level THEN level ELSE z.level
    IN  LinkIn(Raise(z, level), e, s, level,
               [i \in 1 .. top |-> IF i <= z.level THEN at.update[i] ELSE HEADER],
               [i \in 1 .. top |-> IF i <= z.level THEN at.rank[i] ELSE 0])

(* Levels on which no node is left are given up.                           *)
Lowered(z) ==
    [z EXCEPT !.level = Max({1} \cup {i \in 1 .. z.level : z.node[HEADER].level[i].forward # NULL})]

zslDeleteNode(z, x, update) ==
    LET gone      == z.node[x]
        next      == gone.level[1].forward
        levels(n) == [i \in DOMAIN z.node[n].level |->
                        LET l == z.node[n].level[i]
                        IN  CASE i > z.level \/ update[i] # n -> l
                              [] l.forward = x -> [forward |-> gone.level[i].forward, span |-> l.span + gone.level[i].span - 1]
                              [] OTHER         -> [l EXCEPT !.span = @ - 1]]
    IN  Lowered([z EXCEPT !.node   = [n \in DOMAIN @ \ {x} |-> [@[n] EXCEPT !.level = levels(n),
                                                                  !.backward = IF n = next THEN gone.backward ELSE @]],
                          !.tail   = IF next = NULL THEN gone.backward ELSE @,
                          !.length = @ - 1])

zslDelete(z, s, e) ==
    LET at == Search(z, ByNode(Before(z, s, e)))
        x  == z.node[at.x].level[1].forward
    IN  IF x = e /\ z.node[x].score = s THEN zslDeleteNode(z, x, at.update) ELSE z

(* From the node after update[1] as long as the nodes are to go.           *)
RECURSIVE DeleteWhile(_, _, _)
DeleteWhile(z, update, these) ==
    LET x == z.node[update[1]].level[1].forward
    IN  IF x = NULL \/ x \notin these THEN z ELSE DeleteWhile(zslDeleteNode(z, x, update), update, these)

zslDeleteRangeByScore(z, r) ==
    DeleteWhile(z, Search(z, ByNode({n \in Members(z) : ~GteMin(z.node[n].score, r)})).update,
                {n \in Members(z) : LteMax(z.node[n].score, r)})

(* The first end - start + 1 nodes after the rank that the walk reached.   *)
RECURSIVE DeleteCount(_, _, _)
DeleteCount(z, update, n) ==
    LET x == z.node[update[1]].level[1].forward
    IN  IF x = NULL \/ n <= 0 THEN z ELSE DeleteCount(zslDeleteNode(z, x, update), update, n - 1)

zslDeleteRangeByRank(z, start, end) ==
    LET at == Search(z, ByRank(start - 1)) IN DeleteCount(z, at.update, end - at.traversed)

-----------------------------------------------------------------------------
(* What is looked up.  The level on which the walk first stands on the     *)
(* node ends it.                                                           *)
zslGetRank(z, s, e) ==
    LET at   == Search(z, ByNode(Before(z, s, e) \cup (IF e \in Members(z) /\ z.node[e].score = s THEN {e} ELSE {})))
        hits == {i \in 1 .. z.level : at.update[i] = e}
    IN  IF hits = {} THEN 0 ELSE at.rank[Max(hits)]

zslGetElementByRank(z, rank) ==
    LET at   == Search(z, ByRank(rank))
        hits == {i \in 1 .. z.level : at.rank[i] = rank}
    IN  IF hits = {} THEN NULL ELSE at.update[Max(hits)]

EmptyInterval(r) == r.min > r.max \/ (r.min = r.max /\ (r.minex \/ r.maxex))

zslIsInRange(z, r) ==
    /\ ~EmptyInterval(r)
    /\ z.tail # NULL /\ GteMin(z.node[z.tail].score, r)
    /\ LteMax(z.node[z.node[HEADER].level[1].forward].score, r)

zslFirstInRange(z, r) ==
    LET at == Search(z, ByNode({n \in Members(z) : ~GteMin(z.node[n].score, r)}))
        x  == z.node[at.x].level[1].forward
    IN  IF ~zslIsInRange(z, r) \/ ~LteMax(z.node[x].score, r) THEN NULL ELSE x

zslLastInRange(z, r) ==
    LET at == Search(z, ByNode({n \in Members(z) : LteMax(z.node[n].score, r)}))
    IN  IF ~zslIsInRange(z, r) \/ ~GteMin(z.node[at.x].score, r) THEN NULL ELSE at.x

-----------------------------------------------------------------------------
(* The ziplist: an element is at an odd place, its score is next.          *)
zzlLength(q) == Len(q) \div 2
ElementPlaces(q) == {i \in 1 .. Len(q) : i % 2 = 1}
FirstPlace(S) == IF S = {} THEN NULL ELSE Min(S)

zzlInsertAt(q, i, e, s) == IF i = NULL THEN q \o <<e, s>> ELSE InsertAt(InsertAt(q, i, e), i + 1, s)
zzlInsert(q, e, s) ==
    zzlInsertAt(q, FirstPlace({i \in ElementPlaces(q) : q[i + 1] > s \/ (q[i + 1] = s /\ q[i] > e)}), e, s)

zzlFind(q, e) == FirstPlace({i \in ElementPlaces(q) : q[i] = e})
zzlDelete(q, i) == RemoveAt(RemoveAt(q, i), i)

zzlIsInRange(q, r) ==
    ~EmptyInterval(r) /\ q # <<>> /\ GteMin(q[Len(q)], r) /\ LteMax(q[2], r)

zzlFirstInRange(q, r) ==
    LET i == FirstPlace({k \in ElementPlaces(q) : GteMin(q[k + 1], r)})
    IN  IF ~zzlIsInRange(q, r) \/ i = NULL THEN NULL ELSE IF LteMax(q[i + 1], r) THEN i ELSE NULL

zzlLastInRange(q, r) ==
    LET these == {k \in ElementPlaces(q) : LteMax(q[k + 1], r)}
    IN  IF ~zzlIsInRange(q, r) \/ these = {} THEN NULL
        ELSE IF GteMin(q[Max(these) + 1], r) THEN Max(these) ELSE NULL

(* Pairs from the first in range on, until a score is beyond it.           *)
zzlDeleteRangeByScore(q, r) ==
    LET from == zzlFirstInRange(q, r)
        stay == FirstPlace({k \in ElementPlaces(q) : k >= from /\ ~LteMax(q[k + 1], r)})
    IN  IF from = NULL THEN q
        ELSE SubSeq(q, 1, from - 1) \o (IF stay = NULL THEN <<>> ELSE SubSeq(q, stay, Len(q)))

(* ziplistDeleteRange stops at the end of the list.                        *)
zzlDeleteRangeByRank(q, start, end) ==
    SubSeq(q, 1, 2 * (start - 1)) \o SubSeq(q, 2 * end + 1, Len(q))

-----------------------------------------------------------------------------
(* The dict follows: the ranges delete from it what they delete from the   *)
(* skip list.                                                              *)
Restricted(z) == [e \in Members(z) |-> zdict[e]]

(* The callers look into the dict first; a new score is a deletion and an  *)
(* insertion.                                                              *)
ZsetAdd(e, s) ==
    /\ e \notin DOMAIN zdict
    /\ \E level \in 1 .. ZSKIPLIST_MAXLEVEL : zsl' = zslInsert(zsl, s, e, level)
    /\ zdict' = (e :> s) @@ zdict
    /\ zl' = zzlInsert(zl, e, s)

ZsetDelete(e) ==
    /\ e \in DOMAIN zdict
    /\ zsl' = zslDelete(zsl, zdict[e], e)
    /\ zdict' = [x \in DOMAIN zdict \ {e} |-> zdict[x]]
    /\ zl' = zzlDelete(zl, zzlFind(zl, e))

ZsetDeleteScores(r) ==
    /\ zsl' = zslDeleteRangeByScore(zsl, r)
    /\ zdict' = Restricted(zsl')
    /\ zl' = zzlDeleteRangeByScore(zl, r)

ZsetDeleteRanks(start, end) ==
    /\ start <= end /\ end <= zsl.length
    /\ zsl' = zslDeleteRangeByRank(zsl, start, end)
    /\ zdict' = Restricted(zsl')
    /\ zl' = zzlDeleteRangeByRank(zl, start, end)

ZsetInit == zsl = zslCreate /\ zdict = <<>> /\ zl = <<>>

ZsetNext ==
    \/ \E e \in Element, s \in Score : ZsetAdd(e, s)
    \/ \E e \in Element : ZsetDelete(e)
    \/ \E r \in Interval : ZsetDeleteScores(r)
    \/ \E start, end \in 1 .. Cardinality(Element) : ZsetDeleteRanks(start, end)

-----------------------------------------------------------------------------
(* The order of the set, and the rank of an element in it.                 *)
Ordered == SetToSortSeq(DOMAIN zdict, LAMBDA a, b : zdict[a] < zdict[b] \/ (zdict[a] = zdict[b] /\ a < b))
RankOf(n) == IF n = HEADER THEN 0 ELSE CHOOSE i \in 1 .. Len(Ordered) : Ordered[i] = n
InInterval(r) == {i \in 1 .. Len(Ordered) : GteMin(zdict[Ordered[i]], r) /\ LteMax(zdict[Ordered[i]], r)}
ElementAt(q, i) == IF i = NULL THEN NULL ELSE q[i]

(* Every level of the skip list links the nodes that reach it in the order *)
(* of scores and elements, each span is the distance of the ranks, also    *)
(* of the links that end the list, and the backward pointers are the       *)
(* reverse of the lowest level.                                            *)
SkipListIsLinked ==
    /\ DOMAIN zdict = Members(zsl) /\ zsl.length = Cardinality(Members(zsl))
    /\ \A n \in Members(zsl) : zsl.node[n].score = zdict[n]
    /\ zsl.tail = IF Ordered = <<>> THEN NULL ELSE Last(Ordered)
    /\ \A n \in DOMAIN zsl.node, i \in 1 .. zsl.level :
          i \in DOMAIN zsl.node[n].level =>
             LET later == {k \in RankOf(n) + 1 .. Len(Ordered) : i \in DOMAIN zsl.node[Ordered[k]].level}
                 link  == zsl.node[n].level[i]
             IN  /\ link.forward = IF later = {} THEN NULL ELSE Ordered[Min(later)]
                 /\ link.span = (IF later = {} THEN Len(Ordered) ELSE Min(later)) - RankOf(n)
    /\ \A n \in Members(zsl) : zsl.node[n].backward = IF RankOf(n) = 1 THEN NULL ELSE Ordered[RankOf(n) - 1]

(* Ranks and ranges, looked up by way of the levels and spans or in the    *)
(* ziplist, are those of the sorted set, so that the encoding does not     *)
(* show in any answer.                                                     *)
EncodingsAgree ==
    /\ zl = FlattenSeq([i \in 1 .. Len(Ordered) |-> <<Ordered[i], zdict[Ordered[i]]>>])
    /\ \A e \in DOMAIN zdict : zslGetRank(zsl, zdict[e], e) = RankOf(e)
    /\ \A i \in 1 .. Cardinality(Element) :
          zslGetElementByRank(zsl, i) = IF i <= Len(Ordered) THEN Ordered[i] ELSE NULL
    /\ \A r \in Interval :
          /\ zslFirstInRange(zsl, r) = IF InInterval(r) = {} THEN NULL ELSE Ordered[Min(InInterval(r))]
          /\ zslLastInRange(zsl, r) = IF InInterval(r) = {} THEN NULL ELSE Ordered[Max(InInterval(r))]
          /\ ElementAt(zl, zzlFirstInRange(zl, r)) = zslFirstInRange(zsl, r)
          /\ ElementAt(zl, zzlLastInRange(zl, r)) = zslLastInRange(zsl, r)
=============================================================================

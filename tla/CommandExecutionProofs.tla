----------------------- MODULE CommandExecutionProofs -----------------------
(***************************************************************************)
(* Theorems about CommandExecution.                                        *)
(***************************************************************************)
EXTENDS CommandExecution, SequenceLemmas

----------------------------------------------------------------------------
(* Key spaces *)

(* What a key may hold, when the elements are 1..n.                        *)
Values(n) == {v \in [str : BOOLEAN, list : Seq(1..n)] : v.str => v.list = <<>>}

(* No element is in two places.                                            *)
Distinct(d) ==
    \A k, l \in Key : \A i \in 1..Len(d[k].list), j \in 1..Len(d[l].list) :
        d[k].list[i] = d[l].list[j] => k = l /\ i = j

LEMMA KeySpaceValues ==
    ASSUME NEW n \in Nat
    PROVE  KeySpaces(n) = [Key -> Values(n)]
<1>1. ASSUME NEW d \in KeySpaces(n) PROVE d \in [Key -> Values(n)]
  BY DEF KeySpaces, Values
<1>2. ASSUME NEW d \in [Key -> Values(n)] PROVE d \in KeySpaces(n)
  BY DEF KeySpaces, Values
<1> QED
  BY <1>1, <1>2

LEMMA ValueFacts ==
    ASSUME NEW n \in Nat, NEW v \in Values(n)
    PROVE  /\ v.str \in BOOLEAN /\ v.list \in Seq(1..n) /\ Len(v.list) \in Nat
           /\ v = [str |-> v.str, list |-> v.list]
           /\ v.str => v.list = <<>>
           /\ v = Absent <=> ~v.str /\ v.list = <<>>
           /\ v.list # <<>> => Len(v.list) > 0
<1>1. v.str \in BOOLEAN /\ v.list \in Seq(1..n) /\ v = [str |-> v.str, list |-> v.list]
  BY DEF Values
<1>2. Len(v.list) \in Nat /\ (v.list # <<>> => Len(v.list) > 0)
  BY <1>1, LenProperties, EmptySeq
<1> QED
  BY <1>1, <1>2 DEF Values, Absent

LEMMA ValuesGrow ==
    ASSUME NEW n \in Nat
    PROVE  Values(n) \subseteq Values(n + 1) /\ KeySpaces(n) \subseteq KeySpaces(n + 1)
<1>1. 1..n \subseteq 1..(n + 1) /\ n + 1 \in Nat
  OBVIOUS
<1>2. Seq(1..n) \subseteq Seq(1..(n + 1))
  BY <1>1, SeqMonotonic
<1>3. Values(n) \subseteq Values(n + 1)
  BY <1>2 DEF Values
<1> QED
  BY <1>1, <1>3, KeySpaceValues

LEMMA SimpleValues ==
    ASSUME NEW n \in Nat
    PROVE  /\ Absent \in Values(n) /\ Absent.list = <<>> /\ ~Absent.str
           /\ String \in Values(n) /\ String.list = <<>>
           /\ \A s \in Seq(1..n) : List(s) \in Values(n) /\ List(s).list = s /\ ~List(s).str
<1>1. <<>> \in Seq(1..n)
  BY EmptySeq
<1> QED
  BY <1>1 DEF Absent, String, List, Values

LEMMA ElementsMember ==
    ASSUME NEW n \in Nat, NEW d \in KeySpaces(n), NEW e
    PROVE  e \in Elements(d) <=> \E k \in Key : \E i \in 1..Len(d[k].list) : d[k].list[i] = e
<1>1. \A k \in Key : d[k].list \in Seq(1..n)
  BY KeySpaceValues, ValueFacts
<1>2. \A k \in Key : e \in ToSet(d[k].list) <=> \E i \in 1..Len(d[k].list) : d[k].list[i] = e
  BY <1>1, ToSetMember
<1> QED
  BY <1>2 DEF Elements

----------------------------------------------------------------------------
(* Popping and pushing: the elements, and that none is in two places *)

(* r is d without the element at place p of key k.                         *)
WithoutPlace(d, r, k, p) ==
    /\ p \in 1..Len(d[k].list)
    /\ Len(r[k].list) = Len(d[k].list) - 1
    /\ \A i \in 1..Len(r[k].list) :
           r[k].list[i] = IF i < p THEN d[k].list[i] ELSE d[k].list[i + 1]
    /\ \A l \in Key : l # k => r[l] = d[l]

LEMMA WithoutPlaceFacts ==
    ASSUME NEW n \in Nat, NEW d \in KeySpaces(n), NEW r \in KeySpaces(n),
           NEW k \in Key, NEW p, WithoutPlace(d, r, k, p)
    PROVE  /\ Elements(d) = Elements(r) \cup {d[k].list[p]}
           /\ Distinct(d) <=> Distinct(r) /\ d[k].list[p] \notin Elements(r)
<1> DEFINE x == d[k].list[p]
<1>1. /\ p \in 1..Len(d[k].list)
      /\ Len(r[k].list) = Len(d[k].list) - 1
      /\ \A i \in 1..Len(r[k].list) : i < p => r[k].list[i] = d[k].list[i]
      /\ \A i \in 1..Len(r[k].list) : i >= p => r[k].list[i] = d[k].list[i + 1]
      /\ \A l \in Key : l # k => r[l] = d[l]
  <2>1. \A i, q \in Int : i >= q => ~(i < q)
    OBVIOUS
  <2>2. p \in Int /\ \A i \in 1..Len(r[k].list) : i \in Int
    BY DEF WithoutPlace
  <2>3. \A i \in 1..Len(r[k].list) : i >= p => ~(i < p)
    BY <2>1, <2>2
  <2> QED
    BY <2>3 DEF WithoutPlace
<1>2. \A l \in Key : Len(d[l].list) \in Nat /\ Len(r[l].list) \in Nat
  BY KeySpaceValues, ValueFacts
<1>3. \A e : e \in Elements(d) <=> \E l \in Key : \E i \in 1..Len(d[l].list) : d[l].list[i] = e
  BY ElementsMember
<1>4. \A e : e \in Elements(r) <=> \E l \in Key : \E i \in 1..Len(r[l].list) : r[l].list[i] = e
  BY ElementsMember
\* Each place of r is another place of d, and the other way round.
<1>5. ASSUME NEW l \in Key, NEW i \in 1..Len(r[l].list)
      PROVE  \/ l # k /\ i \in 1..Len(d[l].list) /\ r[l].list[i] = d[l].list[i]
             \/ l = k /\ i < p /\ i \in 1..Len(d[k].list) /\ r[l].list[i] = d[k].list[i]
             \/ l = k /\ i >= p /\ i + 1 \in 1..Len(d[k].list) /\ r[l].list[i] = d[k].list[i + 1]
  <2>1. CASE l # k
    BY <1>1, <1>5, <2>1
  <2>2. CASE l = k /\ i < p
    BY <1>1, <1>2, <1>5, <2>2
  <2>3. CASE l = k /\ i >= p
    BY <1>1, <1>2, <1>5, <2>3
  <2> QED
    BY <1>1, <1>2, <1>5, <2>1, <2>2, <2>3
<1>6. ASSUME NEW l \in Key, NEW i \in 1..Len(d[l].list)
      PROVE  \/ l # k /\ i \in 1..Len(r[l].list) /\ d[l].list[i] = r[l].list[i]
             \/ l = k /\ i = p
             \/ l = k /\ i < p /\ i \in 1..Len(r[k].list) /\ d[l].list[i] = r[k].list[i]
             \/ l = k /\ i > p /\ i - 1 \in 1..Len(r[k].list) /\ d[l].list[i] = r[k].list[i - 1]
  <2>1. CASE l # k
    BY <1>1, <1>6, <2>1
  <2>2. CASE l = k /\ i < p
    <3>1. i \in 1..Len(r[k].list)
      BY <1>1, <1>2, <1>6, <2>2
    <3> QED
      BY <1>1, <2>2, <3>1
  <2>3. CASE l = k /\ i > p
    <3>1. i - 1 \in 1..Len(r[k].list) /\ i - 1 >= p /\ (i - 1) + 1 = i
      BY <1>1, <1>2, <1>6, <2>3
    <3> QED
      BY <1>1, <2>3, <3>1
  <2> QED
    BY <1>1, <1>2, <1>6, <2>1, <2>2, <2>3
<1> HIDE DEF x
<1>7. ASSUME NEW e \in Elements(r) PROVE e \in Elements(d)
  BY <1>3, <1>4, <1>5, <1>7, ZenonT(60)
<1>8. x \in Elements(d)
  BY <1>1, <1>3 DEF x
<1>9. ASSUME NEW e \in Elements(d), e # x PROVE e \in Elements(r)
  <2>1. PICK l \in Key : \E i \in 1..Len(d[l].list) : d[l].list[i] = e
    BY <1>3, <1>9
  <2>2. PICK i \in 1..Len(d[l].list) : d[l].list[i] = e
    BY <2>1
  <2> QED
    BY <1>4, <1>6, <1>9, <2>2 DEF x
\* Where they go.
<1> DEFINE Up(l, i) == IF l = k /\ i >= p THEN i + 1 ELSE i
           Down(l, i) == IF l = k /\ i > p THEN i - 1 ELSE i
<1>10. ASSUME NEW l \in Key, NEW i \in 1..Len(r[l].list)
       PROVE  /\ Up(l, i) \in 1..Len(d[l].list)
              /\ r[l].list[i] = d[l].list[Up(l, i)]
              /\ \A j \in 1..Len(r[l].list) : Up(l, i) = Up(l, j) => i = j
  <2>1. p \in Int /\ Len(r[l].list) \in Nat
    BY <1>1, <1>2
  <2>2. Up(l, i) \in 1..Len(d[l].list) /\ r[l].list[i] = d[l].list[Up(l, i)]
    BY <1>5, <1>10, <2>1
  <2>3. \A j \in 1..Len(r[l].list) : Up(l, i) = Up(l, j) => i = j
    BY <1>10, <2>1
  <2> QED
    BY <2>2, <2>3
<1>11. ASSUME NEW l \in Key, NEW i \in 1..Len(d[l].list), ~(l = k /\ i = p)
       PROVE  /\ Down(l, i) \in 1..Len(r[l].list)
              /\ d[l].list[i] = r[l].list[Down(l, i)]
              /\ \A j \in 1..Len(d[l].list) : ~(l = k /\ j = p) /\ Down(l, i) = Down(l, j) => i = j
  <2>1. p \in Int /\ Len(d[l].list) \in Nat
    BY <1>1, <1>2
  <2>2. Down(l, i) \in 1..Len(r[l].list) /\ d[l].list[i] = r[l].list[Down(l, i)]
    BY <1>6, <1>11, <2>1
  <2>3. \A j \in 1..Len(d[l].list) : ~(l = k /\ j = p) /\ Down(l, i) = Down(l, j) => i = j
    BY <1>11, <2>1
  <2> QED
    BY <2>2, <2>3
<1> HIDE DEF Up, Down
<1>12. ASSUME Distinct(d) PROVE Distinct(r)
  <2> SUFFICES ASSUME NEW l \in Key, NEW m \in Key,
                      NEW i \in 1..Len(r[l].list), NEW j \in 1..Len(r[m].list),
                      r[l].list[i] = r[m].list[j]
               PROVE  l = m /\ i = j
    BY DEF Distinct
  <2>1. l = m /\ Up(l, i) = Up(m, j)
    <3>1. d[l].list[Up(l, i)] = d[m].list[Up(m, j)]
      BY <1>10
    <3>2. Up(l, i) \in 1..Len(d[l].list) /\ Up(m, j) \in 1..Len(d[m].list)
      BY <1>10
    <3> QED
      BY <1>12, <3>1, <3>2 DEF Distinct
  <2> QED
    BY <1>10, <2>1
<1>13. ASSUME Distinct(d), x \in Elements(r) PROVE FALSE
  <2>1. PICK l \in Key : \E i \in 1..Len(r[l].list) : r[l].list[i] = x
    BY <1>4, <1>13
  <2>2. PICK i \in 1..Len(r[l].list) : r[l].list[i] = x
    BY <2>1
  <2> QED
    BY <1>1, <1>2, <1>5, <1>13, <2>2 DEF Distinct, x
<1>14. ASSUME Distinct(r), x \notin Elements(r) PROVE Distinct(d)
  <2> SUFFICES ASSUME NEW l \in Key, NEW m \in Key,
                      NEW i \in 1..Len(d[l].list), NEW j \in 1..Len(d[m].list),
                      d[l].list[i] = d[m].list[j]
               PROVE  l = m /\ i = j
    BY DEF Distinct
  <2>1. \A y \in Key : \A z \in 1..Len(r[y].list) : r[y].list[z] # x
    BY <1>4, <1>14
  <2>2. CASE l = k /\ i = p
    BY <1>6, <2>1, <2>2 DEF x
  <2>3. CASE m = k /\ j = p
    BY <1>6, <2>1, <2>3 DEF x
  <2>4. CASE ~(l = k /\ i = p) /\ ~(m = k /\ j = p)
    <3>1. r[l].list[Down(l, i)] = r[m].list[Down(m, j)]
      BY <1>11, <2>4
    <3>2. Down(l, i) \in 1..Len(r[l].list) /\ Down(m, j) \in 1..Len(r[m].list)
      BY <1>11, <2>4
    <3>3. l = m /\ Down(l, i) = Down(m, j)
      BY <1>14, <3>1, <3>2 DEF Distinct
    <3> QED
      BY <1>11, <2>4, <3>3
  <2> QED
    BY <2>2, <2>3, <2>4
<1> QED
  BY <1>7, <1>8, <1>9, <1>12, <1>13, <1>14 DEF x

LEMMA PopHeadFacts ==
    ASSUME NEW n \in Nat, NEW d \in KeySpaces(n), NEW k \in Key, d[k].list # <<>>
    PROVE  /\ PopHead(k, d) \in KeySpaces(n)
           /\ Head(d[k].list) \in 1..n
           /\ \A l \in Key : l # k => PopHead(k, d)[l] = d[l]
           /\ Elements(d) = Elements(PopHead(k, d)) \cup {Head(d[k].list)}
           /\ Distinct(d) <=> /\ Distinct(PopHead(k, d))
                              /\ Head(d[k].list) \notin Elements(PopHead(k, d))
<1> DEFINE s == d[k].list
           r == PopHead(k, d)
<1>1. d \in [Key -> Values(n)] /\ s \in Seq(1..n) /\ s # <<>>
  BY KeySpaceValues, ValueFacts
<1> HIDE DEF s
<1>2. /\ Tail(s) \in Seq(1..n) /\ Len(Tail(s)) = Len(s) - 1 /\ Len(s) \in Nat /\ Len(s) > 0
      /\ Head(s) = s[1] /\ Head(s) \in 1..n
      /\ \A i \in 1..Len(s) - 1 : Tail(s)[i] = s[i + 1]
  BY <1>1, PopHeadSequence
<1>3. /\ r \in [Key -> Values(n)]
      /\ r[k].list = Tail(s)
      /\ \A l \in Key : l # k => r[l] = d[l]
  BY <1>1, <1>2, SimpleValues DEF PopHead, s
<1>4. r \in KeySpaces(n)
  BY <1>3, KeySpaceValues
<1> HIDE DEF r
<1>5. WithoutPlace(d, r, k, 1)
  <2>1. 1 \in 1..Len(s) /\ Len(s) - 1 \in Int
    BY <1>2
  <2>2. \A i \in 1..Len(s) - 1 : r[k].list[i] = IF i < 1 THEN s[i] ELSE s[i + 1]
    BY <1>2, <1>3, <2>1
  <2> QED
    BY <1>2, <1>3, <2>1, <2>2 DEF WithoutPlace, s
<1> QED
  BY <1>2, <1>3, <1>4, <1>5, WithoutPlaceFacts DEF r, s

LEMMA PopTailFacts ==
    ASSUME NEW n \in Nat, NEW d \in KeySpaces(n), NEW k \in Key, d[k].list # <<>>
    PROVE  /\ PopTail(k, d) \in KeySpaces(n)
           /\ Last(d[k].list) \in 1..n
           /\ \A l \in Key : l # k => PopTail(k, d)[l] = d[l]
           /\ Elements(d) = Elements(PopTail(k, d)) \cup {Last(d[k].list)}
           /\ Distinct(d) <=> /\ Distinct(PopTail(k, d))
                              /\ Last(d[k].list) \notin Elements(PopTail(k, d))
<1> DEFINE s == d[k].list
           r == PopTail(k, d)
<1>1. d \in [Key -> Values(n)] /\ s \in Seq(1..n) /\ s # <<>>
  BY KeySpaceValues, ValueFacts
<1> HIDE DEF s
<1>2. /\ Front(s) \in Seq(1..n) /\ Len(Front(s)) = Len(s) - 1 /\ Len(s) \in Nat /\ Len(s) > 0
      /\ Last(s) = s[Len(s)] /\ Last(s) \in 1..n
      /\ \A i \in 1..Len(s) - 1 : Front(s)[i] = s[i]
  BY <1>1, FrontProperties
<1>3. /\ r \in [Key -> Values(n)]
      /\ r[k].list = Front(s)
      /\ \A l \in Key : l # k => r[l] = d[l]
  BY <1>1, <1>2, SimpleValues DEF PopTail, s
<1>4. r \in KeySpaces(n)
  BY <1>3, KeySpaceValues
<1> HIDE DEF r
<1>5. WithoutPlace(d, r, k, Len(s))
  <2>1. Len(s) \in 1..Len(s) /\ Len(s) - 1 \in Int
    BY <1>2
  <2>2. \A i \in 1..Len(s) - 1 : r[k].list[i] = IF i < Len(s) THEN s[i] ELSE s[i + 1]
    BY <1>2, <1>3, <2>1
  <2> QED
    BY <1>2, <1>3, <2>1, <2>2 DEF WithoutPlace, s
<1> QED
  BY <1>2, <1>3, <1>4, <1>5, WithoutPlaceFacts DEF r, s

LEMMA PushHeadFacts ==
    ASSUME NEW n \in Nat, NEW d \in KeySpaces(n), NEW k \in Key, NEW e \in 1..n
    PROVE  /\ PushHead(k, e, d) \in KeySpaces(n)
           /\ PushHead(k, e, d)[k].list # <<>>
           /\ \A l \in Key : l # k => PushHead(k, e, d)[l] = d[l]
           /\ Elements(PushHead(k, e, d)) = Elements(d) \cup {e}
           /\ Distinct(PushHead(k, e, d)) <=> Distinct(d) /\ e \notin Elements(d)
<1> DEFINE s == d[k].list
           t == <<e>> \o s
           r == PushHead(k, e, d)
<1>1. d \in [Key -> Values(n)] /\ s \in Seq(1..n)
  BY KeySpaceValues, ValueFacts
<1> HIDE DEF s
<1>2. /\ t \in Seq(1..n) /\ Len(t) = Len(s) + 1 /\ Len(s) \in Nat
      /\ t # <<>> /\ t[1] = e
      /\ \A i \in 1..Len(s) : s[i] = t[i + 1]
  BY <1>1, PushHeadSequence
<1>3. /\ r \in [Key -> Values(n)]
      /\ r[k].list = t
      /\ \A l \in Key : l # k => r[l] = d[l]
  BY <1>1, <1>2, SimpleValues DEF PushHead, s
<1>4. r \in KeySpaces(n)
  BY <1>3, KeySpaceValues
<1> HIDE DEF r, t
<1>5. WithoutPlace(r, d, k, 1)
  <2>1. 1 \in 1..Len(t) /\ Len(s) = Len(t) - 1
    BY <1>2
  <2>2. \A i \in 1..Len(s) : s[i] = IF i < 1 THEN t[i] ELSE t[i + 1]
    <3>1. \A i \in 1..Len(s) : ~(i < 1)
      BY <1>2
    <3> QED
      BY <1>2, <3>1
  <2> QED
    BY <1>3, <2>1, <2>2 DEF WithoutPlace, s
<1> QED
  BY <1>2, <1>3, <1>4, <1>5, WithoutPlaceFacts DEF r, s

LEMMA PushTailFacts ==
    ASSUME NEW n \in Nat, NEW d \in KeySpaces(n), NEW k \in Key, NEW e \in 1..n
    PROVE  /\ PushTail(k, e, d) \in KeySpaces(n)
           /\ PushTail(k, e, d)[k].list # <<>>
           /\ \A l \in Key : l # k => PushTail(k, e, d)[l] = d[l]
           /\ Elements(PushTail(k, e, d)) = Elements(d) \cup {e}
           /\ Distinct(PushTail(k, e, d)) <=> Distinct(d) /\ e \notin Elements(d)
<1> DEFINE s == d[k].list
           t == Append(s, e)
           r == PushTail(k, e, d)
<1>1. d \in [Key -> Values(n)] /\ s \in Seq(1..n)
  BY KeySpaceValues, ValueFacts
<1> HIDE DEF s
<1>2. /\ t \in Seq(1..n) /\ Len(t) = Len(s) + 1 /\ Len(s) \in Nat
      /\ t # <<>> /\ t[Len(s) + 1] = e
      /\ \A i \in 1..Len(s) : s[i] = t[i]
  BY <1>1, PushTailSequence
<1>3. /\ r \in [Key -> Values(n)]
      /\ r[k].list = t
      /\ \A l \in Key : l # k => r[l] = d[l]
  BY <1>1, <1>2, SimpleValues DEF PushTail, s
<1>4. r \in KeySpaces(n)
  BY <1>3, KeySpaceValues
<1> HIDE DEF r, t
<1>5. WithoutPlace(r, d, k, Len(s) + 1)
  <2>1. Len(s) + 1 \in 1..Len(t) /\ Len(s) = Len(t) - 1
    BY <1>2
  <2>2. \A i \in 1..Len(s) : s[i] = IF i < Len(s) + 1 THEN t[i] ELSE t[i + 1]
    BY <1>2, <2>1
  <2> QED
    BY <1>3, <2>1, <2>2 DEF WithoutPlace, s
<1> QED
  BY <1>2, <1>3, <1>4, <1>5, WithoutPlaceFacts DEF r, s

\* Commands that keep, move or drop whole values bring in no element, and
\* put none in a second place.
LEMMA MovedValuesFacts ==
    ASSUME NEW n \in Nat, NEW d \in KeySpaces(n), NEW r \in [Key -> Values(n)],
           NEW from \in [Key -> Key],
           \A k \in Key : r[k].list # <<>> => r[k] = d[from[k]],
           \A k, l \in Key : r[k].list # <<>> /\ r[l].list # <<>> /\ from[k] = from[l] => k = l
    PROVE  /\ r \in KeySpaces(n)
           /\ Elements(r) \subseteq Elements(d)
           /\ Distinct(d) => Distinct(r)
<1>1. r \in KeySpaces(n)
  BY KeySpaceValues
<1>2. \A k \in Key : \A i \in 1..Len(r[k].list) : r[k].list # <<>>
  <2>1. \A k \in Key : r[k].list = <<>> => Len(r[k].list) = 0
    OBVIOUS
  <2>2. \A i : i \notin 1..0
    OBVIOUS
  <2> QED
    BY <2>1, <2>2
<1>3. ASSUME NEW e \in Elements(r) PROVE e \in Elements(d)
  <2>1. PICK k \in Key : \E i \in 1..Len(r[k].list) : r[k].list[i] = e
    BY <1>1, <1>3, ElementsMember
  <2>2. r[k] = d[from[k]] /\ from[k] \in Key
    BY <1>2, <2>1
  <2> QED
    BY <2>1, <2>2, ElementsMember
<1>4. ASSUME Distinct(d) PROVE Distinct(r)
  BY <1>2, <1>4 DEF Distinct
<1> QED
  BY <1>1, <1>3, <1>4

LEMMA RenameFacts ==
    ASSUME NEW n \in Nat, NEW d \in KeySpaces(n), NEW k \in Key, NEW dst \in Key, k # dst
    PROVE  /\ Rename(k, dst, d) \in KeySpaces(n)
           /\ Elements(Rename(k, dst, d)) \subseteq Elements(d)
           /\ Distinct(d) => Distinct(Rename(k, dst, d))
           /\ \A l \in Key : l # k /\ l # dst => Rename(k, dst, d)[l] = d[l]
<1> DEFINE r == Rename(k, dst, d)
           from == [l \in Key |-> IF l = dst THEN k ELSE l]
<1>1. d \in [Key -> Values(n)]
  BY KeySpaceValues
<1>2. r \in [Key -> Values(n)] /\ r[k].list = <<>> /\ r[dst] = d[k]
      /\ \A l \in Key : l # k /\ l # dst => r[l] = d[l]
  BY <1>1, SimpleValues DEF Rename
<1>3. from \in [Key -> Key] /\ \A l \in Key : r[l].list # <<>> => l # k /\ r[l] = d[from[l]]
  BY <1>2
<1>4. \A l, m \in Key : r[l].list # <<>> /\ r[m].list # <<>> /\ from[l] = from[m] => l = m
  BY <1>3
<1> HIDE DEF from, r
<1> QED
  BY <1>2, <1>3, <1>4, MovedValuesFacts DEF r

LEMMA DropFacts ==
    ASSUME NEW n \in Nat, NEW d \in KeySpaces(n), NEW r \in [Key -> Values(n)],
           \A k \in Key : r[k].list # <<>> => r[k] = d[k]
    PROVE  /\ r \in KeySpaces(n)
           /\ Elements(r) \subseteq Elements(d)
           /\ Distinct(d) => Distinct(r)
<1> DEFINE from == [l \in Key |-> l]
<1>1. from \in [Key -> Key] /\ \A l \in Key : from[l] = l
  OBVIOUS
<1> HIDE DEF from
<1> QED
  BY <1>1, MovedValuesFacts

----------------------------------------------------------------------------
(* Commands *)

(* What call and serveClientBlockedOnList send to the slave.               *)
Streamed == Command \cup {[name |-> n, key |-> k, dst |-> k] : n \in {"LPOP", "RPOP", "LPUSH"}, k \in Key}

LEMMA CommandFacts ==
    ASSUME NEW cmd \in Command
    PROVE  /\ cmd.name \in {"GET", "SAVE", "SET", "DEL", "FLUSHDB", "RENAME", "RPUSH", "BLPOP",
                            "BRPOPLPUSH"}
           /\ cmd.name \notin {"GET", "SAVE", "FLUSHDB"} => cmd.key \in Key /\ cmd.dst \in Key
           /\ cmd.name \in {"GET", "SAVE", "FLUSHDB"} => cmd.key = NoKey /\ cmd.dst = NoKey
           /\ cmd.name \in {"SET", "DEL", "RPUSH"} => cmd.dst = cmd.key
           /\ cmd # Unblocked
<1>1. /\ CommandNames \cap TwoKeys = {"RENAME", "BLPOP", "BRPOPLPUSH"}
      /\ CommandNames \cap OneKey = {"SET", "DEL", "RPUSH"}
      /\ CommandNames \cap NoKeys = {"GET", "SAVE", "FLUSHDB"}
  BY DEF CommandNames, TwoKeys, OneKey, NoKeys
<1>2. \/ cmd.name \in {"RENAME", "BLPOP", "BRPOPLPUSH"} /\ cmd.key \in Key /\ cmd.dst \in Key
      \/ cmd.name \in {"SET", "DEL", "RPUSH"} /\ cmd.key \in Key /\ cmd.dst = cmd.key
      \/ cmd.name \in {"GET", "SAVE", "FLUSHDB"} /\ cmd.key = NoKey /\ cmd.dst = NoKey
  BY <1>1 DEF Command, CommandOf
<1>3. cmd.name # ""
  BY <1>2
<1>4. Unblocked.name = ""
  BY DEF Unblocked
<1>5. cmd # Unblocked
  BY <1>3, <1>4
<1>6. CASE cmd.name \in {"RENAME", "BLPOP", "BRPOPLPUSH"} /\ cmd.key \in Key /\ cmd.dst \in Key
  BY <1>5, <1>6
<1>7. CASE cmd.name \in {"SET", "DEL", "RPUSH"} /\ cmd.key \in Key /\ cmd.dst = cmd.key
  BY <1>5, <1>7
<1>8. CASE cmd.name \in {"GET", "SAVE", "FLUSHDB"} /\ cmd.key = NoKey /\ cmd.dst = NoKey
  BY <1>5, <1>8
<1> QED
  BY <1>2, <1>6, <1>7, <1>8

LEMMA SentFacts ==
    /\ Sent \subseteq Command
    /\ \A cl \in Client : CommandOf(Names[cl]) \subseteq Sent
    /\ \A cmd \in Sent : \E cl \in Client : cmd.name \in Names[cl]
<1>1. \A cl \in Client : Names[cl] \subseteq CommandNames
  BY CommandAssumption
<1>2. UNION {Names[cl] : cl \in Client} \subseteq CommandNames
  BY <1>1
<1>3. \A a, b : a \subseteq b => CommandOf(a) \subseteq CommandOf(b)
  BY DEF CommandOf
<1>4. \A a : \A cmd \in CommandOf(a) : cmd.name \in a
  BY DEF CommandOf
<1> QED
  BY <1>2, <1>3, <1>4 DEF Sent, Command

\* Modifies and Effect, name by name.
LEMMA ModifiesByName ==
    ASSUME NEW cmd, NEW d
    PROVE  /\ cmd.name \in {"GET", "SAVE"} => ~Modifies(cmd, d)
           /\ cmd.name \in {"SET", "LPUSH"} => Modifies(cmd, d)
           /\ cmd.name = "DEL" => (Modifies(cmd, d) <=> d[cmd.key] # Absent)
           /\ cmd.name = "FLUSHDB" => (Modifies(cmd, d) <=> \E k \in Key : d[k] # Absent)
           /\ cmd.name = "RENAME" => (Modifies(cmd, d) <=> cmd.key # cmd.dst /\ d[cmd.key] # Absent)
           /\ cmd.name = "RPUSH" => (Modifies(cmd, d) <=> ~d[cmd.key].str)
           /\ cmd.name = "BLPOP" => (Modifies(cmd, d) <=> d[PopKey(cmd, d)].list # <<>>)
           /\ cmd.name \in {"LPOP", "RPOP"} => (Modifies(cmd, d) <=> d[cmd.key].list # <<>>)
           /\ cmd.name = "BRPOPLPUSH" => (Modifies(cmd, d) <=> d[cmd.key].list # <<>> /\ ~d[cmd.dst].str)
  BY DEF Modifies, ReadOnly

LEMMA EffectByName ==
    ASSUME NEW cmd, NEW e, NEW d
    PROVE  /\ ~Modifies(cmd, d) => Effect(cmd, e, d) = d
           /\ Modifies(cmd, d) =>
                /\ cmd.name = "SET" => Effect(cmd, e, d) = SetString(cmd.key, d)
                /\ cmd.name = "DEL" => Effect(cmd, e, d) = Delete(cmd.key, d)
                /\ cmd.name = "FLUSHDB" => Effect(cmd, e, d) = Flush
                /\ cmd.name = "RENAME" => Effect(cmd, e, d) = Rename(cmd.key, cmd.dst, d)
                /\ cmd.name = "RPUSH" => Effect(cmd, e, d) = PushTail(cmd.key, e, d)
                /\ cmd.name = "LPUSH" => Effect(cmd, e, d) = PushHead(cmd.key, e, d)
                /\ cmd.name \in {"LPOP", "BLPOP"} => Effect(cmd, e, d) = PopHead(PopKey(cmd, d), d)
                /\ cmd.name = "RPOP" => Effect(cmd, e, d) = PopTail(cmd.key, d)
                /\ cmd.name = "BRPOPLPUSH" => Effect(cmd, e, d) = Move(cmd.key, cmd.dst, d)
  BY DEF Effect

LEMMA MoveFacts ==
    ASSUME NEW n \in Nat, NEW d \in KeySpaces(n), NEW k \in Key, NEW dst \in Key, d[k].list # <<>>
    PROVE  /\ Move(k, dst, d) \in KeySpaces(n)
           /\ Elements(Move(k, dst, d)) = Elements(d)
           /\ Distinct(d) => Distinct(Move(k, dst, d))
           /\ \A l \in Key : l # k /\ l # dst => Move(k, dst, d)[l] = d[l]
<1> DEFINE r == PopTail(k, d)
           e == Last(d[k].list)
<1>1. /\ r \in KeySpaces(n) /\ e \in 1..n
      /\ Elements(d) = Elements(r) \cup {e}
      /\ Distinct(d) => Distinct(r) /\ e \notin Elements(r)
      /\ \A l \in Key : l # k => r[l] = d[l]
      /\ Move(k, dst, d) = PushHead(dst, e, r)
  BY PopTailFacts DEF Move
<1> HIDE DEF r, e
<1>2. /\ PushHead(dst, e, r) \in KeySpaces(n)
      /\ \A l \in Key : l # dst => PushHead(dst, e, r)[l] = r[l]
      /\ Elements(PushHead(dst, e, r)) = Elements(r) \cup {e}
      /\ Distinct(PushHead(dst, e, r)) <=> Distinct(r) /\ e \notin Elements(r)
  BY <1>1, PushHeadFacts
<1> QED
  BY <1>1, <1>2

\* A command executed with an element that is no place yet.
LEMMA EffectFacts ==
    ASSUME NEW n \in Nat, NEW d \in KeySpaces(n), NEW cmd \in Command
    PROVE  LET r    == Effect(cmd, n + 1, d)
               push == cmd.name = "RPUSH" /\ Modifies(cmd, d)
           IN  /\ push => r \in KeySpaces(n + 1) /\ Elements(r) = Elements(d) \cup {n + 1}
               /\ ~push => r \in KeySpaces(n) /\ Elements(r) \subseteq Elements(d)
               /\ Distinct(d) /\ n + 1 \notin Elements(d) => Distinct(r)
<1> DEFINE r == Effect(cmd, n + 1, d)
           push == cmd.name = "RPUSH" /\ Modifies(cmd, d)
           Goal == /\ push => r \in KeySpaces(n + 1) /\ Elements(r) = Elements(d) \cup {n + 1}
                   /\ ~push => r \in KeySpaces(n) /\ Elements(r) \subseteq Elements(d)
                   /\ Distinct(d) /\ n + 1 \notin Elements(d) => Distinct(r)
<1> SUFFICES Goal
  OBVIOUS
<1>1. /\ d \in [Key -> Values(n)] /\ n + 1 \in Nat /\ n + 1 \in 1..(n + 1)
      /\ d \in KeySpaces(n + 1)
  BY KeySpaceValues, ValuesGrow
<1>2. CASE ~Modifies(cmd, d)
  BY <1>2, EffectByName
<1>3. CASE Modifies(cmd, d) /\ cmd.name = "RPUSH"
  <2>1. r = PushTail(cmd.key, n + 1, d) /\ cmd.key \in Key
    BY <1>3, EffectByName, CommandFacts
  <2> HIDE DEF r
  <2> QED
    BY <1>1, <1>3, <2>1, PushTailFacts
<1>4. CASE Modifies(cmd, d) /\ cmd.name \in {"SET", "DEL"}
  <2>1. r \in {SetString(cmd.key, d), Delete(cmd.key, d)} /\ cmd.key \in Key
    BY <1>4, EffectByName, CommandFacts
  <2>2. r \in [Key -> Values(n)] /\ \A k \in Key : r[k].list # <<>> => r[k] = d[k]
    BY <1>1, <2>1, SimpleValues DEF SetString, Delete
  <2> HIDE DEF r
  <2> QED
    BY <1>4, <2>2, DropFacts
<1>5. CASE Modifies(cmd, d) /\ cmd.name = "FLUSHDB"
  <2>1. r = Flush
    BY <1>5, EffectByName
  <2>2. r \in [Key -> Values(n)] /\ \A k \in Key : r[k].list # <<>> => r[k] = d[k]
    BY <2>1, SimpleValues DEF Flush
  <2> HIDE DEF r
  <2> QED
    BY <1>5, <2>2, DropFacts
<1>6. CASE Modifies(cmd, d) /\ cmd.name = "RENAME"
  <2>1. r = Rename(cmd.key, cmd.dst, d) /\ cmd.key \in Key /\ cmd.dst \in Key /\ cmd.key # cmd.dst
    BY <1>6, EffectByName, ModifiesByName, CommandFacts
  <2> HIDE DEF r
  <2> QED
    BY <1>6, <2>1, RenameFacts
<1>7. CASE Modifies(cmd, d) /\ cmd.name = "BLPOP"
  <2>1. /\ r = PopHead(PopKey(cmd, d), d)
        /\ PopKey(cmd, d) \in Key
        /\ d[PopKey(cmd, d)].list # <<>>
    BY <1>7, EffectByName, ModifiesByName, CommandFacts DEF PopKey
  <2> HIDE DEF r
  <2> QED
    BY <1>7, <2>1, PopHeadFacts
<1>8. CASE Modifies(cmd, d) /\ cmd.name = "BRPOPLPUSH"
  <2>1. /\ r = Move(cmd.key, cmd.dst, d) /\ cmd.key \in Key /\ cmd.dst \in Key
        /\ d[cmd.key].list # <<>>
    BY <1>8, EffectByName, ModifiesByName, CommandFacts
  <2> HIDE DEF r
  <2> QED
    BY <1>8, <2>1, MoveFacts
<1>9. cmd.name \in {"GET", "SAVE"} => ~Modifies(cmd, d)
  BY ModifiesByName
<1> HIDE DEF Goal
<1> QED
  BY <1>2, <1>3, <1>4, <1>5, <1>6, <1>7, <1>8, <1>9, CommandFacts

\* Which keys a command changes, and the lists that appear.
LEMMA EffectChanges ==
    ASSUME NEW n \in Nat, NEW d \in KeySpaces(n), NEW cmd \in Command, NEW k \in Key
    PROVE  LET r == Effect(cmd, n + 1, d)
           IN  /\ r[k] # d[k] =>
                    /\ Modifies(cmd, d)
                    /\ cmd.name = "FLUSHDB" => d[k] # Absent
                    /\ cmd.name = "BLPOP" => k = PopKey(cmd, d)
                    /\ cmd.name \notin {"FLUSHDB", "BLPOP"} => k \in {cmd.key, cmd.dst}
               /\ r[k].list # <<>> /\ d[k].list = <<>> /\ cmd.name # "RENAME" =>
                    /\ Modifies(cmd, d) /\ d[k] = Absent
                    /\ \/ cmd.name = "RPUSH" /\ k = cmd.key
                       \/ cmd.name = "BRPOPLPUSH" /\ k = cmd.dst
<1> DEFINE r == Effect(cmd, n + 1, d)
           Changes == /\ Modifies(cmd, d)
                      /\ cmd.name = "FLUSHDB" => d[k] # Absent
                      /\ cmd.name = "BLPOP" => k = PopKey(cmd, d)
                      /\ cmd.name \notin {"FLUSHDB", "BLPOP"} => k \in {cmd.key, cmd.dst}
           Appears == /\ Modifies(cmd, d) /\ d[k] = Absent
                      /\ \/ cmd.name = "RPUSH" /\ k = cmd.key
                         \/ cmd.name = "BRPOPLPUSH" /\ k = cmd.dst
           Goal == /\ r[k] # d[k] => Changes
                   /\ r[k].list # <<>> /\ d[k].list = <<>> /\ cmd.name # "RENAME" => Appears
<1> SUFFICES Goal
  OBVIOUS
<1>1. /\ d \in [Key -> Values(n)] /\ n + 1 \in Nat /\ n + 1 \in 1..(n + 1)
      /\ d \in KeySpaces(n + 1)
  BY KeySpaceValues, ValuesGrow
<1>2. d[k] = Absent <=> ~d[k].str /\ d[k].list = <<>>
  BY <1>1, ValueFacts
<1>3. CASE ~Modifies(cmd, d)
  BY <1>3, EffectByName
<1>4. CASE Modifies(cmd, d) /\ cmd.name = "RPUSH"
  <2>1. r = PushTail(cmd.key, n + 1, d) /\ cmd.key \in Key /\ ~d[cmd.key].str
    BY <1>4, EffectByName, ModifiesByName, CommandFacts
  <2>2. \A l \in Key : l # cmd.key => r[l] = d[l]
    BY <1>1, <2>1, PushTailFacts
  <2> HIDE DEF r
  <2> QED
    BY <1>2, <1>4, <2>1, <2>2
<1>5. CASE Modifies(cmd, d) /\ cmd.name \in {"SET", "DEL"}
  <2>1. r \in {SetString(cmd.key, d), Delete(cmd.key, d)} /\ cmd.key \in Key
    BY <1>5, EffectByName, CommandFacts
  <2>2. \A l \in Key : (l # cmd.key => r[l] = d[l]) /\ (l = cmd.key => r[l].list = <<>>)
    BY <1>1, <2>1, SimpleValues DEF SetString, Delete
  <2> HIDE DEF r
  <2> QED
    BY <1>5, <2>1, <2>2
<1>6. CASE Modifies(cmd, d) /\ cmd.name = "FLUSHDB"
  <2>1. r = Flush
    BY <1>6, EffectByName
  <2>2. r[k] = Absent /\ Absent.list = <<>>
    BY <2>1, SimpleValues DEF Flush
  <2> HIDE DEF r
  <2> QED
    BY <1>6, <2>2
<1>7. CASE Modifies(cmd, d) /\ cmd.name = "RENAME"
  <2>1. r = Rename(cmd.key, cmd.dst, d) /\ cmd.key \in Key /\ cmd.dst \in Key /\ cmd.key # cmd.dst
    BY <1>7, EffectByName, ModifiesByName, CommandFacts
  <2>2. \A l \in Key : l # cmd.key /\ l # cmd.dst => r[l] = d[l]
    BY <2>1, RenameFacts
  <2> HIDE DEF r
  <2> QED
    BY <1>7, <2>2
<1>8. CASE Modifies(cmd, d) /\ cmd.name = "BLPOP"
  <2>1. /\ r = PopHead(PopKey(cmd, d), d)
        /\ PopKey(cmd, d) \in Key
        /\ d[PopKey(cmd, d)].list # <<>>
    BY <1>8, EffectByName, ModifiesByName, CommandFacts DEF PopKey
  <2>2. \A l \in Key : l # PopKey(cmd, d) => r[l] = d[l]
    BY <2>1, PopHeadFacts
  <2> HIDE DEF r
  <2> QED
    BY <1>8, <2>1, <2>2
<1>9. CASE Modifies(cmd, d) /\ cmd.name = "BRPOPLPUSH"
  <2>1. /\ r = Move(cmd.key, cmd.dst, d) /\ cmd.key \in Key /\ cmd.dst \in Key
        /\ d[cmd.key].list # <<>> /\ ~d[cmd.dst].str
    BY <1>9, EffectByName, ModifiesByName, CommandFacts
  <2>2. \A l \in Key : l # cmd.key /\ l # cmd.dst => r[l] = d[l]
    BY <2>1, MoveFacts
  <2> HIDE DEF r
  <2> QED
    BY <1>2, <1>9, <2>1, <2>2
<1>10. cmd.name \in {"GET", "SAVE"} => ~Modifies(cmd, d)
  BY ModifiesByName
<1> HIDE DEF Goal
<1> QED
  BY <1>3, <1>4, <1>5, <1>6, <1>7, <1>8, <1>9, <1>10, CommandFacts

\* The slave's key space stays one, whatever it is sent.
LEMMA EffectType ==
    ASSUME NEW n \in Nat, NEW d \in KeySpaces(n), NEW cmd \in Streamed, NEW e,
           cmd.name \in {"RPUSH", "LPUSH"} => e \in 1..n
    PROVE  Effect(cmd, e, d) \in KeySpaces(n)
<1>1. d \in [Key -> Values(n)]
  BY KeySpaceValues
<1>2. CASE cmd \notin Command
  <2>1. cmd.name \in {"LPOP", "RPOP", "LPUSH"} /\ cmd.key \in Key /\ PopKey(cmd, d) = cmd.key
    BY <1>2 DEF Streamed, PopKey
  <2> QED
    BY <1>2, <2>1, EffectByName, ModifiesByName, PopHeadFacts, PopTailFacts, PushHeadFacts
<1>3. CASE cmd \in Command /\ cmd.name = "RPUSH"
  <2>1. cmd.key \in Key
    BY <1>3, CommandFacts
  <2> QED
    BY <1>3, <2>1, EffectByName, PushTailFacts
<1>4. CASE cmd \in Command /\ cmd.name # "RPUSH"
  <2>1. Effect(cmd, n + 1, d) \in KeySpaces(n)
    BY <1>4, EffectFacts
  <2>2. cmd.name # "LPUSH"
    BY <1>4, CommandFacts
  <2>3. Effect(cmd, e, d) = Effect(cmd, n + 1, d)
    BY <1>4, <2>2, CommandFacts, ModifiesByName, EffectByName
  <2> QED
    BY <2>1, <2>3
<1> QED
  BY <1>2, <1>3, <1>4

LEMMA RewrittenFacts ==
    ASSUME NEW n \in Nat, data \in KeySpaces(n), NEW cmd \in Command, NEW e
    PROVE  /\ Rewritten(cmd) \in Streamed
           /\ Rewritten(cmd).name \notin {"LPUSH", "RPOP"}
           /\ Rewritten(cmd).name = "RPUSH" <=> cmd.name = "RPUSH"
           /\ Effect(Rewritten(cmd), e, data) = Effect(cmd, e, data)
<1>1. CASE cmd.name # "BLPOP"
  BY <1>1, CommandFacts DEF Rewritten, Streamed
<1>2. CASE cmd.name = "BLPOP"
  <2> DEFINE k == PopKey(cmd, data)
             pop == [name |-> "LPOP", key |-> k, dst |-> k]
  <2>1. k \in Key
    BY <1>2, CommandFacts DEF PopKey
  <2>2. Rewritten(cmd) = pop /\ pop \in Streamed /\ pop.name = "LPOP" /\ pop.key = k
    BY <1>2, <2>1 DEF Rewritten, Streamed
  <2>3. PopKey(pop, data) = k
    BY DEF PopKey
  <2> HIDE DEF k, pop
  <2>4. Modifies(pop, data) <=> Modifies(cmd, data)
    BY <1>2, <2>2, ModifiesByName DEF k
  <2>5. Effect(pop, e, data) = Effect(cmd, e, data)
    BY <1>2, <2>2, <2>3, <2>4, EffectByName DEF k
  <2> QED
    BY <1>2, <2>2, <2>5
<1> QED
  BY <1>1, <1>2

LEMMA DirtyFacts ==
    ASSUME NEW n \in Nat, data \in KeySpaces(n), dirty \in Nat, NEW cmd \in Command
    PROVE  /\ DirtyAfter(cmd) \in Nat
           /\ cmd.name # "SAVE" => /\ DirtyAfter(cmd) >= dirty
                                   /\ DirtyAfter(cmd) = dirty <=> ~Modifies(cmd, data)
           /\ DirtyAfter(cmd) # dirty /\ cmd.name = "RPUSH" => Modifies(cmd, data)
<1>1. CASE cmd.name = "SAVE"
  BY <1>1 DEF DirtyAfter
<1>2. CASE cmd.name = "FLUSHDB"
  <2> DEFINE S == {k \in Key : data[k] # Absent}
  <2>1. IsFiniteSet(S)
    BY CommandAssumption, FS_Subset
  <2>2. Cardinality(S) \in Nat /\ (Cardinality(S) = 0 <=> S = {})
    BY <2>1, FS_CardinalityType, FS_EmptySet
  <2>3. DirtyAfter(cmd) = dirty + Cardinality(S)
    BY <1>2 DEF DirtyAfter
  <2>4. S = {} <=> ~Modifies(cmd, data)
    BY <1>2, ModifiesByName
  <2> HIDE DEF S
  <2> QED
    BY <1>2, <2>2, <2>3, <2>4
<1>3. CASE cmd.name \notin {"SAVE", "FLUSHDB"}
  <2>1. DirtyAfter(cmd) = dirty + (IF Modifies(cmd, data) THEN 1 ELSE 0)
    BY <1>3 DEF DirtyAfter
  <2> QED
    BY <1>3, <2>1
<1> QED
  BY <1>1, <1>2, <1>3

----------------------------------------------------------------------------
(* What the parts of the steps do *)

LEMMA SignalFacts ==
    ASSUME TypeOK, NEW keys \in SUBSET Key, signalListAsReady(keys)
    PROVE  /\ ready_keys' \in Seq(Key)
           /\ ToSet(ready_keys') =
                ToSet(ready_keys) \cup {k \in keys : /\ blocking_keys[k] # <<>>
                                                    /\ k \notin ToSet(ready_keys) \cup ToSet(handling)}
<1> DEFINE news == {k \in keys : /\ blocking_keys[k] # <<>>
                                 /\ k \notin ToSet(ready_keys) \cup ToSet(handling)}
<1>1. IsFiniteSet(news) /\ news \subseteq Key
  BY CommandAssumption, FS_Subset
<1>2. ready_keys' = ready_keys \o SetToSeq(news)
  BY DEF signalListAsReady
<1> HIDE DEF news
<1>3. SetToSeq(news) \in Seq(news) /\ ToSet(SetToSeq(news)) = news
  BY <1>1, SetToSeqOfSet
<1>4. SetToSeq(news) \in Seq(Key) /\ ready_keys \in Seq(Key)
  BY <1>1, <1>3, SeqMonotonic DEF TypeOK
<1>5. ready_keys \o SetToSeq(news) \in Seq(Key)
  BY <1>4, ConcatProperties
<1>6. ToSet(ready_keys \o SetToSeq(news)) = ToSet(ready_keys) \cup news
  BY <1>3, <1>4, ToSetConcat
<1> QED
  BY <1>2, <1>5, <1>6 DEF news

LEMMA FeedFacts ==
    ASSUME NEW n \in Nat, rdata \in KeySpaces(n), rnext \in KeySpaces(n), rmulti \in BOOLEAN,
           NEW cmd \in Streamed, NEW e, NEW feeds \in BOOLEAN,
           feeds /\ cmd.name \in {"RPUSH", "LPUSH"} => e \in 1..n,
           (Feed(cmd, e) /\ feeds) \/ FeedMultiAnd(cmd, e, feeds)
    PROVE  rdata' \in KeySpaces(n) /\ rnext' \in KeySpaces(n) /\ rmulti' \in BOOLEAN
<1>1. feeds => Effect(cmd, e, rnext) \in KeySpaces(n)
  BY EffectType
<1> QED
  BY <1>1 DEF Feed, FeedMultiAnd

LEMMA CallFacts ==
    ASSUME TypeOK, NEW cmd \in Sent, CallProc(cmd)
    PROVE  /\ elems' \in Nat /\ {data', rdata, rnext} \subseteq KeySpaces(elems')
           /\ dirty' \in Nat /\ gone' \subseteq 1..elems'
           /\ dirty' # dirty /\ cmd.name = "RPUSH" => elems + 1 \in 1..elems'
           /\ dirty_cas' \in [Client -> BOOLEAN]
           /\ watched' = watched /\ watched_keys' = watched_keys /\ changed' \in [Client -> SUBSET Key]
           /\ ready_keys' \in Seq(Key)
<1> DEFINE push == cmd.name = "RPUSH" /\ Modifies(cmd, data)
<1>1. cmd \in Command
  BY SentFacts
<1>2. /\ elems \in Nat /\ data \in KeySpaces(elems) /\ rdata \in KeySpaces(elems)
      /\ rnext \in KeySpaces(elems) /\ gone \subseteq 1..elems /\ dirty \in Nat
  BY DEF TypeOK
<1>3. /\ data' = Effect(cmd, elems + 1, data)
      /\ elems' = IF push THEN elems + 1 ELSE elems
      /\ dirty' = DirtyAfter(cmd)
      /\ gone' \subseteq gone \cup Elements(data)
  BY DEF CallProc
<1>4. /\ push => data' \in KeySpaces(elems + 1)
      /\ ~push => data' \in KeySpaces(elems)
  BY <1>1, <1>2, <1>3, EffectFacts
<1>5. elems' \in Nat /\ {data', rdata, rnext} \subseteq KeySpaces(elems') /\ 1..elems \subseteq 1..elems'
  <2>1. CASE push
    BY <1>2, <1>3, <1>4, <2>1, ValuesGrow
  <2>2. CASE ~push
    BY <1>2, <1>3, <1>4, <2>2
  <2> QED
    BY <2>1, <2>2
<1>6. dirty' \in Nat /\ (dirty' # dirty /\ cmd.name = "RPUSH" => push)
  BY <1>1, <1>2, <1>3, DirtyFacts
<1>7. Elements(data) \subseteq 1..elems
  <2>1. ASSUME NEW e \in Elements(data) PROVE e \in 1..elems
    <3>1. PICK k \in Key : \E i \in 1..Len(data[k].list) : data[k].list[i] = e
      BY <1>2, ElementsMember
    <3>2. data[k].list \in Seq(1..elems)
      BY <1>2, KeySpaceValues, ValueFacts
    <3> QED
      BY <3>1, <3>2, ElementOfSeq
  <2> QED
    BY <2>1
<1>8. dirty_cas' \in [Client -> BOOLEAN]
  BY DEF CallProc, touchWatchedKey, TypeOK
<1>9. watched' = watched /\ watched_keys' = watched_keys /\ changed' \in [Client -> SUBSET Key]
  BY DEF CallProc, ChangeWatched, TypeOK
<1>10. ready_keys' \in Seq(Key)
  <2>1. CreatedList(cmd) \in SUBSET Key /\ signalListAsReady(CreatedList(cmd))
    BY DEF CallProc, CreatedList
  <2> QED
    BY <2>1, SignalFacts
<1> HIDE DEF push
<1>11. dirty' # dirty /\ cmd.name = "RPUSH" => elems + 1 \in 1..elems'
  BY <1>2, <1>3, <1>6
<1> QED
  BY <1>2, <1>3, <1>5, <1>6, <1>7, <1>8, <1>9, <1>10, <1>11

\* The first of the keys to serve is taken from the list it is in.
LEMMA NextReadyFacts ==
    ASSUME TypeOK, NextReadyKey
    PROVE  /\ serving' \in Key /\ handling' \in Seq(Key) /\ ready_keys' \in Seq(Key)
           /\ left' = NumClients(serving') /\ left' \in Nat
           /\ ToSet(ready_keys) \cup ToSet(handling)
                \subseteq ToSet(ready_keys') \cup ToSet(handling') \cup {serving'}
           /\ ToSet(ready_keys') \cup ToSet(handling') \cup {serving'}
                \subseteq ToSet(ready_keys) \cup ToSet(handling)
<1> DEFINE l == IF handling # <<>> THEN handling ELSE ready_keys
<1>1. handling \in Seq(Key) /\ ready_keys \in Seq(Key)
  BY DEF TypeOK
<1>2. l \in Seq(Key) /\ l # <<>>
  BY <1>1, ConcatEmptySeq DEF NextReadyKey
<1>3. serving' = Head(l) /\ handling' = Tail(l) /\ left' = NumClients(Head(l))
      /\ ready_keys' = IF handling # <<>> THEN ready_keys ELSE <<>>
  BY DEF NextReadyKey
<1>4. handling # <<>> \/ ToSet(handling) = {}
  BY ToSetEmpty
<1>5. ToSet(ready_keys') \cup ToSet(l) = ToSet(ready_keys) \cup ToSet(handling)
  BY <1>3, <1>4, ToSetEmpty
<1> HIDE DEF l
<1>6. Head(l) \in Key /\ Tail(l) \in Seq(Key) /\ ToSet(l) = {Head(l)} \cup ToSet(Tail(l))
  BY <1>2, PopHeadSequence, ToSetHeadTail
<1>7. \A k \in Key : NumClients(k) \in Nat
  BY LenProperties DEF NumClients, TypeOK
<1> QED
  BY <1>1, <1>3, <1>5, <1>6, <1>7, EmptySeq

LEMMA LeaveFacts ==
    ASSUME TypeOK, NEW c \in Client, LeaveBlockingKeys(c)
    PROVE  /\ blocked' = [blocked EXCEPT ![c] = Unblocked]
           /\ blocked' \in [Client -> {Unblocked} \cup
                                {cmd \in Sent : cmd.name \in {"BLPOP", "BRPOPLPUSH"}}]
           /\ bpop_keys' \in [Client -> SUBSET Key]
           /\ blocking_keys' \in [Key -> Seq(Client)]
<1>1. blocking_keys' \in [Key -> Seq(Client)]
  BY RemoveFirstType DEF LeaveBlockingKeys, TypeOK
<1> QED
  BY <1>1 DEF LeaveBlockingKeys, TypeOK

LEMMA DiscardFacts ==
    ASSUME TypeOK, NEW c \in Client, discardTransaction(c)
    PROVE  /\ multi' \in [Client -> BOOLEAN] /\ queue' \in [Client -> Seq(Sent)]
           /\ dirty_exec' \in [Client -> BOOLEAN] /\ refused' \in [Client -> BOOLEAN]
           /\ dirty_cas' \in [Client -> BOOLEAN] /\ watched' \in [Client -> SUBSET Key]
           /\ watched_keys' \in [Key -> SUBSET Client] /\ changed' \in [Client -> SUBSET Key]
  BY EmptySeq DEF TypeOK, discardTransaction, ClearTransaction, unwatchAllKeys

----------------------------------------------------------------------------
(* Type correctness and the control of the thread *)

TypeInv == TypeOK /\ ControlInv

\* The state at startup.
LEMMA TypeInit == Init => TypeInv
<1> SUFFICES ASSUME Init PROVE TypeInv
  OBVIOUS
<1>1. data = [k \in Key |-> Absent] /\ rdata = data /\ rnext = data /\ elems = 0
  BY DEF Init
<1>2. data \in KeySpaces(0)
  BY <1>1, SimpleValues, KeySpaceValues
<1>3. \A S : <<>> \in Seq(S)
  BY EmptySeq
<1>4. {data, rdata, rnext} \subseteq KeySpaces(elems)
  BY <1>1, <1>2
<1>5. /\ queue \in [Client -> Seq(Sent)] /\ todo \in Seq(Sent) /\ blocking_keys \in [Key -> Seq(Client)]
      /\ unblocked_clients \in Seq(Client) /\ ready_keys \in Seq(Key) /\ handling \in Seq(Key)
  BY <1>3 DEF Init
<1>6. TypeOK
  BY <1>4, <1>5 DEF Init, TypeOK
<1>7. ControlInv
  BY DEF Init, ControlInv
<1> QED
  BY <1>6, <1>7 DEF TypeInv

\* Every step keeps the variables in their types, and the thread where it is.
LEMMA TypeStep ==
    ASSUME TypeInv, [Next]_vars
    PROVE  TypeInv'
<1> USE DEF TypeInv, TypeOK, ControlInv, dataVars, slaveVars, multiVars, watchVars, blockVars,
            execVars, serveVars
<1>1. ASSUME NEW c \in Client, multiCommand(c) \/ flagTransaction(c) \/ createClient(c)
      PROVE  TypeInv'
  BY <1>1 DEF multiCommand, flagTransaction, createClient
<1>2. ASSUME NEW c \in Client, discardCommand(c) \/ ExecAborts(c) PROVE TypeInv'
  <2>1. discardTransaction(c)
    BY <1>2 DEF discardCommand, ExecAborts
  <2> QED
    BY <1>2, <2>1, DiscardFacts DEF discardCommand, ExecAborts
<1>3. ASSUME NEW c \in Client, unwatchCommand(c) PROVE TypeInv'
  BY <1>3 DEF unwatchCommand, unwatchAllKeys
<1>4. ASSUME NEW c \in Client, NEW k \in Key, watchCommand(c, k) PROVE TypeInv'
  BY <1>4 DEF watchCommand
<1>5. ASSUME NEW c \in Client, NEW cmd \in CommandOf(Names[c]), queueMultiCommand(c, cmd)
      PROVE  TypeInv'
  BY <1>5, SentFacts, AppendProperties DEF queueMultiCommand
<1>6. ASSUME NEW c \in Client, NEW cmd \in CommandOf(Names[c]), call(c, cmd) PROVE TypeInv'
  <2>1. cmd \in Sent /\ cmd \in Command /\ CallProc(cmd)
    BY <1>6, SentFacts DEF call
  <2>2. rdata' \in KeySpaces(elems') /\ rnext' \in KeySpaces(elems') /\ rmulti' \in BOOLEAN
    <3>1. CASE dirty' # dirty
      <4>1. Feed(Rewritten(cmd), elems + 1)
        BY <1>6, <3>1 DEF call
      <4> QED
        BY <2>1, <3>1, <4>1, CallFacts, RewrittenFacts, FeedFacts
    <3>2. CASE dirty' = dirty
      BY <1>6, <2>1, <3>2, CallFacts DEF call
    <3> QED
      BY <3>1, <3>2
  <2>3. TypeOK'
    <3>1. /\ elems' \in Nat /\ data' \in KeySpaces(elems') /\ dirty' \in Nat /\ gone' \subseteq 1..elems'
          /\ dirty_cas' \in [Client -> BOOLEAN] /\ changed' \in [Client -> SUBSET Key]
          /\ watched' = watched /\ watched_keys' = watched_keys /\ ready_keys' \in Seq(Key)
      BY <2>1, CallFacts
    <3>2. pc' \in {"idle", "serve"} /\ value' = NoValue
      BY <1>6 DEF call, AfterCommand, MaySend
    <3>3. UNCHANGED <<multiVars, blockVars, connected, execVars, handling, serving, left>>
      BY <1>6 DEF call
    <3> QED
      BY <2>2, <3>1, <3>2, <3>3
  <2>4. ControlInv'
    BY <1>6 DEF call, AfterCommand, MaySend
  <2> QED
    BY <2>3, <2>4
<1>7. ASSUME NEW c \in Client, NEW cmd \in CommandOf(Names[c]), BlockingPop(c, cmd) PROVE TypeInv'
  <2>1. cmd \in Sent /\ cmd.name \in {"BLPOP", "BRPOPLPUSH"} /\ cmd.key \in Key /\ cmd.dst \in Key
    BY <1>7, SentFacts, CommandFacts DEF BlockingPop, Blocks
  <2>2. \A k \in Key : Append(blocking_keys[k], c) \in Seq(Client)
    BY <1>7, AppendProperties
  <2>3. /\ blocked' \in [Client -> {Unblocked} \cup
                                {x \in Sent : x.name \in {"BLPOP", "BRPOPLPUSH"}}]
        /\ bpop_keys' \in [Client -> SUBSET Key] /\ blocking_keys' \in [Key -> Seq(Client)]
    BY <1>7, <2>1, <2>2 DEF BlockingPop, blockForKeys
  <2> QED
    BY <1>7, <2>3 DEF BlockingPop, blockForKeys
<1>8. ASSUME NEW c \in Client, execCommand(c) PROVE TypeInv'
  BY <1>8 DEF execCommand, unwatchAllKeys, MaySend
<1>9. ASSUME NEW c \in Client, clientsCronHandleTimeout(c) PROVE TypeInv'
  <2>1. LeaveBlockingKeys(c) /\ Append(unblocked_clients, c) \in Seq(Client)
    BY <1>9, AppendProperties DEF clientsCronHandleTimeout, unblockClientWaitingData
  <2> QED
    BY <1>9, <2>1, LeaveFacts DEF clientsCronHandleTimeout, unblockClientWaitingData
<1>10. ASSUME NEW c \in Client, freeClient(c) PROVE TypeInv'
  <2>1. /\ LeaveBlockingKeys(c) /\ discardTransaction(c)
        /\ unblocked_clients' \in Seq(Client)
    BY <1>10, AppendProperties, RemoveFirstType DEF freeClient
  <2> QED
    BY <1>10, <2>1, LeaveFacts, DiscardFacts DEF freeClient
<1>11. CASE ExecStep
  <2> DEFINE cmd == Head(todo)
  <2>1. cmd \in Sent /\ cmd \in Command /\ CallProc(cmd) /\ todo' \in Seq(Sent)
    BY <1>11, SentFacts, HeadTailProperties DEF ExecStep
  <2>2. \/ Feed(Rewritten(cmd), elems + 1) /\ dirty' # dirty
        \/ FeedMultiAnd(Rewritten(cmd), elems + 1, dirty' # dirty)
        \/ UNCHANGED slaveVars
    BY <1>11 DEF ExecStep
  <2>3. propagated' \in BOOLEAN
    BY <1>11 DEF ExecStep, NeedsMulti
  <2> HIDE DEF cmd
  <2>4. rdata' \in KeySpaces(elems') /\ rnext' \in KeySpaces(elems') /\ rmulti' \in BOOLEAN
    BY <2>1, <2>2, CallFacts, RewrittenFacts, FeedFacts
  <2>5. TypeOK'
    BY <1>11, <2>1, <2>3, <2>4, CallFacts, ValuesGrow DEF ExecStep
  <2>6. ControlInv'
    BY <1>11 DEF ExecStep
  <2> QED
    BY <2>5, <2>6
<1>12. CASE ExecEnd
  <2>1. current \in Client /\ discardTransaction(current)
    BY <1>12 DEF ExecEnd
  <2>2. rdata' \in KeySpaces(elems') /\ rnext' \in KeySpaces(elems') /\ rmulti' \in BOOLEAN
    BY <1>12 DEF ExecEnd, FeedExec
  <2>3. dirty' \in Nat /\ pc' \in {"idle", "serve"} /\ (pc' = "idle" => ready_keys' = <<>>)
    BY <1>12 DEF ExecEnd
  <2>4. UNCHANGED <<data, elems, gone, blockVars, ready_keys, connected, todo, serveVars>>
        /\ current' = NoClient /\ propagated' = FALSE /\ before' = 0
    BY <1>12 DEF ExecEnd
  <2>5. pc = "exec"
    BY <1>12 DEF ExecEnd
  <2> QED
    BY <2>1, <2>2, <2>3, <2>4, <2>5, DiscardFacts
<1>13. CASE NextReadyKey
  BY <1>13, NextReadyFacts DEF NextReadyKey
<1>14. CASE KeyServed \/ AllServed \/ beforeSleep \/ backgroundSaveDoneHandler
  <2>1. CASE KeyServed
    BY <2>1 DEF KeyServed
  <2>2. CASE AllServed
    <3>1. handling \in Seq(Key) /\ ready_keys \in Seq(Key) /\ handling \o ready_keys = <<>>
      BY <2>2 DEF AllServed
    <3>2. ready_keys = <<>> /\ handling = <<>>
      BY <3>1, ConcatEqualIffEmpty
    <3> QED
      BY <2>2, <3>2 DEF AllServed
  <2>3. CASE beforeSleep
    BY <2>3, EmptySeq DEF beforeSleep
  <2>4. CASE backgroundSaveDoneHandler
    BY <2>4 DEF backgroundSaveDoneHandler
  <2> QED
    BY <1>14, <2>1, <2>2, <2>3, <2>4
<1>15. ASSUME NEW c \in Client, ServePop(c) \/ ServeWrongType(c) \/ ServePopPush(c) PROVE TypeInv'
  <2>1. /\ pc = "serve" /\ serving \in Key /\ data[serving].list # <<>>
        /\ left' \in Nat /\ LeaveBlockingKeys(c)
        /\ unblocked_clients' \in Seq(Client)
    <3>1. Serves(c)
      BY <1>15 DEF ServePop, ServeWrongType, ServePopPush
    <3>2. Append(unblocked_clients, c) \in Seq(Client)
      BY AppendProperties
    <3> QED
      BY <3>1, <3>2 DEF Serves, unblockClientWaitingData
  <2>2. /\ blocked' \in [Client -> {Unblocked} \cup
                                {x \in Sent : x.name \in {"BLPOP", "BRPOPLPUSH"}}]
        /\ bpop_keys' \in [Client -> SUBSET Key] /\ blocking_keys' \in [Key -> Seq(Client)]
    BY <2>1, LeaveFacts
  <2>3. CASE ServePop(c)
    <3>1. PopHead(serving, data) \in KeySpaces(elems) /\ Head(data[serving].list) \in 1..elems
      BY <2>1, PopHeadFacts
    <3> DEFINE pop == [name |-> "LPOP", key |-> serving, dst |-> serving]
    <3>2. pop \in Streamed /\ pop.name = "LPOP" /\ Feed(pop, 0)
      BY <2>1, <2>3 DEF Streamed, ServePop
    <3>3. rdata' \in KeySpaces(elems) /\ rnext' \in KeySpaces(elems) /\ rmulti' \in BOOLEAN
      <4> HIDE DEF pop
      <4> QED
        BY <3>2, FeedFacts
    <3>4. changed' \in [Client -> SUBSET Key] /\ watched' = watched /\ watched_keys' = watched_keys
      BY <2>3 DEF ServePop, ChangeWatched
    <3> QED
      BY <2>1, <2>2, <2>3, <3>1, <3>3, <3>4 DEF ServePop
  <2>4. CASE ServeWrongType(c)
    BY <2>1, <2>2, <2>4 DEF ServeWrongType
  <2>5. CASE ServePopPush(c)
    <3>1. PopTail(serving, data) \in KeySpaces(elems) /\ Last(data[serving].list) \in 1..elems
      BY <2>1, PopTailFacts
    <3> DEFINE pop == [name |-> "RPOP", key |-> serving, dst |-> serving]
    <3>2. pop \in Streamed /\ pop.name = "RPOP" /\ Feed(pop, 0)
      BY <2>1, <2>5 DEF Streamed, ServePopPush
    <3>3. rdata' \in KeySpaces(elems) /\ rnext' \in KeySpaces(elems) /\ rmulti' \in BOOLEAN
      <4> HIDE DEF pop
      <4> QED
        BY <3>2, FeedFacts
    <3>4. changed' \in [Client -> SUBSET Key] /\ watched' = watched /\ watched_keys' = watched_keys
      BY <2>5 DEF ServePopPush, ChangeWatched
    <3>5. blocked[c].dst \in Key
      <4>1. blocked[c].name = "BRPOPLPUSH" /\ Unblocked.name # "BRPOPLPUSH"
        BY <2>5 DEF ServePopPush, Unblocked
      <4>2. blocked[c] \in Sent
        BY <4>1
      <4> QED
        BY <4>1, <4>2, SentFacts, CommandFacts
    <3>6. value' \in [elem : 1..elems, dst : Key] /\ value'.dst = blocked[c].dst /\ value' # NoValue
      <4>1. value' = [elem |-> Last(data[serving].list), dst |-> blocked[c].dst]
        BY <2>5 DEF ServePopPush
      <4>2. NoValue.dst \notin Key
        BY CommandAssumption DEF NoValue
      <4> QED
        BY <3>1, <3>5, <4>1, <4>2
    <3>7. ~data'[value'.dst].str
      BY <2>1, <2>5, <3>5, <3>6, KeySpaceValues DEF ServePopPush, PopTail, List
    <3>8. TypeOK'
      BY <2>1, <2>2, <2>5, <3>1, <3>3, <3>4, <3>6 DEF ServePopPush
    <3>9. ControlInv'
      BY <2>1, <2>5, <3>6, <3>7, CommandAssumption DEF ServePopPush
    <3> QED
      BY <3>8, <3>9
  <2> QED
    BY <1>15, <2>3, <2>4, <2>5
<1>16. CASE rpoplpushHandlePush
  <2>1. value \in [elem : 1..elems, dst : Key] /\ pc = "push"
    BY <1>16 DEF rpoplpushHandlePush
  <2>2. data' \in KeySpaces(elems)
    BY <1>16, <2>1, PushHeadFacts DEF rpoplpushHandlePush
  <2> DEFINE push == [name |-> "LPUSH", key |-> value.dst, dst |-> value.dst]
  <2>3. push \in Streamed /\ push.name = "LPUSH" /\ Feed(push, value.elem)
    BY <1>16, <2>1 DEF Streamed, rpoplpushHandlePush
  <2>4. rdata' \in KeySpaces(elems) /\ rnext' \in KeySpaces(elems) /\ rmulti' \in BOOLEAN
    <3> HIDE DEF push
    <3> QED
      BY <2>1, <2>3, FeedFacts
  <2>5. ready_keys' \in Seq(Key)
    <3>1. {k \in {value.dst} : data[k] = Absent /\ k # serving} \in SUBSET Key
      BY <2>1
    <3> QED
      BY <1>16, <3>1, SignalFacts DEF rpoplpushHandlePush
  <2>6. changed' \in [Client -> SUBSET Key] /\ watched' = watched /\ watched_keys' = watched_keys
        /\ dirty_cas' \in [Client -> BOOLEAN]
    BY <1>16 DEF rpoplpushHandlePush, ChangeWatched, touchWatchedKey
  <2> QED
    BY <1>16, <2>2, <2>4, <2>5, <2>6 DEF rpoplpushHandlePush
<1>17. CASE UNCHANGED vars
  BY <1>17 DEF vars
<1> QED
  BY <1>1, <1>2, <1>3, <1>4, <1>5, <1>6, <1>7, <1>8, <1>9, <1>10, <1>11, <1>12, <1>13, <1>14,
     <1>15, <1>16, <1>17 DEF Next, ThreadStep, ClientStep

\* The types and bounds of redis.c's and t_list.c's variables hold in every
\* state: the key space of the slave stays one whatever it is sent.
THEOREM TypeCorrect == Spec => []TypeOK
<1>1. Spec => []TypeInv
  BY TypeInit, TypeStep, PTL DEF Spec
<1> QED
  BY <1>1, PTL DEF TypeInv

----------------------------------------------------------------------------
(* The tables of watching and of blocking *)

\* Each step that is no step of a client is the service of one, or changes
\* none of the tables.
LEMMA WatchLinksStep ==
    ASSUME TypeInv, WatchLinks, [Next]_vars
    PROVE  WatchLinks'
<1> USE DEF TypeInv, TypeOK, dataVars, slaveVars, multiVars, watchVars, blockVars, execVars, serveVars
<1>1. ASSUME UNCHANGED <<watched, watched_keys>>, connected \subseteq connected' PROVE WatchLinks'
  BY <1>1 DEF WatchLinks
<1>2. ASSUME NEW c \in Client, unwatchAllKeys(c), connected \ {c} \subseteq connected' PROVE WatchLinks'
  BY <1>2 DEF WatchLinks, unwatchAllKeys
<1>3. ASSUME NEW c \in Client, NEW k \in Key, watchCommand(c, k) PROVE WatchLinks'
  BY <1>3 DEF WatchLinks, watchCommand, MaySend
<1>4. ASSUME NEW c \in Client,
             multiCommand(c) \/ flagTransaction(c) \/ createClient(c) \/ clientsCronHandleTimeout(c)
      PROVE  WatchLinks'
  BY <1>1, <1>4 DEF multiCommand, flagTransaction, createClient, clientsCronHandleTimeout
<1>5. ASSUME NEW c \in Client,
             discardCommand(c) \/ unwatchCommand(c) \/ ExecAborts(c) \/ execCommand(c) \/ freeClient(c)
      PROVE  WatchLinks'
  <2>1. unwatchAllKeys(c) /\ connected \ {c} \subseteq connected'
    BY <1>5 DEF discardCommand, unwatchCommand, ExecAborts, execCommand, freeClient, discardTransaction
  <2> QED
    BY <1>2, <2>1
<1>6. ASSUME NEW c \in Client, NEW cmd \in CommandOf(Names[c]),
             queueMultiCommand(c, cmd) \/ call(c, cmd) \/ BlockingPop(c, cmd)
      PROVE  WatchLinks'
  BY <1>1, <1>6 DEF queueMultiCommand, call, BlockingPop, CallProc, ChangeWatched
<1>7. CASE ExecStep
  BY <1>1, <1>7 DEF ExecStep, CallProc, ChangeWatched
<1>8. CASE ExecEnd
  <2>1. current \in Client /\ unwatchAllKeys(current) /\ connected' = connected
    BY <1>8 DEF ExecEnd, discardTransaction, ControlInv
  <2> QED
    BY <1>2, <2>1
<1>9. CASE NextReadyKey \/ KeyServed \/ AllServed \/ beforeSleep \/ backgroundSaveDoneHandler
  BY <1>1, <1>9 DEF NextReadyKey, KeyServed, AllServed, beforeSleep, backgroundSaveDoneHandler
<1>10. ASSUME NEW c \in Client, ServePop(c) \/ ServeWrongType(c) \/ ServePopPush(c) PROVE WatchLinks'
  BY <1>1, <1>10 DEF ServePop, ServeWrongType, ServePopPush, ChangeWatched
<1>11. CASE rpoplpushHandlePush
  BY <1>1, <1>11 DEF rpoplpushHandlePush, ChangeWatched
<1>12. CASE UNCHANGED vars
  BY <1>1, <1>12 DEF vars
<1> QED
  BY <1>3, <1>4, <1>5, <1>6, <1>7, <1>8, <1>9, <1>10, <1>11, <1>12 DEF Next, ThreadStep, ClientStep

\* What the client who is served, and the others, wait for then.
LEMMA LeaveLinks ==
    ASSUME TypeOK, BlockLinks, NEW c \in Client, LeaveBlockingKeys(c)
    PROVE  /\ \A k \in Key :
                /\ IsInjective(blocking_keys'[k])
                /\ ToSet(blocking_keys'[k]) = ToSet(blocking_keys[k]) \ {c}
                /\ c \in ToSet(blocking_keys[k]) =>
                      Len(blocking_keys'[k]) = Len(blocking_keys[k]) - 1
                /\ c \notin ToSet(blocking_keys[k]) => blocking_keys'[k] = blocking_keys[k]
           /\ bpop_keys'[c] = {} /\ blocked'[c] = Unblocked
           /\ \A cl \in Client : cl # c => bpop_keys'[cl] = bpop_keys[cl] /\ blocked'[cl] = blocked[cl]
<1>1. ASSUME NEW k \in Key
      PROVE  /\ IsInjective(blocking_keys'[k])
             /\ ToSet(blocking_keys'[k]) = ToSet(blocking_keys[k]) \ {c}
             /\ c \in ToSet(blocking_keys[k]) =>
                   Len(blocking_keys'[k]) = Len(blocking_keys[k]) - 1
             /\ c \notin ToSet(blocking_keys[k]) => blocking_keys'[k] = blocking_keys[k]
  <2>1. /\ blocking_keys[k] \in Seq(Client) /\ IsInjective(blocking_keys[k])
        /\ c \in ToSet(blocking_keys[k]) <=> k \in bpop_keys[c]
    BY DEF BlockLinks, TypeOK
  <2>2. blocking_keys'[k] = IF k \in bpop_keys[c] THEN RemoveFirst(blocking_keys[k], c)
                                                  ELSE blocking_keys[k]
    BY DEF LeaveBlockingKeys
  <2> QED
    BY <2>1, <2>2, RemoveFromInjective
<1>2. /\ bpop_keys'[c] = {} /\ blocked'[c] = Unblocked
      /\ \A cl \in Client : cl # c => bpop_keys'[cl] = bpop_keys[cl] /\ blocked'[cl] = blocked[cl]
  BY DEF LeaveBlockingKeys, TypeOK
<1> QED
  BY <1>1, <1>2

\* The client that is served is the first of those that wait for the key.
LEMMA ServedIsBlocked ==
    ASSUME TypeInv, BlockLinks, ServeInv, NEW c \in Client, Serves(c)
    PROVE  /\ serving \in Key /\ c \in ToSet(blocking_keys[serving]) /\ serving \in bpop_keys[c]
           /\ blocked[c] # Unblocked /\ c \in connected
<1>1. serving \in Key /\ left = Len(blocking_keys[serving]) /\ left > 0 /\ c = Head(blocking_keys[serving])
      /\ blocking_keys[serving] \in Seq(Client)
  BY DEF Serves, ServeInv, TypeInv, TypeOK
<1>2. blocking_keys[serving] # <<>>
  BY <1>1
<1>3. Head(blocking_keys[serving]) = blocking_keys[serving][1] /\ 1 \in 1..Len(blocking_keys[serving])
  BY <1>1, <1>2, PopHeadSequence
<1>4. c \in ToSet(blocking_keys[serving])
  BY <1>1, <1>3, ToSetMember
<1> QED
  BY <1>1, <1>4 DEF BlockLinks

LEMMA BlockLinksStep ==
    ASSUME TypeInv, BlockLinks, ServeInv, [Next]_vars
    PROVE  BlockLinks'
<1> USE DEF TypeInv, TypeOK, dataVars, slaveVars, multiVars, watchVars, blockVars, execVars, serveVars
<1>1. ASSUME UNCHANGED <<blocked, bpop_keys, blocking_keys>>, connected \subseteq connected',
             \A cl \in Client : multi'[cl] => multi[cl] \/ blocked[cl] = Unblocked
      PROVE  BlockLinks'
  BY <1>1 DEF BlockLinks
<1>2. ASSUME NEW c \in Client, LeaveBlockingKeys(c), connected \ {c} \subseteq connected',
             \A cl \in Client : multi'[cl] => multi[cl]
      PROVE  BlockLinks'
  <2>1. \A k \in Key : IsInjective(blocking_keys'[k])
    BY <1>2, LeaveLinks
  <2>2. ASSUME NEW cl \in Client PROVE bpop_keys'[cl] # {} <=> blocked'[cl] # Unblocked
    BY <1>2, LeaveLinks DEF BlockLinks
  <2>3. ASSUME NEW cl \in Client, NEW k \in Key
        PROVE  /\ cl \in ToSet(blocking_keys'[k]) <=> k \in bpop_keys'[cl]
               /\ k \in bpop_keys'[cl] => cl \in connected' /\ ~multi'[cl]
    <3>1. /\ ToSet(blocking_keys'[k]) = ToSet(blocking_keys[k]) \ {c}
          /\ bpop_keys'[c] = {}
          /\ cl # c => bpop_keys'[cl] = bpop_keys[cl]
      BY <1>2, LeaveLinks
    <3> QED
      BY <1>2, <3>1 DEF BlockLinks
  <2> QED
    BY <2>1, <2>2, <2>3 DEF BlockLinks
<1>3. ASSUME NEW c \in Client, NEW cmd \in CommandOf(Names[c]), BlockingPop(c, cmd) PROVE BlockLinks'
  <2> DEFINE keys == IF cmd.name = "BLPOP" THEN {cmd.key, cmd.dst} ELSE {cmd.key}
  <2>1. keys \subseteq Key /\ keys # {} /\ cmd # Unblocked
    BY <1>3, SentFacts, CommandFacts DEF BlockingPop, Blocks
  <2>2. /\ blocked[c] = Unblocked /\ c \in connected /\ ~multi[c] /\ UNCHANGED <<connected, multi>>
        /\ blockForKeys(c, cmd, keys)
    BY <1>3 DEF BlockingPop, MaySend
  <2> HIDE DEF keys
  <2>3. bpop_keys[c] = {} /\ \A k \in Key : c \notin ToSet(blocking_keys[k])
    BY <2>2 DEF BlockLinks
  <2>4. /\ blocked'[c] = cmd /\ bpop_keys'[c] = keys
        /\ \A cl \in Client : cl # c => blocked'[cl] = blocked[cl] /\ bpop_keys'[cl] = bpop_keys[cl]
    BY <2>1, <2>2 DEF blockForKeys
  <2>5. ASSUME NEW k \in Key
        PROVE  /\ IsInjective(blocking_keys'[k])
               /\ ToSet(blocking_keys'[k]) = ToSet(blocking_keys[k]) \cup (IF k \in keys THEN {c} ELSE {})
    <3>1. blocking_keys[k] \in Seq(Client) /\ IsInjective(blocking_keys[k])
      BY DEF BlockLinks
    <3>2. blocking_keys'[k] = IF k \in keys THEN Append(blocking_keys[k], c) ELSE blocking_keys[k]
      BY <2>2 DEF blockForKeys
    <3> QED
      BY <2>3, <3>1, <3>2, AppendInjectively
  <2>6. ASSUME NEW cl \in Client PROVE bpop_keys'[cl] # {} <=> blocked'[cl] # Unblocked
    BY <2>1, <2>4 DEF BlockLinks
  <2>7. ASSUME NEW cl \in Client, NEW k \in Key
        PROVE  /\ cl \in ToSet(blocking_keys'[k]) <=> k \in bpop_keys'[cl]
               /\ k \in bpop_keys'[cl] => cl \in connected' /\ ~multi'[cl]
    <3>1. ToSet(blocking_keys'[k]) = ToSet(blocking_keys[k]) \cup (IF k \in keys THEN {c} ELSE {})
      BY <2>5
    <3>2. CASE cl = c
      BY <2>2, <2>3, <2>4, <3>1, <3>2 DEF BlockLinks
    <3>3. CASE cl # c
      BY <2>2, <2>4, <3>1, <3>3 DEF BlockLinks
    <3> QED
      BY <3>2, <3>3
  <2> QED
    BY <2>5, <2>6, <2>7 DEF BlockLinks
<1>4. ASSUME NEW c \in Client,
             multiCommand(c) \/ discardCommand(c) \/ unwatchCommand(c) \/ flagTransaction(c)
             \/ ExecAborts(c) \/ execCommand(c) \/ createClient(c)
      PROVE  BlockLinks'
  BY <1>1, <1>4 DEF multiCommand, MaySend, discardCommand, unwatchCommand, flagTransaction, ExecAborts,
                    execCommand, createClient, discardTransaction, ClearTransaction
<1>5. ASSUME NEW c \in Client, clientsCronHandleTimeout(c) \/ freeClient(c) PROVE BlockLinks'
  <2>1. LeaveBlockingKeys(c) /\ connected \ {c} \subseteq connected'
        /\ \A cl \in Client : multi'[cl] => multi[cl]
    BY <1>5 DEF clientsCronHandleTimeout, freeClient, unblockClientWaitingData, discardTransaction,
                ClearTransaction
  <2> QED
    BY <1>2, <2>1
<1>6. ASSUME NEW c \in Client, NEW k \in Key, watchCommand(c, k) PROVE BlockLinks'
  BY <1>1, <1>6 DEF watchCommand
<1>7. ASSUME NEW c \in Client, NEW cmd \in CommandOf(Names[c]), queueMultiCommand(c, cmd) \/ call(c, cmd)
      PROVE  BlockLinks'
  BY <1>1, <1>7 DEF queueMultiCommand, call
<1>8. CASE ExecStep \/ NextReadyKey \/ KeyServed \/ AllServed \/ beforeSleep \/ backgroundSaveDoneHandler
           \/ rpoplpushHandlePush
  BY <1>1, <1>8 DEF ExecStep, NextReadyKey, KeyServed, AllServed, beforeSleep,
                    backgroundSaveDoneHandler, rpoplpushHandlePush
<1>9. CASE ExecEnd
  BY <1>1, <1>9 DEF ExecEnd, discardTransaction, ClearTransaction
<1>10. ASSUME NEW c \in Client, ServePop(c) \/ ServeWrongType(c) \/ ServePopPush(c) PROVE BlockLinks'
  <2>1. LeaveBlockingKeys(c) /\ connected' = connected /\ multi' = multi
    BY <1>10 DEF ServePop, ServeWrongType, ServePopPush, Serves, unblockClientWaitingData
  <2> QED
    BY <1>2, <2>1
<1>11. CASE UNCHANGED vars
  BY <1>1, <1>11 DEF vars
<1> QED
  BY <1>3, <1>4, <1>5, <1>6, <1>7, <1>8, <1>9, <1>10, <1>11 DEF Next, ThreadStep, ClientStep

(* The list of the clients to resume.                                      *)
UnblockedInv == UnblockedOnce /\ UnblockedExist

\* A client is resumed once: it sends nothing before it has its reply, so it
\* is not listed again before beforeSleep has emptied the list.
LEMMA UnblockedStep ==
    ASSUME ~Pipelining, TypeInv, BlockLinks, ServeInv, UnblockedInv, [Next]_vars
    PROVE  UnblockedInv'
<1> USE DEF TypeInv, TypeOK, dataVars, slaveVars, multiVars, watchVars, blockVars, execVars, serveVars
<1>1. ASSUME unblocked_clients' = unblocked_clients, connected \subseteq connected',
             \A cl \in ToSet(unblocked_clients) : blocked'[cl] = blocked[cl] \/ blocked'[cl] = Unblocked
      PROVE  UnblockedInv'
  BY <1>1 DEF UnblockedInv, UnblockedOnce, UnblockedExist
<1>2. ASSUME NEW c \in Client, unblockClientWaitingData(c), blocked[c] # Unblocked, connected' = connected
      PROVE  UnblockedInv'
  <2>1. c \in connected
    BY <1>2 DEF BlockLinks
  <2>2. c \notin ToSet(unblocked_clients) /\ IsInjective(unblocked_clients)
    BY <1>2 DEF UnblockedInv, UnblockedOnce
  <2>3. /\ ToSet(unblocked_clients') = ToSet(unblocked_clients) \cup {c}
        /\ IsInjective(unblocked_clients')
    BY <1>2, <2>2, AppendInjectively DEF unblockClientWaitingData
  <2>4. blocked' = [blocked EXCEPT ![c] = Unblocked]
    BY <1>2 DEF unblockClientWaitingData, LeaveBlockingKeys
  <2> QED
    BY <1>2, <2>1, <2>3, <2>4 DEF UnblockedInv, UnblockedOnce, UnblockedExist
<1>3. ASSUME NEW c \in Client, freeClient(c) PROVE UnblockedInv'
  <2>1. IsInjective(unblocked_clients) /\ unblocked_clients \in Seq(Client)
    BY DEF UnblockedInv, UnblockedOnce
  <2>2. /\ connected' = connected \ {c}
        /\ \A cl \in Client : blocked'[cl] = blocked[cl] \/ blocked'[cl] = Unblocked
    BY <1>3 DEF freeClient, LeaveBlockingKeys
  <2>3. IsInjective(unblocked_clients') /\ ToSet(unblocked_clients') = ToSet(unblocked_clients) \ {c}
    <3>1. CASE blocked[c] # Unblocked
      <4>1. c \notin ToSet(unblocked_clients)
        BY <3>1 DEF UnblockedInv, UnblockedOnce
      <4>2. /\ Append(unblocked_clients, c) \in Seq(Client)
            /\ IsInjective(Append(unblocked_clients, c))
            /\ ToSet(Append(unblocked_clients, c)) = ToSet(unblocked_clients) \cup {c}
        BY <2>1, <4>1, AppendInjectively, AppendProperties
      <4>3. unblocked_clients' = RemoveFirst(Append(unblocked_clients, c), c)
        BY <1>3, <3>1 DEF freeClient
      <4>4. /\ IsInjective(unblocked_clients')
            /\ ToSet(unblocked_clients') = ToSet(Append(unblocked_clients, c)) \ {c}
        BY <4>2, <4>3, RemoveFromInjective, ZenonT(60)
      <4> QED
        BY <4>1, <4>2, <4>4
    <3>2. CASE blocked[c] = Unblocked
      <4>1. unblocked_clients' = RemoveFirst(unblocked_clients, c)
        BY <1>3, <3>2 DEF freeClient
      <4> QED
        BY <2>1, <4>1, RemoveFromInjective
    <3> QED
      BY <3>1, <3>2
  <2>4. ToSet(unblocked_clients) \subseteq Client
    BY <2>1, ToSetIsSubset
  <2> QED
    BY <2>2, <2>3, <2>4 DEF UnblockedInv, UnblockedOnce, UnblockedExist
<1>4. ASSUME NEW c \in Client, NEW cmd \in CommandOf(Names[c]), BlockingPop(c, cmd) PROVE UnblockedInv'
  <2>1. c \notin ToSet(unblocked_clients)
    BY <1>4 DEF BlockingPop, MaySend
  <2>2. \A cl \in Client : cl # c => blocked'[cl] = blocked[cl]
    BY <1>4 DEF BlockingPop, blockForKeys
  <2>3. unblocked_clients' = unblocked_clients /\ connected' = connected
    BY <1>4 DEF BlockingPop, blockForKeys
  <2>4. ToSet(unblocked_clients) \subseteq Client
    BY ToSetIsSubset
  <2> QED
    BY <1>1, <2>1, <2>2, <2>3, <2>4
<1>5. ASSUME NEW c \in Client,
             multiCommand(c) \/ discardCommand(c) \/ unwatchCommand(c) \/ flagTransaction(c)
             \/ ExecAborts(c) \/ execCommand(c) \/ createClient(c)
      PROVE  UnblockedInv'
  BY <1>1, <1>5 DEF multiCommand, discardCommand, unwatchCommand, flagTransaction, ExecAborts,
                    execCommand, createClient
<1>6. ASSUME NEW c \in Client, clientsCronHandleTimeout(c) PROVE UnblockedInv'
  BY <1>2, <1>6 DEF clientsCronHandleTimeout
<1>7. ASSUME NEW c \in Client, NEW k \in Key, watchCommand(c, k) PROVE UnblockedInv'
  BY <1>1, <1>7 DEF watchCommand
<1>8. ASSUME NEW c \in Client, NEW cmd \in CommandOf(Names[c]), queueMultiCommand(c, cmd) \/ call(c, cmd)
      PROVE  UnblockedInv'
  BY <1>1, <1>8 DEF queueMultiCommand, call
<1>9. CASE ExecStep \/ NextReadyKey \/ KeyServed \/ AllServed \/ backgroundSaveDoneHandler
           \/ rpoplpushHandlePush \/ ExecEnd
  BY <1>1, <1>9 DEF ExecStep, NextReadyKey, KeyServed, AllServed, backgroundSaveDoneHandler,
                    rpoplpushHandlePush, ExecEnd
<1>10. CASE beforeSleep
  BY <1>10, ToSetEmpty DEF beforeSleep, UnblockedInv, UnblockedOnce, UnblockedExist, IsInjective
<1>11. ASSUME NEW c \in Client, ServePop(c) \/ ServeWrongType(c) \/ ServePopPush(c) PROVE UnblockedInv'
  <2>1. Serves(c) /\ connected' = connected
    BY <1>11 DEF ServePop, ServeWrongType, ServePopPush
  <2>2. unblockClientWaitingData(c) /\ blocked[c] # Unblocked
    BY <2>1, ServedIsBlocked DEF Serves
  <2> QED
    BY <1>2, <2>1, <2>2
<1>12. CASE UNCHANGED vars
  BY <1>1, <1>12 DEF vars
<1> QED
  BY <1>3, <1>4, <1>5, <1>6, <1>7, <1>8, <1>9, <1>10, <1>11, <1>12 DEF Next, ThreadStep, ClientStep

----------------------------------------------------------------------------
(* The service of blocked clients *)

\* The key being served is served to as many clients as wait for it.
LEMMA ServeStep ==
    ASSUME TypeInv, BlockLinks, ServeInv, [Next]_vars
    PROVE  ServeInv'
<1> USE DEF TypeInv, TypeOK, ControlInv, dataVars, slaveVars, multiVars, watchVars, blockVars,
            execVars, serveVars
<1>1. ASSUME UNCHANGED <<serving, left, blocking_keys>>, pc' = "push" => pc = "push" PROVE ServeInv'
  BY <1>1 DEF ServeInv
<1>2. ASSUME serving = NoKey, UNCHANGED <<serving, left>>, pc' # "push" PROVE ServeInv'
  BY <1>2 DEF ServeInv
<1>3. ASSUME NEW c \in Client,
             multiCommand(c) \/ discardCommand(c) \/ unwatchCommand(c) \/ flagTransaction(c)
             \/ ExecAborts(c) \/ execCommand(c) \/ createClient(c)
      PROVE  ServeInv'
  BY <1>1, <1>3 DEF multiCommand, discardCommand, unwatchCommand, flagTransaction, ExecAborts,
                    execCommand, createClient
<1>4. ASSUME NEW c \in Client, clientsCronHandleTimeout(c) \/ freeClient(c) PROVE ServeInv'
  BY <1>2, <1>4 DEF clientsCronHandleTimeout, freeClient
<1>5. ASSUME NEW c \in Client, NEW k \in Key, watchCommand(c, k) PROVE ServeInv'
  BY <1>1, <1>5 DEF watchCommand
<1>6. ASSUME NEW c \in Client, NEW cmd \in CommandOf(Names[c]),
             queueMultiCommand(c, cmd) \/ call(c, cmd) \/ BlockingPop(c, cmd)
      PROVE  ServeInv'
  BY <1>2, <1>6 DEF queueMultiCommand, call, AfterCommand, BlockingPop, MaySend
<1>7. CASE ExecStep \/ ExecEnd \/ AllServed \/ beforeSleep \/ backgroundSaveDoneHandler
  BY <1>1, <1>7 DEF ExecStep, ExecEnd, AllServed, beforeSleep, backgroundSaveDoneHandler
<1>8. CASE NextReadyKey
  BY <1>8, NextReadyFacts, CommandAssumption DEF NextReadyKey, NumClients, ServeInv
<1>9. CASE KeyServed
  BY <1>9 DEF KeyServed, ServeInv
<1>10. ASSUME NEW c \in Client, ServePop(c) \/ ServeWrongType(c) \/ ServePopPush(c) PROVE ServeInv'
  <2>1. Serves(c) /\ serving' = serving
    BY <1>10 DEF ServePop, ServeWrongType, ServePopPush
  <2>2. /\ LeaveBlockingKeys(c) /\ left' = left - 1 /\ left > 0 /\ serving \in Key
        /\ left = Len(blocking_keys[serving]) /\ c \in ToSet(blocking_keys[serving])
    BY <2>1, ServedIsBlocked DEF Serves, unblockClientWaitingData, ServeInv
  <2>3. Len(blocking_keys'[serving]) = Len(blocking_keys[serving]) - 1
    BY <2>2, LeaveLinks
  <2> QED
    BY <2>1, <2>2, <2>3, CommandAssumption DEF ServeInv
<1>11. CASE rpoplpushHandlePush
  BY <1>1, <1>11 DEF rpoplpushHandlePush
<1>12. CASE UNCHANGED vars
  BY <1>1, <1>12 DEF vars
<1> QED
  BY <1>3, <1>4, <1>5, <1>6, <1>7, <1>8, <1>9, <1>10, <1>11, <1>12 DEF Next, ThreadStep, ClientStep

(* What holds of blocking and service whatever the clients send.           *)
BlockInv == TypeInv /\ BlockLinks /\ ServeInv

LEMMA BlockInit == Init => BlockInv
<1> SUFFICES ASSUME Init PROVE BlockInv
  OBVIOUS
<1>1. TypeInv
  BY TypeInit
<1>2. BlockLinks
  <2>1. /\ blocking_keys = [k \in Key |-> <<>>] /\ bpop_keys = [c \in Client |-> {}]
        /\ blocked = [c \in Client |-> Unblocked]
    BY DEF Init
  <2>2. \A k \in Key : IsInjective(blocking_keys[k]) /\ ToSet(blocking_keys[k]) = {}
    BY <2>1, ToSetEmpty DEF IsInjective
  <2> QED
    BY <2>1, <2>2 DEF BlockLinks
<1>3. ServeInv
  BY DEF Init, ServeInv
<1> QED
  BY <1>1, <1>2, <1>3 DEF BlockInv

LEMMA BlockInvariant == Spec => []BlockInv
<1>1. BlockInv /\ [Next]_vars => BlockInv'
  BY TypeStep, BlockLinksStep, ServeStep DEF BlockInv
<1> QED
  BY <1>1, BlockInit, PTL DEF Spec

\* Both sides of WATCH and of blocking agree and name connected clients, and
\* beforeSleep resumes clients that exist, for any clients, keys, commands
\* and lengths of service, if clients send nothing before they have the
\* reply to a blocking command.  multi.c, t_list.c and freeClient keep the
\* tables by hand.
THEOREM LinksCorrect ==
    ASSUME ~Pipelining
    PROVE  Spec => []LinksInv
<1> DEFINE I == BlockInv /\ WatchLinks /\ UnblockedInv
<1>1. Init => I
  <2>1. Init => WatchLinks
    BY DEF Init, WatchLinks
  <2>2. Init => UnblockedInv
    BY ToSetEmpty DEF Init, UnblockedInv, UnblockedOnce, UnblockedExist, IsInjective
  <2> QED
    BY <2>1, <2>2, BlockInit
<1>2. I /\ [Next]_vars => I'
  BY TypeStep, BlockLinksStep, ServeStep, WatchLinksStep, UnblockedStep DEF BlockInv
<1>3. I => LinksInv
  BY DEF BlockInv, TypeInv, UnblockedInv, LinksInv
<1> QED
  BY <1>1, <1>2, <1>3, PTL DEF Spec

\* A list that appears where clients wait is announced: no other command
\* than RENAME brings a list without signalListAsReady.
LEMMA ListsAnnounced ==
    ASSUME TypeOK, WaitersInv, serving = NoKey, NEW cmd \in Sent, cmd.name # "RENAME",
           CallProc(cmd), blocking_keys' = blocking_keys, handling' = handling
    PROVE  WaitersInv'
<1> SUFFICES ASSUME NEW k \in Key, blocking_keys[k] # <<>>, data'[k].list # <<>>
             PROVE  k \in ToSet(ready_keys') \cup ToSet(handling)
  BY DEF WaitersInv
<1>1. cmd \in Command /\ elems \in Nat /\ data \in KeySpaces(elems)
  BY SentFacts DEF TypeOK
<1>2. data' = Effect(cmd, elems + 1, data)
  BY DEF CallProc
<1>3. /\ signalListAsReady(CreatedList(cmd))
      /\ CreatedList(cmd) \in SUBSET Key
  BY DEF CallProc, CreatedList
<1>4. ToSet(ready_keys') =
         ToSet(ready_keys) \cup {l \in CreatedList(cmd) : /\ blocking_keys[l] # <<>>
                                                        /\ l \notin ToSet(ready_keys) \cup ToSet(handling)}
  BY <1>3, SignalFacts
<1>5. CASE data[k].list # <<>>
  <2>1. k # NoKey
    BY CommandAssumption
  <2> QED
    BY <1>4, <1>5, <2>1 DEF WaitersInv
<1>6. CASE data[k].list = <<>>
  <2>1. k \in CreatedList(cmd)
    BY <1>1, <1>2, <1>6, EffectChanges DEF CreatedList
  <2> QED
    BY <1>4, <2>1
<1> QED
  BY <1>5, <1>6

\* Clients that come, or a key that grows while it is served, leave no
\* waiter behind: it is announced, or all of its waiters are counted.
LEMMA WaitersStep ==
    ASSUME NoneSends("RENAME"), BlockInv, WaitersInv, [Next]_vars
    PROVE  WaitersInv'
<1> USE DEF BlockInv, TypeInv, TypeOK, ControlInv, dataVars, slaveVars, multiVars, watchVars, blockVars,
            execVars, serveVars
<1>1. ASSUME UNCHANGED <<data, blocking_keys, ready_keys, handling, serving, left>> PROVE WaitersInv'
  BY <1>1 DEF WaitersInv
<1>2. \A cmd \in Sent : cmd.name # "RENAME"
  BY SentFacts DEF NoneSends
<1>3. ASSUME NEW c \in Client,
             multiCommand(c) \/ discardCommand(c) \/ unwatchCommand(c) \/ flagTransaction(c)
             \/ ExecAborts(c) \/ execCommand(c) \/ createClient(c)
      PROVE  WaitersInv'
  BY <1>1, <1>3 DEF multiCommand, discardCommand, unwatchCommand, flagTransaction, ExecAborts,
                    execCommand, createClient
<1>4. ASSUME NEW c \in Client, NEW k \in Key, watchCommand(c, k) PROVE WaitersInv'
  BY <1>1, <1>4 DEF watchCommand
<1>5. CASE ExecEnd \/ AllServed \/ beforeSleep \/ backgroundSaveDoneHandler
  BY <1>1, <1>5 DEF ExecEnd, AllServed, beforeSleep, backgroundSaveDoneHandler
<1>6. ASSUME NEW c \in Client, clientsCronHandleTimeout(c) \/ freeClient(c) PROVE WaitersInv'
  <2>1. LeaveBlockingKeys(c) /\ serving = NoKey
        /\ UNCHANGED <<data, ready_keys, handling, serving>>
    BY <1>6 DEF clientsCronHandleTimeout, freeClient, unblockClientWaitingData
  <2> SUFFICES ASSUME NEW k \in Key, blocking_keys'[k] # <<>>, data[k].list # <<>>
               PROVE  k \in ToSet(ready_keys) \cup ToSet(handling)
    BY <2>1 DEF WaitersInv
  <2>2. blocking_keys[k] # <<>>
    BY <2>1, LeaveLinks, ToSetEmpty
  <2> QED
    BY <2>1, <2>2, CommandAssumption DEF WaitersInv
<1>7. ASSUME NEW c \in Client, NEW cmd \in CommandOf(Names[c]), queueMultiCommand(c, cmd) PROVE WaitersInv'
  BY <1>1, <1>7 DEF queueMultiCommand
<1>8. ASSUME NEW c \in Client, NEW cmd \in CommandOf(Names[c]), call(c, cmd) PROVE WaitersInv'
  <2>1. cmd \in Sent /\ serving = NoKey
    BY <1>8, SentFacts DEF call, MaySend
  <2> QED
    BY <1>2, <1>8, <2>1, ListsAnnounced DEF call
<1>9. CASE ExecStep
  <2>1. Head(todo) \in Sent /\ serving = NoKey
    BY <1>9 DEF ExecStep
  <2> QED
    BY <1>2, <1>9, <2>1, ListsAnnounced DEF ExecStep
<1>10. ASSUME NEW c \in Client, NEW cmd \in CommandOf(Names[c]), BlockingPop(c, cmd) PROVE WaitersInv'
  <2> DEFINE keys == IF cmd.name = "BLPOP" THEN {cmd.key, cmd.dst} ELSE {cmd.key}
  <2>1. cmd \in Command /\ Blocks(cmd) /\ cmd.name \in {"BLPOP", "BRPOPLPUSH"}
    BY <1>10, SentFacts DEF BlockingPop, Blocks
  <2>2. \A k \in keys : k \in Key /\ data[k] = Absent
    <3>1. cmd.key \in Key /\ cmd.dst \in Key
      BY <2>1, CommandFacts
    <3>2. CASE cmd.name = "BLPOP"
      <4>1. data[cmd.key] = Absent /\ data[cmd.dst] = Absent
        BY <2>1, <3>2 DEF Blocks, PopKey
      <4> QED
        BY <3>1, <4>1
    <3>3. CASE cmd.name = "BRPOPLPUSH"
      BY <2>1, <3>1, <3>3 DEF Blocks
    <3> QED
      BY <2>1, <3>2, <3>3
  <2>3. /\ blocking_keys' = [k \in Key |-> IF k \in keys THEN Append(blocking_keys[k], c)
                                                        ELSE blocking_keys[k]]
        /\ UNCHANGED <<data, ready_keys, handling, serving, left>>
    BY <1>10 DEF BlockingPop, blockForKeys
  <2> HIDE DEF keys
  <2> SUFFICES ASSUME NEW k \in Key, blocking_keys'[k] # <<>>, data[k].list # <<>>
               PROVE  \/ k \in ToSet(ready_keys) \cup ToSet(handling)
                      \/ serving = k /\ left = Len(blocking_keys'[k])
    BY <2>3 DEF WaitersInv
  <2>4. k \notin keys
    BY <2>2 DEF Absent
  <2> QED
    BY <2>3, <2>4 DEF WaitersInv
<1>11. CASE NextReadyKey
  <2>1. /\ serving' \in Key /\ left' = NumClients(serving')
        /\ ToSet(ready_keys) \cup ToSet(handling)
             \subseteq ToSet(ready_keys') \cup ToSet(handling') \cup {serving'}
    BY <1>11, NextReadyFacts
  <2>2. UNCHANGED <<data, blocking_keys>> /\ serving = NoKey
    BY <1>11 DEF NextReadyKey
  <2> SUFFICES ASSUME NEW k \in Key, blocking_keys[k] # <<>>, data[k].list # <<>>
               PROVE  \/ k \in ToSet(ready_keys') \cup ToSet(handling')
                      \/ serving' = k /\ left' = Len(blocking_keys[k])
    BY <2>2 DEF WaitersInv
  <2>3. k \in ToSet(ready_keys) \cup ToSet(handling)
    BY <2>2, CommandAssumption DEF WaitersInv
  <2> QED
    BY <2>1, <2>2, <2>3 DEF NumClients
<1>12. CASE KeyServed
  <2>1. UNCHANGED <<data, blocking_keys, ready_keys, handling>> /\ serving \in Key
        /\ (left = 0 \/ data[serving].list = <<>>)
    BY <1>12 DEF KeyServed
  <2> SUFFICES ASSUME NEW k \in Key, blocking_keys[k] # <<>>, data[k].list # <<>>
               PROVE  k \in ToSet(ready_keys) \cup ToSet(handling)
    BY <2>1 DEF WaitersInv
  <2>2. Len(blocking_keys[k]) > 0
    BY LenProperties, EmptySeq
  <2> QED
    BY <2>1, <2>2 DEF WaitersInv
<1>13. ASSUME NEW c \in Client, ServePop(c) \/ ServeWrongType(c) \/ ServePopPush(c) PROVE WaitersInv'
  <2>1. Serves(c) /\ UNCHANGED <<serving, handling, ready_keys>>
        /\ \A k \in Key : k # serving => data'[k] = data[k]
    <3>1. Serves(c) /\ UNCHANGED <<serving, handling, ready_keys>>
          /\ data' \in {data, PopHead(serving, data), PopTail(serving, data)}
      BY <1>13 DEF ServePop, ServeWrongType, ServePopPush
    <3>2. serving \in Key /\ data[serving].list # <<>>
      BY <3>1 DEF Serves
    <3> QED
      BY <3>1, <3>2, PopHeadFacts, PopTailFacts
  <2>2. LeaveBlockingKeys(c) /\ serving \in Key
    BY <2>1 DEF Serves, unblockClientWaitingData
  <2>3. left' = Len(blocking_keys'[serving])
    <3>1. /\ left' = left - 1 /\ left > 0 /\ left = Len(blocking_keys[serving])
          /\ c \in ToSet(blocking_keys[serving])
      BY <2>1, ServedIsBlocked DEF Serves, ServeInv
    <3>2. Len(blocking_keys'[serving]) = Len(blocking_keys[serving]) - 1
      BY <2>2, <3>1, LeaveLinks
    <3> QED
      BY <3>1, <3>2
  <2> SUFFICES ASSUME NEW k \in Key, blocking_keys'[k] # <<>>, data'[k].list # <<>>, k # serving
               PROVE  k \in ToSet(ready_keys) \cup ToSet(handling)
    BY <2>1, <2>3 DEF WaitersInv
  <2>4. blocking_keys[k] # <<>>
    BY <2>2, LeaveLinks, ToSetEmpty
  <2> QED
    BY <2>1, <2>4 DEF WaitersInv
<1>14. CASE rpoplpushHandlePush
  <2>1. /\ value.dst \in Key /\ value.elem \in 1..elems /\ pc = "push" /\ ~data[value.dst].str
        /\ data' = PushHead(value.dst, value.elem, data)
        /\ signalListAsReady({k \in {value.dst} : data[k] = Absent /\ k # serving})
        /\ UNCHANGED <<blocking_keys, handling, serving, left>>
    BY <1>14 DEF rpoplpushHandlePush
  <2> SUFFICES ASSUME NEW k \in Key, blocking_keys[k] # <<>>, data'[k].list # <<>>, k # serving
               PROVE  k \in ToSet(ready_keys') \cup ToSet(handling)
    <3>1. serving \in Key => left = Len(blocking_keys[serving])
      BY <2>1, CommandAssumption DEF ServeInv
    <3> QED
      BY <2>1, <3>1 DEF WaitersInv
  <2> DEFINE news == {l \in {value.dst} : data[l] = Absent /\ l # serving}
  <2>2. ToSet(ready_keys') =
           ToSet(ready_keys) \cup {l \in news : /\ blocking_keys[l] # <<>>
                                             /\ l \notin ToSet(ready_keys) \cup ToSet(handling)}
    <3>1. news \in SUBSET Key
      BY <2>1
    <3> HIDE DEF news
    <3> QED
      BY <2>1, <3>1, SignalFacts DEF news
  <2>3. CASE data[k].list # <<>>
    BY <2>2, <2>3 DEF WaitersInv
  <2>4. CASE data[k].list = <<>>
    <3>1. k = value.dst
      BY <2>1, <2>4, PushHeadFacts
    <3>2. data[k] = Absent
      BY <2>1, <2>4, <3>1, KeySpaceValues, ValueFacts
    <3> QED
      BY <2>2, <3>1, <3>2
  <2> QED
    BY <2>3, <2>4
<1>15. CASE UNCHANGED vars
  BY <1>1, <1>15 DEF vars
<1> QED
  BY <1>3, <1>4, <1>5, <1>6, <1>7, <1>8, <1>9, <1>10, <1>11, <1>12, <1>13, <1>14, <1>15
     DEF Next, ThreadStep, ClientStep

\* Between two commands no client sleeps on a list with elements, however
\* many wait, for how many keys, and through whatever transactions and
\* services the elements came, if nothing is renamed: RENAME brings a list
\* to a key without signalListAsReady.
THEOREM NoClientLeftWaiting ==
    ASSUME NoneSends("RENAME")
    PROVE  Spec => []NoWaiterOnList
<1>1. Init => WaitersInv
  BY DEF Init, WaitersInv
<1>2. BlockInv /\ WaitersInv /\ [Next]_vars => WaitersInv'
  BY WaitersStep
<1>3. BlockInv /\ WaitersInv => NoWaiterOnList
  <2> SUFFICES ASSUME BlockInv, WaitersInv, pc = "idle", NEW cl \in Client, NEW k \in bpop_keys[cl],
                      data[k].list # <<>>
               PROVE  FALSE
    BY DEF NoWaiterOnList
  <2>1. k \in Key /\ cl \in ToSet(blocking_keys[k])
    BY DEF BlockInv, TypeInv, TypeOK, BlockLinks
  <2>2. blocking_keys[k] # <<>> /\ ready_keys = <<>> /\ handling = <<>> /\ serving = NoKey
    BY <2>1, ToSetEmpty DEF BlockInv, TypeInv, ControlInv
  <2> QED
    BY <2>1, <2>2, ToSetEmpty, CommandAssumption DEF WaitersInv
<1> QED
  BY <1>1, <1>2, <1>3, BlockInvariant, PTL DEF Spec

----------------------------------------------------------------------------
(* What is propagated *)

\* What the slave shows inside a MULTI is what it showed before.
LEMMA MultiStep ==
    ASSUME MultiInv, [Next]_vars
    PROVE  MultiInv'
<1> USE DEF dataVars, slaveVars, multiVars, watchVars, blockVars, execVars, serveVars
<1>1. ASSUME UNCHANGED slaveVars, pc' = "exec" /\ propagated' => pc = "exec" /\ propagated PROVE MultiInv'
  BY <1>1 DEF MultiInv
<1>2. ASSUME NEW cmd, NEW e, Feed(cmd, e), pc' # "exec" \/ (pc = "exec" /\ propagated' = propagated)
      PROVE  MultiInv'
  BY <1>2 DEF MultiInv, Feed
<1>3. ASSUME NEW c \in Client,
             multiCommand(c) \/ discardCommand(c) \/ unwatchCommand(c) \/ flagTransaction(c)
             \/ ExecAborts(c) \/ execCommand(c) \/ createClient(c)
      PROVE  MultiInv'
  BY <1>1, <1>3 DEF multiCommand, discardCommand, unwatchCommand, flagTransaction, ExecAborts,
                    execCommand, createClient
<1>4. ASSUME NEW c \in Client, NEW k \in Key, watchCommand(c, k) PROVE MultiInv'
  BY <1>1, <1>4 DEF watchCommand
<1>5. ASSUME NEW c \in Client, clientsCronHandleTimeout(c) \/ freeClient(c) PROVE MultiInv'
  BY <1>1, <1>5 DEF clientsCronHandleTimeout, freeClient
<1>6. ASSUME NEW c \in Client, NEW cmd \in CommandOf(Names[c]),
             queueMultiCommand(c, cmd) \/ BlockingPop(c, cmd)
      PROVE  MultiInv'
  BY <1>1, <1>6 DEF queueMultiCommand, BlockingPop
<1>7. ASSUME NEW c \in Client, NEW cmd \in CommandOf(Names[c]), call(c, cmd) PROVE MultiInv'
  <2>1. pc' # "exec"
    BY <1>7 DEF call, AfterCommand
  <2> QED
    BY <1>1, <1>2, <1>7, <2>1 DEF call
<1>8. CASE ExecStep
  <2> DEFINE cmd == Head(todo)
  <2>1. pc = "exec" /\ propagated' = (propagated \/ NeedsMulti(cmd))
    BY <1>8 DEF ExecStep
  <2>2. CASE NeedsMulti(cmd)
    BY <1>8, <2>2 DEF ExecStep, FeedMultiAnd, MultiInv
  <2>3. CASE ~NeedsMulti(cmd)
    <3>1. Feed(Rewritten(cmd), elems + 1) \/ UNCHANGED slaveVars
      BY <1>8, <2>3 DEF ExecStep
    <3>2. propagated' => propagated
      BY <2>1, <2>3
    <3> QED
      BY <2>1, <3>1, <3>2 DEF Feed, MultiInv
  <2> QED
    BY <2>2, <2>3
<1>9. CASE ExecEnd
  BY <1>9 DEF ExecEnd, FeedExec, MultiInv
<1>10. CASE NextReadyKey \/ KeyServed \/ AllServed \/ beforeSleep \/ backgroundSaveDoneHandler
  BY <1>1, <1>10 DEF NextReadyKey, KeyServed, AllServed, beforeSleep, backgroundSaveDoneHandler
<1>11. ASSUME NEW c \in Client, ServePop(c) \/ ServeWrongType(c) \/ ServePopPush(c) PROVE MultiInv'
  <2>1. pc' # "exec"
    BY <1>11 DEF ServePop, ServeWrongType, ServePopPush, Serves
  <2> QED
    BY <1>1, <1>2, <1>11, <2>1 DEF ServePop, ServeWrongType, ServePopPush
<1>12. CASE rpoplpushHandlePush
  BY <1>2, <1>12 DEF rpoplpushHandlePush
<1>13. CASE UNCHANGED vars
  BY <1>1, <1>13 DEF vars
<1> QED
  BY <1>3, <1>4, <1>5, <1>6, <1>7, <1>8, <1>9, <1>10, <1>11, <1>12, <1>13 DEF Next, ThreadStep, ClientStep

LEMMA MultiInvariant == Spec => []MultiInv
<1>1. Init => MultiInv
  BY DEF Init, MultiInv
<1> QED
  BY <1>1, MultiStep, PTL DEF Spec

\* A reader of the slave sees nothing of a transaction before it has ended:
\* execCommand propagates MULTI before the first command that may write.  A
\* SAVE before it may be propagated alone, and changes nothing.
THEOREM TransactionsAreAtomic == Spec => TransactionIsAtomic
<1>1. ASSUME MultiInv, [Next]_vars, pc = "exec", pc' = "exec" PROVE rdata' = rdata
  <2> USE DEF dataVars, slaveVars, multiVars, watchVars, blockVars, execVars, serveVars
  <2>1. CASE ExecStep
    <3> DEFINE cmd == Head(todo)
    <3>1. CASE NeedsMulti(cmd)
      BY <2>1, <3>1 DEF ExecStep, FeedMultiAnd
    <3>2. CASE ~NeedsMulti(cmd) /\ propagated
      BY <1>1, <2>1, <3>2 DEF ExecStep, Feed, MultiInv
    <3>3. CASE ~NeedsMulti(cmd) /\ ~propagated
      <4>1. cmd.name \in ReadOnly /\ Rewritten(cmd) = cmd
        BY <3>3 DEF NeedsMulti, ReadOnly, Rewritten
      <4>2. Effect(cmd, elems + 1, rnext) = rnext
        BY <4>1, ModifiesByName, EffectByName DEF ReadOnly
      <4> QED
        BY <1>1, <2>1, <3>3, <4>1, <4>2 DEF ExecStep, Feed, MultiInv
    <3> QED
      BY <3>1, <3>2, <3>3
  <2>2. CASE UNCHANGED vars
    BY <2>2 DEF vars
  <2>3. ASSUME NEW c \in Client, ClientStep(c) PROVE FALSE
    BY <1>1, <2>3 DEF ClientStep, multiCommand, discardCommand, unwatchCommand, watchCommand,
       queueMultiCommand, call, BlockingPop, flagTransaction, ExecAborts, execCommand,
       clientsCronHandleTimeout, freeClient, createClient, MaySend
  <2>4. CASE ExecEnd
    BY <1>1, <2>4 DEF ExecEnd
  <2>5. ASSUME ThreadStep, ~ExecStep, ~ExecEnd PROVE FALSE
    BY <1>1, <2>5 DEF ThreadStep, NextReadyKey, KeyServed, AllServed, ServePop, ServeWrongType,
       ServePopPush, Serves, rpoplpushHandlePush, beforeSleep, backgroundSaveDoneHandler
  <2> QED
    BY <1>1, <2>1, <2>2, <2>3, <2>4, <2>5 DEF Next
<1> QED
  BY <1>1, MultiInvariant, PTL DEF Spec, TransactionIsAtomic

\* A command is propagated when it changed something, unless it was a SAVE,
\* and then its effect on the slave is the one it had.
LEMMA PropagatedFacts ==
    ASSUME TypeOK, rnext = data, NEW cmd \in Sent, cmd.name # "SAVE", CallProc(cmd)
    PROVE  /\ dirty' >= dirty
           /\ cmd.name \in ReadOnly => dirty' = dirty
           /\ dirty' # dirty => data' = Effect(Rewritten(cmd), elems + 1, rnext)
           /\ dirty' = dirty => data' = rnext
<1>1. cmd \in Command /\ elems \in Nat /\ data \in KeySpaces(elems) /\ dirty \in Nat
  BY SentFacts DEF TypeOK
<1>2. data' = Effect(cmd, elems + 1, data) /\ dirty' = DirtyAfter(cmd)
  BY DEF CallProc
<1>3. dirty' >= dirty /\ (dirty' = dirty <=> ~Modifies(cmd, data))
  BY <1>1, <1>2, DirtyFacts
<1>4. cmd.name \in ReadOnly => dirty' = dirty
  BY <1>3, ModifiesByName DEF ReadOnly
<1>5. dirty' # dirty => data' = Effect(Rewritten(cmd), elems + 1, rnext)
  BY <1>1, <1>2, RewrittenFacts
<1>6. dirty' = dirty => data' = rnext
  BY <1>2, <1>3, EffectByName
<1> QED
  BY <1>3, <1>4, <1>5, <1>6

\* What the service of a client propagates has the effect it has here.
LEMMA ServedEffect ==
    ASSUME NEW d, NEW k, NEW e
    PROVE  /\ d[k].list # <<>> =>
                /\ Effect([name |-> "LPOP", key |-> k, dst |-> k], e, d) = PopHead(k, d)
                /\ Effect([name |-> "RPOP", key |-> k, dst |-> k], e, d) = PopTail(k, d)
           /\ Effect([name |-> "LPUSH", key |-> k, dst |-> k], e, d) = PushHead(k, e, d)
<1> DEFINE lpop  == [name |-> "LPOP", key |-> k, dst |-> k]
           rpop  == [name |-> "RPOP", key |-> k, dst |-> k]
           lpush == [name |-> "LPUSH", key |-> k, dst |-> k]
<1>1. /\ lpop.name = "LPOP" /\ lpop.key = k /\ lpop.dst = k
      /\ rpop.name = "RPOP" /\ rpop.key = k /\ rpop.dst = k
      /\ lpush.name = "LPUSH" /\ lpush.key = k /\ lpush.dst = k
  OBVIOUS
<1> HIDE DEF lpop, rpop, lpush
<1>2. PopKey(lpop, d) = k
  BY <1>1 DEF PopKey
<1>3. /\ Modifies(lpop, d) <=> d[k].list # <<>>
      /\ Modifies(rpop, d) <=> d[k].list # <<>>
      /\ Modifies(lpush, d)
  BY <1>1, ModifiesByName
<1>4. d[k].list # <<>> => Effect(lpop, e, d) = PopHead(k, d)
  BY <1>1, <1>2, <1>3, EffectByName
<1>5. d[k].list # <<>> => Effect(rpop, e, d) = PopTail(k, d)
  BY <1>1, <1>3, EffectByName
<1>6. Effect(lpush, e, d) = PushHead(k, e, d)
  BY <1>1, <1>3, EffectByName
<1> QED
  BY <1>4, <1>5, <1>6 DEF lpop, rpop, lpush

\* The slave follows each command and each step of a service, and a MULTI
\* it has read is one that EXEC has sent and will end.
LEMMA StreamStep ==
    ASSUME NoneSends("SAVE"), TypeInv, StreamInv, [Next]_vars
    PROVE  StreamInv'
<1> USE DEF TypeInv, TypeOK, ControlInv, dataVars, slaveVars, multiVars, watchVars, blockVars,
            execVars, serveVars
<1>1. ASSUME UNCHANGED <<data, slaveVars>>, pc # "exec", pc' # "exec" PROVE StreamInv'
  BY <1>1 DEF StreamInv
<1>2. ASSUME NEW cmd, NEW e, pc # "exec", pc' # "exec", Feed(cmd, e), data' = Effect(cmd, e, rnext)
      PROVE  StreamInv'
  BY <1>2 DEF StreamInv, Feed
<1>3. \A cmd \in Sent : cmd.name # "SAVE"
  BY SentFacts DEF NoneSends
<1>4. ASSUME NEW c \in Client,
             multiCommand(c) \/ discardCommand(c) \/ unwatchCommand(c) \/ flagTransaction(c)
             \/ ExecAborts(c) \/ createClient(c)
      PROVE  StreamInv'
  BY <1>1, <1>4 DEF multiCommand, discardCommand, unwatchCommand, flagTransaction, ExecAborts,
                    createClient, MaySend
<1>5. ASSUME NEW c \in Client, execCommand(c) PROVE StreamInv'
  BY <1>5 DEF execCommand, MaySend, StreamInv
<1>6. ASSUME NEW c \in Client, NEW k \in Key, watchCommand(c, k) PROVE StreamInv'
  BY <1>1, <1>6 DEF watchCommand, MaySend
<1>7. ASSUME NEW c \in Client, clientsCronHandleTimeout(c) \/ freeClient(c) PROVE StreamInv'
  BY <1>1, <1>7 DEF clientsCronHandleTimeout, freeClient
<1>8. ASSUME NEW c \in Client, NEW cmd \in CommandOf(Names[c]),
             queueMultiCommand(c, cmd) \/ BlockingPop(c, cmd)
      PROVE  StreamInv'
  BY <1>1, <1>8 DEF queueMultiCommand, BlockingPop, MaySend
<1>9. ASSUME NEW c \in Client, NEW cmd \in CommandOf(Names[c]), call(c, cmd) PROVE StreamInv'
  <2>1. cmd \in Sent /\ cmd.name # "SAVE" /\ CallProc(cmd) /\ pc = "idle" /\ pc' # "exec" /\ rnext = data
    BY <1>3, <1>9, SentFacts DEF call, AfterCommand, MaySend, StreamInv
  <2>2. CASE dirty' # dirty
    <3>1. data' = Effect(Rewritten(cmd), elems + 1, rnext)
      BY <2>1, <2>2, PropagatedFacts
    <3>2. Feed(Rewritten(cmd), elems + 1)
      BY <1>9, <2>2 DEF call
    <3> QED
      BY <1>2, <2>1, <3>1, <3>2
  <2>3. CASE dirty' = dirty
    <3>1. data' = rnext
      BY <2>1, <2>3, PropagatedFacts
    <3> QED
      BY <1>1, <1>9, <2>1, <2>3, <3>1 DEF call
  <2> QED
    BY <2>2, <2>3
<1>10. CASE ExecStep
  <2> DEFINE cmd == Head(todo)
             e == elems + 1
  <2>1. cmd \in Sent /\ cmd.name # "SAVE" /\ CallProc(cmd) /\ pc = "exec" /\ pc' = "exec"
        /\ rnext = data /\ before' = before /\ propagated' = (propagated \/ NeedsMulti(cmd))
    BY <1>3, <1>10 DEF ExecStep, StreamInv
  <2>2. /\ dirty' >= dirty
        /\ cmd.name \in ReadOnly => dirty' = dirty
        /\ dirty' # dirty => data' = Effect(Rewritten(cmd), e, rnext)
        /\ dirty' = dirty => data' = rnext
    BY <2>1, PropagatedFacts
  <2>3. /\ NeedsMulti(cmd) => FeedMultiAnd(Rewritten(cmd), e, dirty' # dirty)
        /\ ~NeedsMulti(cmd) => IF dirty' # dirty THEN Feed(Rewritten(cmd), e) ELSE UNCHANGED slaveVars
    BY <1>10 DEF ExecStep
  <2>4. /\ dirty \in Nat /\ before \in Nat /\ dirty' \in Nat
        /\ before <= dirty /\ (~propagated => dirty = before) /\ (rmulti => propagated)
    <3>1. dirty' \in Nat
      BY <2>1, CallFacts
    <3> QED
      BY <2>1, <3>1 DEF StreamInv
  <2> HIDE DEF cmd, e
  <2>5. rnext' = data'
    BY <2>2, <2>3 DEF Feed, FeedMultiAnd
  <2>6. rmulti' => propagated'
    BY <2>1, <2>3, <2>4 DEF Feed, FeedMultiAnd
  <2>7. before <= dirty' /\ (~propagated' => dirty' = before)
    <3>1. ~propagated' => ~propagated /\ cmd.name \in ReadOnly
      BY <2>1 DEF NeedsMulti
    <3>2. ~propagated' => dirty' = before
      BY <2>2, <2>4, <3>1
    <3> QED
      BY <2>2, <2>4, <3>2
  <2> QED
    BY <2>1, <2>5, <2>6, <2>7 DEF StreamInv
<1>11. CASE ExecEnd
  <2>1. /\ pc = "exec" /\ pc' # "exec" /\ data' = data /\ rnext' = rnext
        /\ dirty' = dirty + (IF propagated THEN 1 ELSE 0)
        /\ IF dirty' # before THEN FeedExec ELSE UNCHANGED slaveVars
    BY <1>11 DEF ExecEnd, FeedExec
  <2>2. dirty \in Nat /\ before \in Nat /\ before <= dirty /\ (rmulti => propagated) /\ rnext = data
    BY <2>1 DEF StreamInv
  <2>3. ~rmulti'
    BY <2>1, <2>2 DEF FeedExec
  <2> QED
    BY <2>1, <2>2, <2>3 DEF StreamInv
<1>12. CASE NextReadyKey \/ KeyServed \/ AllServed \/ beforeSleep \/ backgroundSaveDoneHandler
  BY <1>1, <1>12 DEF NextReadyKey, KeyServed, AllServed, beforeSleep, backgroundSaveDoneHandler
<1>13. ASSUME NEW c \in Client, ServePop(c) \/ ServeWrongType(c) \/ ServePopPush(c) PROVE StreamInv'
  <2>1. pc = "serve" /\ pc' # "exec" /\ data[serving].list # <<>> /\ rnext = data
    BY <1>13 DEF ServePop, ServeWrongType, ServePopPush, Serves, StreamInv
  <2>2. CASE ServePop(c)
    BY <1>2, <2>1, <2>2, ServedEffect DEF ServePop
  <2>3. CASE ServeWrongType(c)
    BY <1>1, <2>1, <2>3 DEF ServeWrongType
  <2>4. CASE ServePopPush(c)
    BY <1>2, <2>1, <2>4, ServedEffect DEF ServePopPush
  <2> QED
    BY <1>13, <2>2, <2>3, <2>4
<1>14. CASE rpoplpushHandlePush
  <2>1. rnext = data
    BY DEF StreamInv
  <2> QED
    BY <1>2, <1>14, <2>1, ServedEffect DEF rpoplpushHandlePush
<1>15. CASE UNCHANGED vars
  BY <1>15 DEF vars, StreamInv
<1> QED
  BY <1>4, <1>5, <1>6, <1>7, <1>8, <1>9, <1>10, <1>11, <1>12, <1>13, <1>14, <1>15
     DEF Next, ThreadStep, ClientStep

\* Between two commands the slave, and an AOF that is read like it, has the
\* dataset, whatever transactions and services of blocked clients led
\* there, if no client sends SAVE: a SAVE inside a transaction resets dirty,
\* by which EXEC decides whether it is propagated.
THEOREM SlaveIsExact ==
    ASSUME NoneSends("SAVE")
    PROVE  Spec => []ReplicaIsExact
<1>1. Init => StreamInv
  BY DEF Init, StreamInv
<1>2. BlockInv /\ StreamInv /\ [Next]_vars => StreamInv'
  BY StreamStep DEF BlockInv
<1>3. StreamInv /\ MultiInv => ReplicaIsExact
  BY DEF StreamInv, MultiInv, ReplicaIsExact
<1> QED
  BY <1>1, <1>2, <1>3, BlockInvariant, MultiInvariant, PTL DEF Spec

----------------------------------------------------------------------------
(* WATCH *)

\* The watchers of the keys that a command changes, or announces, know it.
LEMMA WatchersTold ==
    ASSUME TypeOK, WatchLinks, TouchedInv, serving = NoKey, NEW cmd \in Sent, CallProc(cmd),
           UNCHANGED <<handling, serving, refused, dirty_exec>>
    PROVE  TouchedInv'
<1>1. cmd \in Command /\ elems \in Nat /\ data \in KeySpaces(elems)
  BY SentFacts DEF TypeOK
<1>2. /\ data' = Effect(cmd, elems + 1, data)
      /\ watched' = watched
      /\ changed' = [cl \in Client |-> changed[cl] \cup {k \in watched[cl] : data'[k] # data[k]}]
      /\ dirty_cas' = [cl \in Client |-> dirty_cas[cl] \/ cl \in TouchedClients(cmd)]
      /\ signalListAsReady(CreatedList(cmd))
  BY DEF CallProc, ChangeWatched, touchWatchedKey
<1>3. ToSet(ready_keys') =
         ToSet(ready_keys) \cup {l \in CreatedList(cmd) : /\ blocking_keys[l] # <<>>
                                                        /\ l \notin ToSet(ready_keys) \cup ToSet(handling)}
  BY <1>2, SignalFacts DEF CreatedList
<1>4. ASSUME NEW cl \in Client, NEW k \in watched[cl], Modifies(cmd, data),
             cmd.name = "FLUSHDB" => data[k] # Absent,
             cmd.name = "BLPOP" => k = PopKey(cmd, data),
             cmd.name \notin {"FLUSHDB", "BLPOP"} => k \in {cmd.key, cmd.dst}
      PROVE  cl \in TouchedClients(cmd)
  <2>1. k \in Key /\ cl \in watched_keys[k] /\ cl \in connected
    BY DEF WatchLinks, TypeOK
  <2>2. CASE cmd.name = "FLUSHDB"
    BY <1>4, <2>1, <2>2 DEF TouchedClients
  <2>3. CASE cmd.name # "FLUSHDB"
    <3>1. k \in Signalled(cmd)
      BY <1>4, <2>3 DEF Signalled
    <3> QED
      BY <1>4, <2>1, <2>3, <3>1 DEF TouchedClients
  <2> QED
    BY <2>2, <2>3
<1>5. ASSUME NEW cl \in Client, NEW k \in watched[cl], data'[k] # data[k] PROVE cl \in TouchedClients(cmd)
  <2>1. k \in Key
    BY DEF TypeOK
  <2> QED
    BY <1>1, <1>2, <1>4, <1>5, <2>1, EffectChanges
<1>6. ASSUME NEW cl \in Client, NEW k \in watched[cl], k \in CreatedList(cmd) PROVE cl \in TouchedClients(cmd)
  BY <1>4, <1>6 DEF CreatedList
<1>7. ASSUME NEW cl \in Client, changed'[cl] # {} PROVE dirty_cas'[cl]
  BY <1>2, <1>5, <1>7 DEF TouchedInv
<1>8. ASSUME NEW cl \in Client, NEW k \in watched[cl],
             k \in ToSet(ready_keys') \cup ToSet(handling) \cup {serving}
      PROVE  dirty_cas'[cl]
  BY <1>2, <1>3, <1>6, <1>8 DEF TouchedInv
<1> QED
  BY <1>2, <1>7, <1>8 DEF TouchedInv

\* A key that will be served was announced by a change of it.
LEMMA TouchedStep ==
    ASSUME TypeInv, WatchLinks, TouchedInv, [Next]_vars
    PROVE  TouchedInv'
<1> USE DEF TypeInv, TypeOK, ControlInv, dataVars, slaveVars, multiVars, watchVars, blockVars,
            execVars, serveVars
<1>1. ASSUME UNCHANGED <<changed, watched, dirty_cas, refused, dirty_exec, ready_keys, handling, serving>>
      PROVE  TouchedInv'
  BY <1>1 DEF TouchedInv
<1>2. ASSUME NEW c \in Client, unwatchAllKeys(c), UNCHANGED <<ready_keys, handling, serving>>,
             \A cl \in Client : cl # c => dirty_cas'[cl] = dirty_cas[cl],
             UNCHANGED <<refused, dirty_exec>> \/ ClearTransaction(c)
      PROVE  TouchedInv'
  BY <1>2 DEF TouchedInv, unwatchAllKeys, ClearTransaction
<1>3. ASSUME NEW c \in Client, multiCommand(c) \/ createClient(c) \/ clientsCronHandleTimeout(c)
      PROVE  TouchedInv'
  BY <1>1, <1>3 DEF multiCommand, createClient, clientsCronHandleTimeout
<1>4. ASSUME NEW c \in Client, flagTransaction(c) PROVE TouchedInv'
  BY <1>4 DEF flagTransaction, TouchedInv
<1>5. ASSUME NEW c \in Client, discardCommand(c) \/ ExecAborts(c) \/ freeClient(c) PROVE TouchedInv'
  BY <1>2, <1>5 DEF discardCommand, ExecAborts, freeClient, discardTransaction
<1>6. ASSUME NEW c \in Client, unwatchCommand(c) \/ execCommand(c) PROVE TouchedInv'
  BY <1>2, <1>6 DEF unwatchCommand, execCommand
<1>7. ASSUME NEW c \in Client, NEW k \in Key, watchCommand(c, k) PROVE TouchedInv'
  BY <1>7, ToSetEmpty, CommandAssumption DEF watchCommand, MaySend, TouchedInv
<1>8. ASSUME NEW c \in Client, NEW cmd \in CommandOf(Names[c]),
             queueMultiCommand(c, cmd) \/ BlockingPop(c, cmd)
      PROVE  TouchedInv'
  BY <1>1, <1>8 DEF queueMultiCommand, BlockingPop
<1>9. ASSUME NEW c \in Client, NEW cmd \in CommandOf(Names[c]), call(c, cmd) PROVE TouchedInv'
  <2>1. cmd \in Sent /\ serving = NoKey
    BY <1>9, SentFacts DEF call, MaySend
  <2> QED
    BY <1>9, <2>1, WatchersTold DEF call
<1>10. CASE ExecStep
  <2>1. Head(todo) \in Sent /\ serving = NoKey
    BY <1>10 DEF ExecStep
  <2> QED
    BY <1>10, <2>1, WatchersTold DEF ExecStep
<1>11. CASE ExecEnd
  <2>1. current \in Client
    BY <1>11 DEF ExecEnd
  <2> QED
    BY <1>2, <1>11, <2>1 DEF ExecEnd, discardTransaction
<1>12. CASE NextReadyKey
  BY <1>12, NextReadyFacts DEF NextReadyKey, TouchedInv
<1>13. CASE KeyServed
  BY <1>13, CommandAssumption DEF KeyServed, TouchedInv
<1>14. CASE AllServed \/ beforeSleep \/ backgroundSaveDoneHandler
  BY <1>1, <1>14 DEF AllServed, beforeSleep, backgroundSaveDoneHandler
<1>15. ASSUME NEW c \in Client, ServePop(c) \/ ServeWrongType(c) \/ ServePopPush(c) PROVE TouchedInv'
  <2>1. CASE ServeWrongType(c)
    BY <1>1, <2>1 DEF ServeWrongType
  <2>2. CASE ServePop(c) \/ ServePopPush(c)
    <3>1. /\ data' \in {PopHead(serving, data), PopTail(serving, data)}
          /\ ChangeWatched /\ serving \in Key /\ data[serving].list # <<>>
          /\ UNCHANGED <<dirty_cas, refused, dirty_exec, ready_keys, handling, serving>>
      BY <2>2 DEF ServePop, ServePopPush, Serves
    <3>2. \A k \in Key : k # serving => data'[k] = data[k]
      BY <3>1, PopHeadFacts, PopTailFacts
    <3> QED
      BY <3>1, <3>2 DEF ChangeWatched, TouchedInv
  <2> QED
    BY <1>15, <2>1, <2>2
<1>16. CASE rpoplpushHandlePush
  <2>1. /\ value.dst \in Key /\ value.elem \in 1..elems
        /\ data' = PushHead(value.dst, value.elem, data)
        /\ ChangeWatched /\ touchWatchedKey(watched_keys[value.dst])
        /\ UNCHANGED <<refused, dirty_exec, handling, serving>>
    BY <1>16 DEF rpoplpushHandlePush
  <2>2. \A k \in Key : k # value.dst => data'[k] = data[k]
    <3>1. elems \in Nat /\ data \in KeySpaces(elems)
      OBVIOUS
    <3> DEFINE k == value.dst
               e == value.elem
    <3>2. k \in Key /\ e \in 1..elems
      BY <2>1
    <3> HIDE DEF k, e, TypeOK
    <3>3. \A l \in Key : l # k => PushHead(k, e, data)[l] = data[l]
      BY <3>1, <3>2, PushHeadFacts
    <3> QED
      BY <2>1, <3>3 DEF k, e
  <2>3. ToSet(ready_keys') \subseteq ToSet(ready_keys) \cup {value.dst}
    <3> DEFINE keys == {k \in {value.dst} : data[k] = Absent /\ k # serving}
    <3>1. keys \in SUBSET Key /\ keys \subseteq {value.dst} /\ signalListAsReady(keys)
      BY <1>16, <2>1 DEF rpoplpushHandlePush
    <3>2. TypeOK
      OBVIOUS
    <3> HIDE DEF keys, TypeOK
    <3>3. ToSet(ready_keys') =
             ToSet(ready_keys) \cup {l \in keys : /\ blocking_keys[l] # <<>>
                                               /\ l \notin ToSet(ready_keys) \cup ToSet(handling)}
      BY <3>1, <3>2, SignalFacts
    <3> QED
      BY <3>1, <3>3
  <2>4. /\ changed' = [cl \in Client |-> changed[cl] \cup {k \in watched[cl] : data'[k] # data[k]}]
        /\ watched' = watched
        /\ dirty_cas' = [cl \in Client |-> dirty_cas[cl] \/ cl \in watched_keys[value.dst]]
    BY <2>1 DEF ChangeWatched, touchWatchedKey
  <2>5. ASSUME NEW cl \in Client, NEW k \in watched[cl], k = value.dst PROVE dirty_cas'[cl]
    BY <2>1, <2>4, <2>5 DEF WatchLinks
  <2>6. ASSUME NEW cl \in Client, changed'[cl] # {} PROVE dirty_cas'[cl]
    BY <2>2, <2>4, <2>5, <2>6 DEF TouchedInv
  <2>7. ASSUME NEW cl \in Client, NEW k \in watched[cl],
               k \in ToSet(ready_keys') \cup ToSet(handling) \cup {serving}
        PROVE  dirty_cas'[cl]
    BY <2>3, <2>4, <2>5, <2>7 DEF TouchedInv
  <2> QED
    BY <2>1, <2>4, <2>6, <2>7 DEF TouchedInv
<1>17. CASE UNCHANGED vars
  BY <1>1, <1>17 DEF vars
<1> QED
  BY <1>3, <1>4, <1>5, <1>6, <1>7, <1>8, <1>9, <1>10, <1>11, <1>12, <1>13, <1>14, <1>15, <1>16, <1>17
     DEF Next, ThreadStep, ClientStep

\* EXEC never runs the transaction of a client one of whose watched keys
\* changed since it watched it, by a command, a transaction, a flush or the
\* service of a blocked client, or one of whose commands was refused: the
\* change, or the refusal, has left its flag.
THEOREM TransactionsAreClean == Spec => ExecIsClean
<1> DEFINE I == BlockInv /\ WatchLinks /\ TouchedInv
<1>1. Init => I
  <2>1. Init => WatchLinks /\ TouchedInv
    BY DEF Init, WatchLinks, TouchedInv
  <2> QED
    BY <2>1, BlockInit
<1>2. I /\ [Next]_vars => I'
  BY TypeStep, BlockLinksStep, ServeStep, WatchLinksStep, TouchedStep DEF BlockInv
<1>3. ASSUME I, [Next]_vars, pc = "idle", pc' = "exec"
      PROVE  changed[current'] = {} /\ ~refused[current']
  <2>1. PICK c \in Client : execCommand(c)
    <3>1. ASSUME ThreadStep PROVE FALSE
      BY <1>3, <3>1 DEF ThreadStep, ExecStep, ExecEnd, NextReadyKey, KeyServed, AllServed, ServePop,
         ServeWrongType, ServePopPush, Serves, rpoplpushHandlePush, beforeSleep,
         backgroundSaveDoneHandler, execVars, serveVars
    <3>2. ASSUME NEW c \in Client, ClientStep(c), ~execCommand(c) PROVE FALSE
      BY <1>3, <3>2 DEF ClientStep, multiCommand, discardCommand, unwatchCommand, watchCommand,
         queueMultiCommand, call, AfterCommand, BlockingPop, flagTransaction, ExecAborts,
         clientsCronHandleTimeout, freeClient, createClient
    <3>3. ~UNCHANGED vars
      BY <1>3 DEF vars
    <3> QED
      BY <1>3, <3>1, <3>2, <3>3 DEF Next
  <2>2. current' = c /\ ~dirty_cas[c] /\ ~dirty_exec[c]
    BY <2>1 DEF execCommand
  <2> QED
    BY <1>3, <2>2 DEF TouchedInv
<1> QED
  BY <1>1, <1>2, <1>3, PTL DEF Spec, ExecIsClean

----------------------------------------------------------------------------
(* The elements of the lists *)

(* ElementsInv, in the terms of the lemmas about key spaces.               *)
Accounted ==
    /\ Elements(data) \cup gone \cup {value.elem} \cup {0} = 0..elems
    /\ Distinct(data)
    /\ Elements(data) \cap (gone \cup {value.elem}) = {}
    /\ value.elem \notin gone

LEMMA AccountedIsInv ==
    ASSUME TypeOK
    PROVE  Accounted <=> ElementsInv
<1>1. data \in [Key -> Values(elems)] /\ elems \in Nat
  BY KeySpaceValues DEF TypeOK
<1>2. ASSUME NEW k \in Key PROVE DOMAIN data[k].list = 1..Len(data[k].list)
  <2>1. data[k].list \in Seq(1..elems)
    BY <1>1, ValueFacts
  <2> QED
    BY <2>1, LenProperties
<1>3. Distinct(data) <=>
        \A k, l \in Key : \A i \in DOMAIN data[k].list, j \in DOMAIN data[l].list :
            data[k].list[i] = data[l].list[j] => k = l /\ i = j
  <2>1. ASSUME NEW k \in Key, NEW l \in Key
        PROVE  (\A i \in 1..Len(data[k].list), j \in 1..Len(data[l].list) :
                    data[k].list[i] = data[l].list[j] => k = l /\ i = j)
               <=> \A i \in DOMAIN data[k].list, j \in DOMAIN data[l].list :
                    data[k].list[i] = data[l].list[j] => k = l /\ i = j
    <3>1. DOMAIN data[k].list = 1..Len(data[k].list) /\ DOMAIN data[l].list = 1..Len(data[l].list)
      BY <1>2
    <3> QED
      BY ONLY <3>1
  <2> QED
    BY <2>1, Zenon DEF Distinct
<1> QED
  BY <1>3 DEF Accounted, ElementsInv, ElementsKept

\* Elements are numbered from 1.
LEMMA ElementsInRange ==
    ASSUME NEW n \in Nat, NEW d \in KeySpaces(n)
    PROVE  Elements(d) \subseteq 1..n
<1> SUFFICES ASSUME NEW e \in Elements(d) PROVE e \in 1..n
  OBVIOUS
<1>1. PICK k \in Key : \E i \in 1..Len(d[k].list) : d[k].list[i] = e
  BY ElementsMember
<1>2. d[k].list \in Seq(1..n)
  BY KeySpaceValues, ValueFacts
<1> QED
  BY <1>1, <1>2, ElementOfSeq

\* A command puts the element that it pushes in one place, and notes those
\* that it drops.
LEMMA CommandsKeepElements ==
    ASSUME TypeOK, Accounted, value = NoValue, NEW cmd \in Sent, CallProc(cmd), value' = value
    PROVE  Accounted'
<1> DEFINE push == cmd.name = "RPUSH" /\ Modifies(cmd, data)
<1>1. cmd \in Command /\ elems \in Nat /\ data \in KeySpaces(elems) /\ gone \subseteq 1..elems
  BY SentFacts DEF TypeOK
<1>2. /\ data' = Effect(cmd, elems + 1, data)
      /\ elems' = IF push THEN elems + 1 ELSE elems
      /\ gone' = gone \cup (Elements(data) \ Elements(data'))
  BY DEF CallProc
<1>3. /\ Elements(data) \cup gone \cup {0} = 0..elems /\ Distinct(data)
      /\ Elements(data) \cap gone = {}
      /\ value.elem = 0 /\ value'.elem = 0
  BY DEF Accounted, NoValue
<1>4. Elements(data) \subseteq 1..elems
  BY <1>1, ElementsInRange
<1>5. elems + 1 \notin Elements(data)
  BY <1>1, <1>4
<1>6. /\ push => data' \in KeySpaces(elems + 1) /\ Elements(data') = Elements(data) \cup {elems + 1}
      /\ ~push => data' \in KeySpaces(elems) /\ Elements(data') \subseteq Elements(data)
      /\ Distinct(data')
  BY <1>1, <1>2, <1>3, <1>5, EffectFacts
<1>7. CASE push
  <2>1. elems' = elems + 1 /\ gone' = gone /\ Elements(data') = Elements(data) \cup {elems + 1}
    BY <1>2, <1>6, <1>7
  <2>2. 0..elems + 1 = (0..elems) \cup {elems + 1}
    BY <1>1
  <2>3. elems + 1 \notin gone /\ 0 \notin gone /\ 0 \notin Elements(data) /\ elems + 1 # 0
    BY <1>1, <1>4
  <2>4. Elements(data') \cup gone' \cup {0} = 0..elems'
    BY <1>3, <2>1, <2>2
  <2>5. Elements(data') \cap (gone' \cup {0}) = {} /\ 0 \notin gone'
    BY <1>3, <2>1, <2>3
  <2> QED
    BY <1>3, <1>6, <2>4, <2>5 DEF Accounted
<1>8. CASE ~push
  <2>1. elems' = elems /\ Elements(data') \subseteq Elements(data)
        /\ gone' = gone \cup (Elements(data) \ Elements(data'))
    BY <1>2, <1>6, <1>8
  <2>2. 0 \notin gone /\ 0 \notin Elements(data)
    BY <1>1, <1>4
  <2>3. Elements(data') \cup gone' \cup {0} = 0..elems'
    BY <1>3, <2>1
  <2>4. Elements(data') \cap (gone' \cup {0}) = {} /\ 0 \notin gone'
    BY <1>3, <2>1, <2>2
  <2> QED
    BY <1>3, <1>6, <2>3, <2>4 DEF Accounted
<1> QED
  BY <1>7, <1>8

\* BLPOP takes an element to its client, BRPOPLPUSH from list to list.
LEMMA AccountedStep ==
    ASSUME TypeInv, Accounted, [Next]_vars
    PROVE  Accounted'
<1> USE DEF TypeInv, ControlInv, dataVars, slaveVars, multiVars, watchVars, blockVars,
            execVars, serveVars
<1>1. ASSUME UNCHANGED <<data, gone, elems, value>> PROVE Accounted'
  BY <1>1 DEF Accounted
<1>2. ASSUME NEW c \in Client,
             multiCommand(c) \/ discardCommand(c) \/ unwatchCommand(c) \/ flagTransaction(c)
             \/ ExecAborts(c) \/ execCommand(c) \/ createClient(c)
      PROVE  Accounted'
  BY <1>1, <1>2 DEF multiCommand, discardCommand, unwatchCommand, flagTransaction, ExecAborts,
                    execCommand, createClient
<1>3. ASSUME NEW c \in Client, NEW k \in Key, watchCommand(c, k) PROVE Accounted'
  BY <1>1, <1>3 DEF watchCommand
<1>4. ASSUME NEW c \in Client, clientsCronHandleTimeout(c) \/ freeClient(c) PROVE Accounted'
  BY <1>1, <1>4 DEF clientsCronHandleTimeout, freeClient
<1>5. ASSUME NEW c \in Client, NEW cmd \in CommandOf(Names[c]),
             queueMultiCommand(c, cmd) \/ BlockingPop(c, cmd)
      PROVE  Accounted'
  BY <1>1, <1>5 DEF queueMultiCommand, BlockingPop
<1>6. ASSUME NEW c \in Client, NEW cmd \in CommandOf(Names[c]), call(c, cmd) PROVE Accounted'
  <2>1. cmd \in Sent /\ value = NoValue
    BY <1>6, SentFacts DEF call, MaySend
  <2> QED
    BY <1>6, <2>1, CommandsKeepElements DEF call
<1>7. CASE ExecStep
  <2>1. Head(todo) \in Sent /\ value = NoValue
    BY <1>7 DEF ExecStep, TypeOK
  <2> QED
    BY <1>7, <2>1, CommandsKeepElements DEF ExecStep
<1>8. CASE ExecEnd \/ NextReadyKey \/ KeyServed \/ AllServed \/ beforeSleep \/ backgroundSaveDoneHandler
  BY <1>1, <1>8 DEF ExecEnd, NextReadyKey, KeyServed, AllServed, beforeSleep, backgroundSaveDoneHandler
<1>9. elems \in Nat /\ data \in KeySpaces(elems) /\ gone \subseteq 1..elems
  BY DEF TypeOK
<1>10. Elements(data) \subseteq 1..elems
  BY <1>9, ElementsInRange
<1>11. 0 \notin Elements(data) /\ 0 \notin gone
  BY <1>9, <1>10
<1>12. ASSUME NEW c \in Client, ServePop(c) \/ ServeWrongType(c) \/ ServePopPush(c) PROVE Accounted'
  <2>1. serving \in Key /\ data[serving].list # <<>> /\ value.elem = 0
    BY <1>12 DEF ServePop, ServeWrongType, ServePopPush, Serves, TypeOK, NoValue
  <2>2. CASE ServeWrongType(c)
    BY <1>1, <2>2 DEF ServeWrongType
  <2>3. CASE ServePop(c)
    <3> DEFINE e == Head(data[serving].list)
    <3>1. data' = PopHead(serving, data) /\ gone' = gone \cup {e} /\ elems' = elems /\ value' = value
      BY <2>3 DEF ServePop
    <3>2. /\ Elements(data) = Elements(data') \cup {e} /\ e \in 1..elems
          /\ Distinct(data) <=> Distinct(data') /\ e \notin Elements(data')
      BY <1>9, <2>1, <3>1, PopHeadFacts
    <3> HIDE DEF e
    <3> QED
      BY <1>11, <2>1, <3>1, <3>2 DEF Accounted
  <2>4. CASE ServePopPush(c)
    <3> DEFINE e == Last(data[serving].list)
    <3>1. data' = PopTail(serving, data) /\ gone' = gone /\ elems' = elems /\ value'.elem = e
      BY <2>4 DEF ServePopPush
    <3>2. /\ Elements(data) = Elements(data') \cup {e} /\ e \in 1..elems
          /\ Distinct(data) <=> Distinct(data') /\ e \notin Elements(data')
      BY <1>9, <2>1, <3>1, PopTailFacts
    <3> HIDE DEF e
    <3> QED
      BY <1>11, <2>1, <3>1, <3>2 DEF Accounted
  <2> QED
    BY <1>12, <2>2, <2>3, <2>4
<1>13. CASE rpoplpushHandlePush
  <2> DEFINE k == value.dst
             e == value.elem
  <2>1. data' = PushHead(k, e, data) /\ gone' = gone /\ elems' = elems /\ value'.elem = 0
    BY <1>13 DEF rpoplpushHandlePush, NoValue
  <2>2. k \in Key /\ e \in 1..elems
    BY <1>13 DEF rpoplpushHandlePush, TypeOK
  <2>3. value.elem = e
    OBVIOUS
  <2> HIDE DEF k, e
  <2>4. /\ Elements(data') = Elements(data) \cup {e}
        /\ Distinct(data') <=> Distinct(data) /\ e \notin Elements(data)
    BY <1>9, <2>1, <2>2, PushHeadFacts
  <2>5. e # 0
    BY <1>9, <2>2
  <2> QED
    BY <1>11, <2>1, <2>3, <2>4, <2>5 DEF Accounted
<1>14. CASE UNCHANGED vars
  BY <1>1, <1>14 DEF vars
<1> QED
  BY <1>2, <1>3, <1>4, <1>5, <1>6, <1>7, <1>8, <1>12, <1>13, <1>14 DEF Next, ThreadStep, ClientStep

\* Every element that was pushed is in one place: in one list, with its
\* client, deleted with its key, or in the hands of BRPOPLPUSH, whose pop is
\* undone when the destination is no list.
THEOREM ElementsAreKept == Spec => []ElementsKept
<1>1. Init => Accounted
  <2> SUFFICES ASSUME Init PROVE Accounted
    OBVIOUS
  <2>1. /\ data = [k \in Key |-> Absent] /\ elems = 0 /\ gone = {} /\ value.elem = 0
    BY DEF Init, NoValue
  <2>2. \A k \in Key : data[k].list = <<>> /\ Len(data[k].list) = 0
    BY <2>1 DEF Absent
  <2>3. Elements(data) = {}
    BY <2>2, ToSetEmpty DEF Elements
  <2>4. Distinct(data)
    BY <2>2 DEF Distinct
  <2> QED
    BY <2>1, <2>3, <2>4 DEF Accounted
<1>2. TypeInv /\ Accounted /\ [Next]_vars => TypeInv' /\ Accounted'
  BY TypeStep, AccountedStep
<1>3. TypeInv /\ Accounted => ElementsKept
  BY AccountedIsInv DEF TypeInv, ElementsInv
<1> QED
  BY <1>1, <1>2, <1>3, TypeInit, PTL DEF Spec

=============================================================================

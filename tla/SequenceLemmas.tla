--------------------------- MODULE SequenceLemmas ---------------------------
(***************************************************************************)
(* Lemmas about sequences that are used as queues and as lists of clients: *)
(* what they hold, and that they hold it once.                             *)
(***************************************************************************)
EXTENDS Naturals, FiniteSets, SequencesExt, SequenceTheorems, FiniteSetTheorems, TLAPS

\* The elements of a sequence, by its positions.
LEMMA ToSetMember ==
    ASSUME NEW S, NEW s \in Seq(S), NEW e
    PROVE  e \in ToSet(s) <=> \E i \in 1..Len(s) : s[i] = e
  BY LenProperties DEF ToSet

LEMMA ToSetEmpty == ToSet(<<>>) = {}
  BY DEF ToSet

LEMMA ToSetIsSubset ==
    ASSUME NEW S, NEW s \in Seq(S)
    PROVE  /\ ToSet(s) \subseteq S
           /\ s # <<>> <=> ToSet(s) # {}
<1>1. ToSet(s) \subseteq S
  BY ToSetMember, ElementOfSeq
<1>2. ASSUME s # <<>> PROVE ToSet(s) # {}
  <2>1. 1 \in 1..Len(s)
    BY <1>2, EmptySeq
  <2> QED
    BY <2>1, ToSetMember
<1> QED
  BY <1>1, <1>2, ToSetEmpty

LEMMA ToSetConcat ==
    ASSUME NEW S, NEW s \in Seq(S), NEW t \in Seq(S)
    PROVE  ToSet(s \o t) = ToSet(s) \cup ToSet(t)
<1>1. Range(s \o t) = Range(s) \cup Range(t)
  BY RangeConcatenation
<1> QED
  BY <1>1 DEF ToSet, Range

\* Appending an element that is not there keeps a sequence injective.
LEMMA AppendInjectively ==
    ASSUME NEW S, NEW s \in Seq(S), NEW e \in S
    PROVE  /\ ToSet(Append(s, e)) = ToSet(s) \cup {e}
           /\ IsInjective(s) /\ e \notin ToSet(s) => IsInjective(Append(s, e))
<1>1. /\ Append(s, e) \in Seq(S)
      /\ Len(Append(s, e)) = Len(s) + 1
      /\ Len(s) \in Nat
      /\ \A i \in 1..Len(s) : Append(s, e)[i] = s[i]
      /\ Append(s, e)[Len(s) + 1] = e
  BY AppendProperties, LenProperties
<1>2. \A x : x \in ToSet(Append(s, e)) <=> \E i \in 1..Len(s) + 1 : Append(s, e)[i] = x
  <2> DEFINE r == Append(s, e)
  <2>1. r \in Seq(S) /\ Len(r) = Len(s) + 1
    BY <1>1
  <2> HIDE DEF r
  <2>2. \A x : x \in ToSet(r) <=> \E i \in 1..Len(s) + 1 : r[i] = x
    BY <2>1, ToSetMember
  <2> QED
    BY <2>2 DEF r
<1>3. \A x : x \in ToSet(s) <=> \E i \in 1..Len(s) : s[i] = x
  BY ToSetMember
<1>4. \A x : x \in ToSet(Append(s, e)) <=> x \in ToSet(s) \/ x = e
  <2>1. \A i \in 1..Len(s) + 1 : i \in 1..Len(s) \/ i = Len(s) + 1
    BY <1>1
  <2> QED
    BY <1>1, <1>2, <1>3, <2>1
<1>5. ASSUME IsInjective(s), e \notin ToSet(s) PROVE IsInjective(Append(s, e))
  <2>1. DOMAIN s = 1..Len(s) /\ DOMAIN Append(s, e) = 1..Len(s) + 1
    BY <1>1, LenProperties
  <2>2. SUFFICES ASSUME NEW i \in 1..Len(s) + 1, NEW j \in 1..Len(s) + 1,
                        Append(s, e)[i] = Append(s, e)[j]
                 PROVE  i = j
    BY <2>1 DEF IsInjective
  <2>3. \A k \in 1..Len(s) : s[k] # e
    BY <1>3, <1>5
  <2>4. CASE i \in 1..Len(s) /\ j \in 1..Len(s)
    BY <1>1, <1>5, <2>1, <2>2, <2>4, SMTT(60) DEF IsInjective
  <2> QED
    BY <1>1, <2>2, <2>3, <2>4
<1> QED
  BY <1>4, <1>5

\* Where the elements are after one was removed.
LEMMA RemoveFirstPlaces ==
    ASSUME NEW S, NEW s \in Seq(S), NEW e, IsInjective(s), NEW n \in 1..Len(s), s[n] = e
    PROVE  /\ RemoveFirst(s, e) \in Seq(S)
           /\ Len(RemoveFirst(s, e)) = Len(s) - 1 /\ Len(s) \in Nat
           /\ \A i \in 1..Len(s) - 1 : RemoveFirst(s, e)[i] = IF i < n THEN s[i] ELSE s[i + 1]
<1>1. /\ Len(s) \in Nat
      /\ DOMAIN s = 1..Len(s)
      /\ \A i \in 1..Len(s) : s[i] \in S
      /\ \A i, j \in 1..Len(s) : s[i] = s[j] => i = j
  BY LenProperties, ElementOfSeq DEF IsInjective
<1> DEFINE p == SubSeq(s, 1, n - 1)
           q == SubSeq(s, n + 1, Len(s))
           r == p \o q
<1>2. SelectInSeq(s, LAMBDA v : v = e) = n
  <2>1. {i \in 1..Len(s) : s[i] = e} = {n}
    BY <1>1
  <2>2. Min({n}) = n
    BY DEF Min
  <2> QED
    BY <2>1, <2>2 DEF SelectInSeq
<1>3. RemoveFirst(s, e) = r
  BY <1>2 DEF RemoveFirst, RemoveAt
<1>4. /\ p \in Seq(S)
      /\ Len(p) = n - 1
      /\ \A i \in 1..n - 1 : p[i] = s[i]
  <2>1. n - 1 \in Int /\ 1 \in Int /\ \A i \in 1..n - 1 : s[i] \in S
    BY <1>1
  <2>2. /\ p \in Seq(S)
        /\ Len(p) = IF 1 <= n - 1 THEN (n - 1) - 1 + 1 ELSE 0
        /\ \A i \in 1..(n - 1) - 1 + 1 : p[i] = s[1 + i - 1]
    BY <2>1, SubSeqProperties
  <2> QED
    BY <1>1, <2>2
<1>5. /\ q \in Seq(S)
      /\ Len(q) = Len(s) - n
      /\ \A i \in 1..Len(s) - n : q[i] = s[n + i]
  <2>1. n + 1 \in Int /\ Len(s) \in Int /\ \A i \in n + 1..Len(s) : s[i] \in S
    BY <1>1
  <2>2. /\ q \in Seq(S)
        /\ Len(q) = IF n + 1 <= Len(s) THEN Len(s) - (n + 1) + 1 ELSE 0
        /\ \A i \in 1..Len(s) - (n + 1) + 1 : q[i] = s[(n + 1) + i - 1]
    BY <2>1, SubSeqProperties, SMTT(60)
  <2>3. Len(s) - (n + 1) + 1 = Len(s) - n /\ \A i \in Int : (n + 1) + i - 1 = n + i
    BY <1>1
  <2>4. Len(q) = Len(s) - n
    <3> HIDE DEF q
    <3>1. \A m \in Nat : \A j \in 1..m : IF j + 1 <= m THEN m - j > 0 ELSE m - j = 0
      OBVIOUS
    <3>2. IF n + 1 <= Len(s) THEN Len(s) - n > 0 ELSE Len(s) - n = 0
      BY <1>1, <3>1
    <3> QED
      BY <2>2, <2>3, <3>2
  <2>5. ASSUME NEW i \in 1..Len(s) - n PROVE q[i] = s[n + i]
    <3> HIDE DEF q
    <3>1. i \in Int /\ i \in 1..Len(s) - (n + 1) + 1
      BY <2>3, <2>5
    <3>2. q[i] = s[(n + 1) + i - 1]
      BY <2>2, <3>1
    <3> QED
      BY <2>3, <3>1, <3>2
  <2> HIDE DEF q
  <2> QED
    BY <2>2, <2>4, <2>5
<1>6. /\ r \in Seq(S)
      /\ Len(r) = Len(s) - 1
      /\ \A i \in 1..Len(s) - 1 : r[i] = IF i < n THEN s[i] ELSE s[i + 1]
  <2>1. /\ r \in Seq(S)
        /\ Len(r) = (n - 1) + (Len(s) - n)
        /\ \A i \in 1..(n - 1) + (Len(s) - n) :
              r[i] = IF i <= n - 1 THEN p[i] ELSE q[i - (n - 1)]
    <3> HIDE DEF p, q
    <3>1. /\ p \o q \in Seq(S)
          /\ Len(p \o q) = Len(p) + Len(q)
          /\ \A i \in 1..Len(p) + Len(q) : (p \o q)[i] = IF i <= Len(p) THEN p[i] ELSE q[i - Len(p)]
      BY <1>4, <1>5, ConcatProperties
    <3> QED
      BY <1>4, <1>5, <3>1
  <2> HIDE DEF p, q, r
  <2>2. (n - 1) + (Len(s) - n) = Len(s) - 1
    BY <1>1
  <2>3. ASSUME NEW i \in 1..Len(s) - 1, i < n PROVE r[i] = s[i]
    <3>1. i \in 1..n - 1 /\ i <= n - 1
      BY <1>1, <2>3
    <3> QED
      BY <1>4, <2>1, <2>2, <3>1
  <2>4. ASSUME NEW i \in 1..Len(s) - 1, ~(i < n) PROVE r[i] = s[i + 1]
    <3>1. i - (n - 1) \in 1..Len(s) - n /\ n + (i - (n - 1)) = i + 1 /\ ~(i <= n - 1)
      BY <1>1, <2>4
    <3> QED
      BY <1>5, <2>1, <2>2, <3>1
  <2> QED
    BY <2>1, <2>2, <2>3, <2>4
<1> QED
  BY <1>1, <1>3, <1>6

\* Removing the first occurrence of an element of an injective sequence.
LEMMA RemoveFromInjective ==
    ASSUME NEW S, NEW s \in Seq(S), NEW e, IsInjective(s)
    PROVE  /\ RemoveFirst(s, e) \in Seq(S)
           /\ IsInjective(RemoveFirst(s, e))
           /\ ToSet(RemoveFirst(s, e)) = ToSet(s) \ {e}
           /\ e \in ToSet(s) => Len(RemoveFirst(s, e)) = Len(s) - 1
           /\ e \notin ToSet(s) => RemoveFirst(s, e) = s
<1>1. /\ Len(s) \in Nat
      /\ DOMAIN s = 1..Len(s)
      /\ \A i \in 1..Len(s) : s[i] \in S
      /\ \A i, j \in 1..Len(s) : s[i] = s[j] => i = j
  BY LenProperties, ElementOfSeq DEF IsInjective
<1>2. \A x : x \in ToSet(s) <=> \E i \in 1..Len(s) : s[i] = x
  BY ToSetMember
<1>3. CASE e \notin ToSet(s)
  <2>1. RemoveFirst(s, e) = s
    BY <1>2, <1>3 DEF RemoveFirst
  <2> QED
    BY <1>3, <2>1
<1>4. ASSUME NEW n \in 1..Len(s), s[n] = e
      PROVE  /\ RemoveFirst(s, e) \in Seq(S)
             /\ IsInjective(RemoveFirst(s, e))
             /\ ToSet(RemoveFirst(s, e)) = ToSet(s) \ {e}
             /\ Len(RemoveFirst(s, e)) = Len(s) - 1
  <2> DEFINE r == RemoveFirst(s, e)
  <2>1. /\ r \in Seq(S)
        /\ Len(r) = Len(s) - 1
        /\ \A i \in 1..Len(s) - 1 : r[i] = IF i < n THEN s[i] ELSE s[i + 1]
    BY <1>4, RemoveFirstPlaces
  <2> HIDE DEF r
  <2>2. DOMAIN r = 1..Len(s) - 1
    BY <2>1, LenProperties
  <2>3. IsInjective(r)
    BY <1>1, <2>1, <2>2 DEF IsInjective
  <2>4. \A x : x \in ToSet(r) <=> \E i \in 1..Len(s) - 1 : r[i] = x
    BY <2>1, ToSetMember
  <2>5. ASSUME NEW x \in ToSet(r) PROVE x \in ToSet(s) \ {e}
    BY <1>1, <1>2, <1>4, <2>1, <2>4, <2>5
  <2>6. ASSUME NEW x \in ToSet(s) \ {e} PROVE x \in ToSet(r)
    <3>1. PICK i \in 1..Len(s) : s[i] = x /\ i # n
      BY <1>2, <1>4, <2>6
    <3>2. CASE i < n
      BY <1>1, <2>1, <2>4, <3>1, <3>2
    <3>3. CASE i > n
      <4>1. i - 1 \in 1..Len(s) - 1 /\ r[i - 1] = s[i]
        BY <1>1, <1>4, <2>1, <3>3
      <4> QED
        BY <2>4, <3>1, <4>1
    <3> QED
      BY <1>1, <3>1, <3>2, <3>3
  <2> QED
    BY <2>1, <2>3, <2>5, <2>6 DEF r
<1> QED
  BY <1>2, <1>3, <1>4

\* Any sequence: the first occurrence is one of its places.
LEMMA MinOfNaturals ==
    ASSUME NEW T, T \subseteq Nat, T # {}
    PROVE  Min(T) \in T /\ \A t \in T : Min(T) <= t
<1>1. PICK x \in T : \A y \in T : ~(<<y, x>> \in OpToRel(<, Nat))
  BY NatLessThanWellFounded, WFMin
<1>2. ASSUME NEW y \in T PROVE x <= y
  <2>1. \A a, b \in Nat : a < b => <<a, b>> \in OpToRel(<, Nat)
    <3> SUFFICES ASSUME NEW a \in Nat, NEW b \in Nat, a < b
                 PROVE  <<a, b>> \in {ss \in Nat \X Nat : ss[1] < ss[2]}
      BY DEF OpToRel
    <3>1. <<a, b>> \in Nat \X Nat /\ <<a, b>>[1] = a /\ <<a, b>>[2] = b
      OBVIOUS
    <3> QED
      BY <3>1
  <2>2. ~(y < x)
    BY <1>1, <2>1
  <2> QED
    BY <2>2
<1> QED
  BY <1>2 DEF Min

LEMMA RemoveFirstType ==
    ASSUME NEW S, NEW s \in Seq(S), NEW e
    PROVE  RemoveFirst(s, e) \in Seq(S)
<1>1. CASE \E i \in 1..Len(s) : s[i] = e
  <2> DEFINE T == {i \in 1..Len(s) : s[i] = e}
             n == Min(T)
  <2>1. Len(s) \in Nat /\ \A i \in 1..Len(s) : s[i] \in S
    BY LenProperties, ElementOfSeq
  <2>2. n \in 1..Len(s)
    <3>1. T \subseteq Nat /\ T # {} /\ T \subseteq 1..Len(s)
      BY <1>1, <2>1
    <3> HIDE DEF T
    <3> QED
      BY <3>1, MinOfNaturals
  <2>3. RemoveFirst(s, e) = SubSeq(s, 1, n - 1) \o SubSeq(s, n + 1, Len(s))
    BY <1>1 DEF RemoveFirst, RemoveAt, SelectInSeq
  <2> HIDE DEF n
  <2>4. SubSeq(s, 1, n - 1) \in Seq(S)
    <3>1. 1 \in Int /\ n - 1 \in Int /\ \A i \in 1..n - 1 : s[i] \in S
      BY <2>1, <2>2
    <3> QED
      BY <3>1, SubSeqProperties
  <2>5. SubSeq(s, n + 1, Len(s)) \in Seq(S)
    <3>1. n + 1 \in Int /\ Len(s) \in Int /\ \A i \in n + 1..Len(s) : s[i] \in S
      BY <2>1, <2>2
    <3> QED
      BY <3>1, SubSeqProperties
  <2> QED
    BY <2>3, <2>4, <2>5, ConcatProperties
<1>2. CASE ~\E i \in 1..Len(s) : s[i] = e
  BY <1>2 DEF RemoveFirst
<1> QED
  BY <1>1, <1>2

\* The sequence of the members of a finite set.
LEMMA SetToSeqOfSet ==
    ASSUME NEW S, IsFiniteSet(S)
    PROVE  SetToSeq(S) \in Seq(S) /\ ToSet(SetToSeq(S)) = S
<1> DEFINE n == Cardinality(S)
           f == SetToSeq(S)
<1>1. n \in Nat /\ ExistsBijection(1..n, S)
  BY FS_CardinalityType
<1>2. \E g \in [1..n -> S] : IsInjective(g)
  BY <1>1 DEF ExistsBijection, Bijection, Injection
<1>3. f \in [1..n -> S] /\ IsInjective(f)
  BY <1>2 DEF SetToSeq
<1>4. IsFiniteSet(1..n) /\ Cardinality(1..n) = n
  <2>1. 1 \in Int /\ n \in Int
    BY <1>1
  <2>2. IsFiniteSet(1..n) /\ Cardinality(1..n) = IF 1 > n THEN 0 ELSE n - 1 + 1
    BY <2>1, FS_Interval
  <2> QED
    BY <1>1, <2>2
<1> HIDE DEF n, f
<1>5. f \in Injection(1..n, S)
  BY <1>3 DEF Injection
<1>6. f \in Surjection(1..n, S)
  BY <1>4, <1>5, FS_Injection DEF n
<1>7. f \in Seq(S)
  BY <1>1, <1>3
<1>8. ToSet(f) = S
  BY <1>3, <1>6 DEF ToSet, Surjection
<1> QED
  BY <1>7, <1>8 DEF f

\* Taking from the end of a sequence and adding to its head.
LEMMA FrontProperties ==
    ASSUME NEW S, NEW s \in Seq(S), s # <<>>
    PROVE  /\ Front(s) \in Seq(S)
           /\ Len(Front(s)) = Len(s) - 1
           /\ \A i \in 1..Len(s) - 1 : Front(s)[i] = s[i]
           /\ Last(s) \in S /\ Last(s) = s[Len(s)]
           /\ Len(s) \in Nat /\ Len(s) > 0
<1>1. Len(s) \in Nat /\ Len(s) > 0 /\ \A i \in 1..Len(s) : s[i] \in S
  BY LenProperties, EmptySeq, ElementOfSeq
<1>2. 1 \in Int /\ Len(s) - 1 \in Int /\ \A i \in 1..Len(s) - 1 : s[i] \in S
  BY <1>1
<1>3. /\ SubSeq(s, 1, Len(s) - 1) \in Seq(S)
      /\ Len(SubSeq(s, 1, Len(s) - 1)) = IF 1 <= Len(s) - 1 THEN (Len(s) - 1) - 1 + 1 ELSE 0
      /\ \A i \in 1..(Len(s) - 1) - 1 + 1 : SubSeq(s, 1, Len(s) - 1)[i] = s[1 + i - 1]
  BY <1>2, SubSeqProperties
<1>4. (Len(s) - 1) - 1 + 1 = Len(s) - 1 /\ \A i \in Int : 1 + i - 1 = i
  BY <1>1
<1>5. Len(SubSeq(s, 1, Len(s) - 1)) = Len(s) - 1
  <2>1. \A m \in Nat : m > 0 => (IF 1 <= m - 1 THEN (m - 1) - 1 + 1 ELSE 0) = m - 1
    OBVIOUS
  <2> QED
    BY <1>1, <1>3, <2>1
<1>6. \A i \in 1..Len(s) - 1 : SubSeq(s, 1, Len(s) - 1)[i] = s[i]
  BY <1>1, <1>3, <1>4
<1>7. Last(s) = s[Len(s)] /\ Len(s) \in 1..Len(s)
  BY <1>1 DEF Last
<1> QED
  BY <1>1, <1>3, <1>5, <1>6, <1>7 DEF Front

LEMMA PushHeadSequence ==
    ASSUME NEW S, NEW s \in Seq(S), NEW e \in S
    PROVE  /\ <<e>> \o s \in Seq(S)
           /\ Len(<<e>> \o s) = Len(s) + 1 /\ Len(s) \in Nat
           /\ <<e>> \o s # <<>>
           /\ (<<e>> \o s)[1] = e
           /\ \A i \in 1..Len(s) : (<<e>> \o s)[i + 1] = s[i]
<1>1. <<e>> \in Seq(S) /\ Len(<<e>>) = 1 /\ <<e>>[1] = e /\ Len(s) \in Nat
  BY LenProperties
<1>2. /\ <<e>> \o s \in Seq(S)
      /\ Len(<<e>> \o s) = Len(<<e>>) + Len(s)
      /\ \A i \in 1..Len(<<e>>) + Len(s) :
            (<<e>> \o s)[i] = IF i <= Len(<<e>>) THEN <<e>>[i] ELSE s[i - Len(<<e>>)]
  BY <1>1, ConcatProperties
<1>3. <<e>> \o s # <<>>
  BY <1>1, <1>2, EmptySeq
<1> QED
  BY <1>1, <1>2, <1>3

LEMMA PopHeadSequence ==
    ASSUME NEW S, NEW s \in Seq(S), s # <<>>
    PROVE  /\ Tail(s) \in Seq(S)
           /\ Len(Tail(s)) = Len(s) - 1
           /\ \A i \in 1..Len(s) - 1 : Tail(s)[i] = s[i + 1]
           /\ Head(s) \in S /\ Head(s) = s[1]
           /\ Len(s) \in Nat /\ Len(s) > 0
<1>1. Len(s) \in Nat /\ Len(s) > 0
  BY LenProperties, EmptySeq
<1>2. /\ Head(s) \in S
      /\ Tail(s) \in Seq(S)
      /\ Len(Tail(s)) = Len(s) - 1
      /\ \A i \in 1..Len(Tail(s)) : Tail(s)[i] = s[i + 1]
  BY HeadTailProperties
<1>3. Head(s) = s[1]
  OBVIOUS
<1> QED
  BY <1>1, <1>2, <1>3

LEMMA PushTailSequence ==
    ASSUME NEW S, NEW s \in Seq(S), NEW e \in S
    PROVE  /\ Append(s, e) \in Seq(S)
           /\ Append(s, e) # <<>>
           /\ Len(Append(s, e)) = Len(s) + 1 /\ Len(s) \in Nat
           /\ Append(s, e)[Len(s) + 1] = e
           /\ \A i \in 1..Len(s) : Append(s, e)[i] = s[i]
  BY AppendProperties, LenProperties

LEMMA ToSetHeadTail ==
    ASSUME NEW S, NEW s \in Seq(S), s # <<>>
    PROVE  ToSet(s) = {Head(s)} \cup ToSet(Tail(s))
<1>1. /\ Tail(s) \in Seq(S) /\ Len(Tail(s)) = Len(s) - 1
      /\ \A i \in 1..Len(s) - 1 : Tail(s)[i] = s[i + 1]
      /\ Head(s) = s[1] /\ Len(s) \in Nat /\ Len(s) > 0
  BY PopHeadSequence
<1>2. \A e : e \in ToSet(s) <=> \E i \in 1..Len(s) : s[i] = e
  BY ToSetMember
<1>3. \A e : e \in ToSet(Tail(s)) <=> \E i \in 1..Len(Tail(s)) : Tail(s)[i] = e
  BY <1>1, ToSetMember
<1>4. ASSUME NEW e \in ToSet(s) PROVE e \in {Head(s)} \cup ToSet(Tail(s))
  <2>1. PICK i \in 1..Len(s) : s[i] = e
    BY <1>2, <1>4
  <2>2. CASE i = 1
    BY <1>1, <2>1, <2>2
  <2>3. CASE i # 1
    <3>1. i - 1 \in 1..Len(s) - 1 /\ (i - 1) + 1 = i
      BY <1>1, <2>1, <2>3
    <3> QED
      BY <1>1, <1>3, <2>1, <3>1
  <2> QED
    BY <2>2, <2>3
<1>5. ASSUME NEW e \in ToSet(Tail(s)) PROVE e \in ToSet(s)
  <2>1. PICK i \in 1..Len(s) - 1 : Tail(s)[i] = e
    BY <1>1, <1>3, <1>5
  <2>2. i + 1 \in 1..Len(s)
    BY <1>1, <2>1
  <2> QED
    BY <1>1, <1>2, <2>1, <2>2
<1>6. Head(s) \in ToSet(s)
  BY <1>1, <1>2
<1> QED
  BY <1>4, <1>5, <1>6

\* A sequence without the element at a position.
LEMMA RemoveAtElements ==
    ASSUME NEW S, NEW s \in Seq(S), NEW n \in 1..Len(s)
    PROVE  /\ RemoveAt(s, n) \in Seq(S)
           /\ ToSet(RemoveAt(s, n)) \subseteq ToSet(s)
           /\ ToSet(s) \subseteq ToSet(RemoveAt(s, n)) \cup {s[n]}
<1> DEFINE p == SubSeq(s, 1, n - 1)
           q == SubSeq(s, n + 1, Len(s))
<1>1. Len(s) \in Nat /\ \A i \in 1..Len(s) : s[i] \in S
  BY LenProperties, ElementOfSeq
<1>2. p \in Seq(S) /\ Len(p) = n - 1 /\ \A i \in 1..n - 1 : p[i] = s[i]
  <2>1. n - 1 \in Int /\ 1 \in Int /\ \A i \in 1..n - 1 : s[i] \in S
    BY <1>1
  <2>2. /\ p \in Seq(S)
        /\ Len(p) = IF 1 <= n - 1 THEN (n - 1) - 1 + 1 ELSE 0
        /\ \A i \in 1..(n - 1) - 1 + 1 : p[i] = s[1 + i - 1]
    BY <2>1, SubSeqProperties
  <2> QED
    BY <1>1, <2>2
<1>3. q \in Seq(S) /\ Len(q) = Len(s) - n /\ \A i \in 1..Len(s) - n : q[i] = s[n + i]
  <2>1. n + 1 \in Int /\ Len(s) \in Int /\ \A i \in n + 1..Len(s) : s[i] \in S
    BY <1>1
  <2>2. /\ q \in Seq(S)
        /\ Len(q) = IF n + 1 <= Len(s) THEN Len(s) - (n + 1) + 1 ELSE 0
        /\ \A i \in 1..Len(s) - (n + 1) + 1 : q[i] = s[(n + 1) + i - 1]
    BY <2>1, SubSeqProperties
  <2>3. Len(s) - (n + 1) + 1 = Len(s) - n /\ \A i \in Int : (n + 1) + i - 1 = n + i
    BY <1>1, SMTT(60)
  <2> HIDE DEF q
  <2>4. Len(q) = Len(s) - n
    <3>1. \A m \in Nat : \A j \in 1..m : IF j + 1 <= m THEN m - j > 0 ELSE m - j = 0
      OBVIOUS
    <3>2. IF n + 1 <= Len(s) THEN Len(s) - n > 0 ELSE Len(s) - n = 0
      BY <1>1, <3>1
    <3> QED
      BY <2>2, <2>3, <3>2
  <2>5. ASSUME NEW i \in 1..Len(s) - n PROVE q[i] = s[n + i]
    <3>1. i \in Int /\ i \in 1..Len(s) - (n + 1) + 1
      BY <2>3, <2>5
    <3>2. q[i] = s[(n + 1) + i - 1]
      BY <2>2, <3>1
    <3> QED
      BY <2>3, <3>1, <3>2
  <2> QED
    BY <2>2, <2>4, <2>5
<1>4. RemoveAt(s, n) = p \o q
  BY DEF RemoveAt
<1> HIDE DEF p, q
<1>5. RemoveAt(s, n) \in Seq(S) /\ ToSet(RemoveAt(s, n)) = ToSet(p) \cup ToSet(q)
  BY <1>2, <1>3, <1>4, ConcatProperties, ToSetConcat
<1>6. ASSUME NEW e \in ToSet(p) \cup ToSet(q) PROVE e \in ToSet(s)
  <2>1. CASE e \in ToSet(p)
    <3>1. PICK i \in 1..n - 1 : p[i] = e
      BY <1>2, <2>1, ToSetMember
    <3>2. i \in 1..Len(s) /\ s[i] = e
      BY <1>1, <1>2, <3>1
    <3> QED
      BY <3>2, ToSetMember
  <2>2. CASE e \in ToSet(q)
    <3>1. PICK i \in 1..Len(s) - n : q[i] = e
      BY <1>3, <2>2, ToSetMember
    <3>2. n + i \in 1..Len(s) /\ s[n + i] = e
      BY <1>1, <1>3, <3>1
    <3> QED
      BY <3>2, ToSetMember
  <2> QED
    BY <1>6, <2>1, <2>2
<1>7. ASSUME NEW e \in ToSet(s), e # s[n] PROVE e \in ToSet(p) \cup ToSet(q)
  <2>1. PICK i \in 1..Len(s) : s[i] = e
    BY ToSetMember
  <2>2. CASE i < n
    <3>1. i \in 1..n - 1 /\ p[i] = e
      BY <1>1, <1>2, <2>1, <2>2
    <3> QED
      BY <1>2, <3>1, ToSetMember
  <2>3. CASE i > n
    <3>1. i - n \in 1..Len(s) - n /\ n + (i - n) = i
      BY <1>1, <2>1, <2>3
    <3>2. q[i - n] = e
      BY <1>3, <2>1, <3>1
    <3> QED
      BY <1>3, <3>1, <3>2, ToSetMember
  <2>4. i = n \/ i < n \/ i > n
    BY <1>1
  <2> QED
    BY <1>7, <2>1, <2>2, <2>3, <2>4
<1> QED
  BY <1>5, <1>6, <1>7

\* What holds of 0 and of each number after one of which it holds.
LEMMA UpTo ==
    ASSUME NEW n \in Nat, NEW P, 0 \in P, \A k \in 1 .. n : k - 1 \in P => k \in P
    PROVE  \A k \in 0 .. n : k \in P
<1> DEFINE T == {k \in 0 .. n : k \notin P}
<1> SUFFICES ASSUME T # {} PROVE FALSE
  OBVIOUS
<1>1. T \subseteq Nat
  OBVIOUS
<1> DEFINE m == Min(T)
<1>2. m \in T /\ \A t \in T : m <= t
  BY <1>1, MinOfNaturals
<1> HIDE DEF m
<1>3. m \in 1 .. n /\ m \notin P
  BY <1>2
<1>4. m - 1 \in 0 .. n /\ ~(m <= m - 1)
  BY <1>3
<1>5. m - 1 \in P
  BY <1>2, <1>4
<1> QED
  BY <1>3, <1>5

=============================================================================

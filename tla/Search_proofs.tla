---------------------------- MODULE Search_proofs ----------------------------
(***************************************************************************)
(* Proofs about Retrieval for any index, any rankings and any settings,    *)
(* and about Chunking for any file, whatever a parser finds in it.         *)
(* Induction is on numbers: a set of numbers has a least element.          *)
(***************************************************************************)
EXTENDS Retrieval, Chunking, FiniteSetTheorems, SequenceTheorems, WellFoundedInduction, TLAPS

-----------------------------------------------------------------------------
(* Induction *)

\* Every set of numbers has a least element: what induction is based on here.
LEMMA LeastNat ==
    ASSUME NEW T, T \subseteq Nat, T # {}
    PROVE  \E m \in T : \A n \in T : m <= n
<1> DEFINE R == StrictSubsetOrdering(Nat)
           U == {1..n : n \in T}
<1>1. IsWellFoundedOn(R, FiniteSubsetsOf(Nat)) BY FS_StrictSubsetOrderingWellFounded
<1>2. U \subseteq FiniteSubsetsOf(Nat)
  <2> SUFFICES ASSUME NEW n \in T PROVE 1..n \in FiniteSubsetsOf(Nat) OBVIOUS
  <2>1. n \in Int /\ IsFiniteSet(1..n) BY FS_Interval
  <2> QED BY <2>1 DEF FiniteSubsetsOf
<1>3. U # {} OBVIOUS
<1>4. PICK x \in U : \A y \in U : ~(<<y, x>> \in R)
  <2> HIDE DEF R, U
  <2> QED BY <1>1, <1>2, <1>3, WFMin
<1>5. PICK m \in T : x = 1..m OBVIOUS
<1>6. ASSUME NEW n \in T, n < m PROVE FALSE
  <2>1. 1..n \in U OBVIOUS
  <2>2. 1..n \subseteq 1..m /\ 1..n # 1..m
    <3>1. m \in 1..m /\ m \notin 1..n BY <1>6
    <3>2. 1..n \subseteq 1..m BY <1>6
    <3> QED BY <3>1, <3>2
  <2>3. 1..n \in SUBSET Nat /\ 1..m \in SUBSET Nat OBVIOUS
  <2>4. <<1..n, 1..m>> \in R BY <2>2, <2>3 DEF StrictSubsetOrdering
  <2> QED BY <2>1, <2>4, <1>4, <1>5
<1> QED BY <1>6

LEMMA LeastIs ==
    ASSUME NEW S, S \subseteq Nat, S # {}
    PROVE  Least(S) \in S /\ \A j \in S : Least(S) <= j
BY LeastNat DEF Least

\* ... and every bounded one a greatest.
LEMMA GreatestBelow ==
    ASSUME NEW n \in Nat, NEW S, S \subseteq 1..n, S # {}
    PROVE  \E m \in S : \A j \in S : j <= m
<1> DEFINE T == {n - j : j \in S}
<1>1. T \subseteq Nat /\ T # {} OBVIOUS
<1>2. PICK t \in T : \A u \in T : t <= u
  <2> HIDE DEF T
  <2> QED BY <1>1, LeastNat
<1>3. PICK m \in S : t = n - m OBVIOUS
<1>4. ASSUME NEW j \in S PROVE j <= m
  <2>1. n - j \in T OBVIOUS
  <2>2. n - m <= n - j BY <2>1, <1>2, <1>3
  <2> QED BY <2>2
<1> QED BY <1>4

\* What holds at 0 and goes up holds upwards.
LEMMA Upwards ==
    ASSUME NEW n \in Nat, NEW G, 0 \in G, \A i \in 1..n : i - 1 \in G => i \in G
    PROVE  0..n \subseteq G
<1> DEFINE T == {i \in 0..n : i \notin G}
<1> SUFFICES ASSUME T # {} PROVE FALSE OBVIOUS
<1>1. T \subseteq Nat OBVIOUS
<1>2. PICK m \in T : \A k \in T : m <= k
  <2> HIDE DEF T
  <2> QED BY <1>1, LeastNat
<1>3. m \in 1..n /\ m - 1 \notin T BY <1>2
<1> QED BY <1>2, <1>3

Steps(g, n, R, start, step) ==
    /\ DOMAIN g = 0..n /\ g = [i \in 0..n |-> g[i]] /\ g[0] = start
    /\ \A i \in 0..n : g[i] \in R[i]
    /\ \A i \in 1..n : g[i] = step[i][g[i - 1]]

\* What is defined from the value before is defined, and stays in what it steps through.
LEMMA RecursionExists ==
    ASSUME NEW n \in Nat, NEW R, NEW start \in R[0], NEW step,
           \A i \in 1..n : step[i] \in [R[i - 1] -> R[i]]
    PROVE  \E g : Steps(g, n, R, start, step)
<1> DEFINE G == {m \in 0..n : \E g : Steps(g, m, R, start, step)}
<1>1. 0 \in G
  <2> DEFINE g == [i \in 0..0 |-> start]
  <2>1. \A i \in 0..0 : i = 0 OBVIOUS
  <2>2. Steps(g, 0, R, start, step) BY <2>1 DEF Steps
  <2> HIDE DEF g
  <2> QED BY <2>2
<1>2. ASSUME NEW m \in 1..n, m - 1 \in G PROVE m \in G
  <2>1. PICK g : Steps(g, m - 1, R, start, step) BY <1>2
  <2>2. m - 1 \in 0 .. m - 1 /\ m \in Nat /\ 0 \in 0 .. m - 1 OBVIOUS
  <2>3. g[m - 1] \in R[m - 1] BY <2>1, <2>2 DEF Steps
  <2> DEFINE h == [i \in 0..m |-> IF i = m THEN step[m][g[m - 1]] ELSE g[i]]
  <2>4. h[m] = step[m][g[m - 1]] /\ \A i \in 0 .. m - 1 : h[i] = g[i] BY <2>2
  <2>5. h[m] \in R[m]
    <3>1. step[m] \in [R[m - 1] -> R[m]] OBVIOUS
    <3> QED BY <2>3, <2>4, <3>1
  <2>6. DOMAIN h = 0..m /\ h = [i \in 0..m |-> h[i]] OBVIOUS
  <2> HIDE DEF h
  <2>7. h[0] = start BY <2>1, <2>2, <2>4 DEF Steps
  <2>8. ASSUME NEW i \in 0..m PROVE h[i] \in R[i]
    <3>1. CASE i = m BY <3>1, <2>5
    <3>2. CASE i # m
      <4>1. i \in 0 .. m - 1 BY <3>2
      <4> QED BY <4>1, <2>1, <2>4 DEF Steps
    <3> QED BY <3>1, <3>2
  <2>9. ASSUME NEW i \in 1..m PROVE h[i] = step[i][h[i - 1]]
    <3>1. CASE i = m BY <3>1, <2>2, <2>4
    <3>2. CASE i # m
      <4>1. i \in 1 .. m - 1 /\ i - 1 \in 0 .. m - 1 /\ i \in 0 .. m - 1 BY <3>2
      <4>2. g[i] = step[i][g[i - 1]] BY <2>1, <4>1 DEF Steps
      <4> QED BY <4>1, <4>2, <2>4
    <3> QED BY <3>1, <3>2
  <2>10. Steps(h, m, R, start, step) BY <2>6, <2>7, <2>8, <2>9 DEF Steps
  <2> QED BY <2>10
<1>3. 0..n \subseteq G
  <2> HIDE DEF G
  <2> QED BY <1>1, <1>2, Upwards
<1>4. n \in G BY <1>3
<1> QED BY <1>4

\* How many blocks of f cover m.
LEMMA Blocks ==
    ASSUME NEW f \in Nat \ {0}, NEW m \in Nat
    PROVE  /\ (m + f - 1) \div f \in Nat
           /\ f * ((m + f - 1) \div f) < m + f
           /\ m <= f * ((m + f - 1) \div f)
<1>1. m + f - 1 \in Nat OBVIOUS
<1> DEFINE q == (m + f - 1) \div f
<1>2. q \in Nat /\ f * q <= m + f - 1 /\ m + f - 1 < f * q + f BY <1>1
<1>3. f * q \in Int BY <1>2
<1> QED BY <1>2, <1>3

\* What the solver knows of products, where it is not to look for it.
LEMMA Times ==
    ASSUME NEW f \in Nat, NEW k \in Int, NEW m \in Int, k <= m
    PROVE  f * k <= f * m /\ f * k \in Int /\ f * m \in Int /\ f * (k + 1) = f * k + f /\ k * f = f * k
OBVIOUS

-----------------------------------------------------------------------------
(* What an order puts in a row. *)

IsOrder(before, S) ==
    /\ \A i \in S : <<i, i>> \notin before
    /\ \A i, j \in S : i = j \/ <<i, j>> \in before \/ <<j, i>> \in before
    /\ \A i, j, k \in S : <<i, j>> \in before /\ <<j, k>> \in before => <<i, k>> \in before

\* A numbering of S in the order.
Numbering(p, S, before) ==
    /\ p \in [1..Cardinality(S) -> S]
    /\ \A i \in S : \E k \in 1..Cardinality(S) : p[k] = i
    /\ \A k, l \in 1..Cardinality(S) : k < l => <<p[k], p[l]>> \in before
    /\ \A k, l \in 1..Cardinality(S) : p[k] = p[l] => k = l

LEMMA PlacesNumber ==
    ASSUME NEW S, NEW before, IsFiniteSet(S), IsOrder(before, S)
    PROVE  LET p == [k \in 1..Cardinality(S) |-> CHOOSE i \in S : Place(i, S, before) = k]
           IN  Numbering(p, S, before)
<1> DEFINE n == Cardinality(S)
           Below(i) == {j \in S : <<j, i>> \in before}
           place == [i \in S |-> Place(i, S, before)]
           p == [k \in 1..n |-> CHOOSE i \in S : Place(i, S, before) = k]
<1>1. n \in Nat /\ \A i \in S : IsFiniteSet(Below(i)) /\ Cardinality(Below(i)) \in Nat
  BY FS_CardinalityType, FS_Subset
<1>2. ASSUME NEW i \in S PROVE place[i] \in 1..n
  <2>1. i \notin Below(i) /\ Below(i) \in SUBSET S BY DEF IsOrder
  <2>2. /\ Cardinality(Below(i)) <= n
        /\ n = Cardinality(Below(i)) => S = Below(i)
    BY <2>1, FS_Subset
  <2>3. place[i] = Cardinality(Below(i)) + 1 BY DEF Place
  <2> HIDE DEF Below, place, n
  <2> QED BY <1>1, <2>1, <2>2, <2>3
<1>3. ASSUME NEW i \in S, NEW j \in S, <<i, j>> \in before PROVE place[i] < place[j]
  <2>1. Below(i) \in SUBSET Below(j) BY <1>3 DEF IsOrder
  <2>2. i \in Below(j) /\ i \notin Below(i) BY <1>3 DEF IsOrder
  <2>3. /\ Cardinality(Below(i)) <= Cardinality(Below(j))
        /\ Cardinality(Below(j)) = Cardinality(Below(i)) => Below(j) = Below(i)
    BY <1>1, <2>1, FS_Subset
  <2>4. place[i] = Cardinality(Below(i)) + 1 /\ place[j] = Cardinality(Below(j)) + 1 BY DEF Place
  <2> HIDE DEF Below, place
  <2> QED BY <1>1, <2>2, <2>3, <2>4
<1> HIDE DEF n
<1>4. place \in Injection(S, 1..n)
  <2>1. place \in [S -> 1..n] BY <1>2
  <2>2. ASSUME NEW i \in S, NEW j \in S, place[i] = place[j] PROVE i = j
    <3>1. place[i] \in Int /\ place[j] \in Int BY <1>2
    <3>2. ~ (<<i, j>> \in before) /\ ~ (<<j, i>> \in before)
      <4> HIDE DEF place
      <4> QED BY <1>3, <2>2, <3>1
    <3> QED BY <3>2 DEF IsOrder
  <2> QED BY <2>1, <2>2 DEF Injection, IsInjective
<1>5. IsFiniteSet(1..n) /\ Cardinality(1..n) = n BY <1>1, FS_Interval
<1>6. place \in Surjection(S, 1..n)
  <2> HIDE DEF place
  <2>1. Cardinality(S) = Cardinality(1..n) BY <1>5 DEF n
  <2> QED BY <1>4, <1>5, <2>1, FS_Injection
<1>7. ASSUME NEW k \in 1..n PROVE p[k] \in S /\ place[p[k]] = k
  <2>1. \E i \in S : Place(i, S, before) = k BY <1>6 DEF Surjection
  <2> QED BY <2>1
<1>8. ASSUME NEW i \in S PROVE p[place[i]] = i
  <2>1. place[i] \in 1..n BY <1>2
  <2>2. p[place[i]] \in S /\ place[p[place[i]]] = place[i] BY <1>7, <2>1
  <2> QED BY <2>2, <1>4 DEF Injection, IsInjective
<1>9. ASSUME NEW k \in 1..n, NEW l \in 1..n, k < l PROVE <<p[k], p[l]>> \in before
  <2>1. p[k] \in S /\ p[l] \in S /\ place[p[k]] = k /\ place[p[l]] = l BY <1>7
  <2>2. p[k] # p[l] BY <2>1, <1>9
  <2>3. ~ (<<p[l], p[k]>> \in before)
    <3> HIDE DEF place, p
    <3> QED BY <2>1, <1>3, <1>9
  <2> HIDE DEF p
  <2> QED BY <2>1, <2>2, <2>3 DEF IsOrder
<1>10. p \in [1..n -> S] BY <1>7
<1>11. \A k, l \in 1..n : p[k] = p[l] => k = l
  <2> HIDE DEF p, place
  <2> QED BY <1>7
<1>12. \A i \in S : \E k \in 1..n : p[k] = i
  <2> HIDE DEF p, place
  <2> QED BY <1>2, <1>8
<1>13. Numbering(p, S, before)
  <2> HIDE DEF p
  <2> QED BY <1>9, <1>10, <1>11, <1>12 DEF Numbering, n
<1> QED BY <1>13 DEF n

LEMMA ArrangedIs ==
    ASSUME NEW s, NEW S, NEW before, IsFiniteSet(S), IsOrder(before, S)
    PROVE  /\ Cardinality(S) \in Nat
           /\ \E p : /\ Numbering(p, S, before)
                     /\ Arranged(s, S, before) = [k \in 1..Cardinality(S) |-> s[p[k]]]
<1> DEFINE n == Cardinality(S)
           T == {s[i] : i \in S}
           p == [k \in 1..n |-> CHOOSE i \in S : Place(i, S, before) = k]
           row == [k \in 1..n |-> s[CHOOSE i \in S : Place(i, S, before) = k]]
<1>1. n \in Nat BY FS_CardinalityType
<1>2. Numbering(p, S, before) BY PlacesNumber
<1>3. row = [k \in 1..n |-> s[p[k]]] OBVIOUS
<1>4. p \in [1..n -> S] BY <1>2 DEF Numbering
<1>5. row \in Seq(T)
  <2>1. \A k \in 1..n : s[p[k]] \in T BY <1>4
  <2> HIDE DEF p, T
  <2>2. row \in [1..n -> T] BY <1>3, <2>1
  <2> HIDE DEF row, n
  <2> QED BY <1>1, <2>2
<1>6. Arranged(s, S, before) = row
  <2>1. <<>> \o row = row
    <3> HIDE DEF row, T
    <3> QED BY <1>5, ConcatEmptySeq
  <2> QED BY <2>1 DEF Arranged, Tuple
<1>7. Arranged(s, S, before) = [k \in 1..n |-> s[p[k]]] BY <1>3, <1>6
<1> HIDE DEF p
<1> QED BY <1>1, <1>2, <1>7

\* ... which is a sequence.
LEMMA ArrangedLen ==
    ASSUME NEW s, NEW S, NEW before, IsFiniteSet(S), IsOrder(before, S),
           NEW a, a = Arranged(s, S, before)
    PROVE  a \in Seq({s[i] : i \in S}) /\ Len(a) = Cardinality(S)
<1>1. PICK p : /\ Numbering(p, S, before)
               /\ Arranged(s, S, before) = [k \in 1..Cardinality(S) |-> s[p[k]]]
  BY ArrangedIs
<1>2. Cardinality(S) \in Nat BY FS_CardinalityType
<1>3. p \in [1..Cardinality(S) -> S] BY <1>1 DEF Numbering
<1>4. a \in [1..Cardinality(S) -> {s[i] : i \in S}] BY <1>1, <1>3
<1> QED BY <1>2, <1>4

LEMMA InPlaceIsOrder ==
    ASSUME NEW s, NEW S, S \subseteq DOMAIN s, DOMAIN s \subseteq Int
    PROVE  IsOrder(InPlace(s), S)
<1>1. ASSUME NEW i \in S, NEW j \in S PROVE <<i, j>> \in InPlace(s) <=> i < j
  <2>1. <<i, j>> \in (DOMAIN s) \X (DOMAIN s) OBVIOUS
  <2> QED BY <2>1 DEF InPlace
<1> QED BY <1>1 DEF IsOrder

LEMMA ByScoreIs ==
    ASSUME NEW s, NEW i \in DOMAIN s, NEW j \in DOMAIN s
    PROVE  <<i, j>> \in ByScore(s) <=> \/ s[i].score > s[j].score
                                       \/ s[i].score = s[j].score /\ i < j
<1>1. <<i, j>> \in (DOMAIN s) \X (DOMAIN s) OBVIOUS
<1> QED BY <1>1 DEF ByScore

LEMMA ByScoreIsOrder ==
    ASSUME NEW s, NEW S, S \subseteq DOMAIN s, DOMAIN s \subseteq Int,
           \A i \in S : s[i].score \in Int
    PROVE  IsOrder(ByScore(s), S)
<1>1. ASSUME NEW i \in S, NEW j \in S
      PROVE  <<i, j>> \in ByScore(s) <=> \/ s[i].score > s[j].score
                                         \/ s[i].score = s[j].score /\ i < j
  BY ByScoreIs
<1> QED BY <1>1 DEF IsOrder

LEMMA FirstSeenIs ==
    ASSUME NEW s, DOMAIN s \subseteq Nat, NEW i \in DOMAIN s
    PROVE  FirstSeen(s, i) \in DOMAIN s /\ s[FirstSeen(s, i)].file = s[i].file
<1> DEFINE T == {j \in DOMAIN s : s[j].file = s[i].file}
<1>1. T \subseteq Nat /\ T # {} OBVIOUS
<1>2. FirstSeen(s, i) \in T
  <2> HIDE DEF T
  <2>1. Least(T) \in T BY <1>1, LeastIs
  <2> QED BY <2>1 DEF FirstSeen, T
<1> QED BY <1>2

LEMMA ByLinesIs ==
    ASSUME NEW s, NEW i \in DOMAIN s, NEW j \in DOMAIN s
    PROVE  <<i, j>> \in ByLines(s) <=>
              \/ FirstSeen(s, i) < FirstSeen(s, j)
              \/ /\ FirstSeen(s, i) = FirstSeen(s, j)
                 /\ s[i].from < s[j].from \/ (s[i].from = s[j].from /\ i < j)
<1>1. <<i, j>> \in (DOMAIN s) \X (DOMAIN s) OBVIOUS
<1> QED BY <1>1 DEF ByLines

LEMMA ByLinesIsOrder ==
    ASSUME NEW s, DOMAIN s \subseteq Nat, \A i \in DOMAIN s : s[i].from \in Int
    PROVE  IsOrder(ByLines(s), DOMAIN s)
<1>1. \A i \in DOMAIN s : FirstSeen(s, i) \in Nat BY FirstSeenIs
<1>2. ASSUME NEW i \in DOMAIN s, NEW j \in DOMAIN s
      PROVE  <<i, j>> \in ByLines(s) <=>
                \/ FirstSeen(s, i) < FirstSeen(s, j)
                \/ /\ FirstSeen(s, i) = FirstSeen(s, j)
                   /\ s[i].from < s[j].from \/ (s[i].from = s[j].from /\ i < j)
  BY ByLinesIs
<1>3. ASSUME NEW i \in DOMAIN s, NEW j \in DOMAIN s, NEW k \in DOMAIN s,
             <<i, j>> \in ByLines(s), <<j, k>> \in ByLines(s)
      PROVE  <<i, k>> \in ByLines(s)
  <2>1. /\ FirstSeen(s, i) \in Nat /\ FirstSeen(s, j) \in Nat /\ FirstSeen(s, k) \in Nat
        /\ s[i].from \in Int /\ s[j].from \in Int /\ s[k].from \in Int
    BY <1>1
  <2> QED BY <1>2, <1>3, <2>1
<1>4. \A i \in DOMAIN s : <<i, i>> \notin ByLines(s) BY <1>1, <1>2
<1>5. ASSUME NEW i \in DOMAIN s, NEW j \in DOMAIN s
      PROVE  i = j \/ <<i, j>> \in ByLines(s) \/ <<j, i>> \in ByLines(s)
  <2>1. FirstSeen(s, i) \in Nat /\ FirstSeen(s, j) \in Nat /\ s[i].from \in Int /\ s[j].from \in Int
    BY <1>1
  <2>2. i \in Nat /\ j \in Nat OBVIOUS
  <2> QED BY <1>2, <2>1, <2>2
<1> QED BY <1>3, <1>4, <1>5 DEF IsOrder

LEMMA FirstOfIs ==
    ASSUME NEW T, NEW s \in Seq(T), NEW n \in Nat
    PROVE  /\ FirstOf(s, n) \in Seq(T)
           /\ Len(FirstOf(s, n)) = (IF Len(s) < n THEN Len(s) ELSE n)
           /\ Len(FirstOf(s, n)) <= n /\ Len(FirstOf(s, n)) <= Len(s)
           /\ \A i \in 1..Len(FirstOf(s, n)) : FirstOf(s, n)[i] = s[i]
<1> DEFINE m == IF Len(s) < n THEN Len(s) ELSE n
<1>1. m \in Nat /\ m <= Len(s) /\ m <= n OBVIOUS
<1> HIDE DEF m
<1>2. \A i \in 1..m : s[i] \in T BY <1>1
<1>3. /\ SubSeq(s, 1, m) \in Seq(T) /\ Len(SubSeq(s, 1, m)) = (IF 1 <= m THEN m - 1 + 1 ELSE 0)
      /\ \A i \in 1 .. m - 1 + 1 : SubSeq(s, 1, m)[i] = s[1 + i - 1]
  BY <1>1, <1>2, SubSeqProperties
<1>4. Len(SubSeq(s, 1, m)) = m BY <1>1, <1>3
<1>5. \A i \in 1..m : SubSeq(s, 1, m)[i] = s[i] BY <1>1, <1>3
<1>6. FirstOf(s, n) = SubSeq(s, 1, m) BY DEF FirstOf, m
<1> QED BY <1>1, <1>3, <1>4, <1>5, <1>6 DEF m

\* What is arranged by score descends.
LEMMA ScoresDescend ==
    ASSUME NEW s, NEW S, S \subseteq DOMAIN s, DOMAIN s \subseteq Int, IsFiniteSet(S),
           \A i \in S : s[i].score \in Int
    PROVE  \A k, l \in 1..Cardinality(S) :
              k < l => Arranged(s, S, ByScore(s))[k].score >= Arranged(s, S, ByScore(s))[l].score
<1> SUFFICES ASSUME NEW before, before = ByScore(s)
             PROVE  \A k, l \in 1..Cardinality(S) :
                       k < l => Arranged(s, S, before)[k].score >= Arranged(s, S, before)[l].score
  OBVIOUS
<1>1. IsOrder(before, S) BY ByScoreIsOrder
<1>2. PICK p : /\ Numbering(p, S, before)
               /\ Arranged(s, S, before) = [k \in 1..Cardinality(S) |-> s[p[k]]]
  BY <1>1, ArrangedIs
<1> SUFFICES ASSUME NEW k \in 1..Cardinality(S), NEW l \in 1..Cardinality(S), k < l
             PROVE  s[p[k]].score >= s[p[l]].score
  BY <1>2
<1>3. p[k] \in S /\ p[l] \in S /\ <<p[k], p[l]>> \in before BY <1>2 DEF Numbering
<1>4. s[p[k]].score > s[p[l]].score \/ s[p[k]].score = s[p[l]].score BY <1>3, ByScoreIs
<1> QED BY <1>3, <1>4

-----------------------------------------------------------------------------
(* The hits: no passage twice, and a score for each. *)

Hit == [passage : DOMAIN FileOf, score : Int]
HitsOK(s) == s \in Seq(Hit) /\ \A i, j \in DOMAIN s : s[i].passage = s[j].passage => i = j

\* Any selection in any order has hits as well.
LEMMA ArrangedHits ==
    ASSUME NEW s, HitsOK(s), NEW S, S \subseteq DOMAIN s, NEW before, IsOrder(before, S)
    PROVE  /\ IsFiniteSet(S) /\ Cardinality(S) <= Len(s)
           /\ HitsOK(Arranged(s, S, before)) /\ Len(Arranged(s, S, before)) = Cardinality(S)
           /\ \A k \in DOMAIN Arranged(s, S, before) :
                 \E i \in S : Arranged(s, S, before)[k] = s[i]
<1>1. IsFiniteSet(DOMAIN s) /\ Cardinality(DOMAIN s) = Len(s)
  <2>1. Len(s) \in Nat /\ DOMAIN s = 1..Len(s) BY DEF HitsOK
  <2>2. IsFiniteSet(1..Len(s)) /\ Cardinality(1..Len(s)) = IF 1 > Len(s) THEN 0 ELSE Len(s) - 1 + 1
    BY <2>1, FS_Interval
  <2> QED BY <2>1, <2>2
<1>2. IsFiniteSet(S) /\ Cardinality(S) <= Len(s) BY <1>1, FS_Subset
<1>3. PICK p : /\ Numbering(p, S, before)
               /\ Arranged(s, S, before) = [k \in 1..Cardinality(S) |-> s[p[k]]]
  BY <1>2, ArrangedIs
<1>4. Cardinality(S) \in Nat BY <1>2, FS_CardinalityType
<1>5. \A k \in 1..Cardinality(S) : p[k] \in S /\ s[p[k]] \in Hit BY <1>3 DEF Numbering, HitsOK
<1>6. Arranged(s, S, before) \in Seq(Hit) /\ Len(Arranged(s, S, before)) = Cardinality(S)
  <2>1. Arranged(s, S, before) \in [1..Cardinality(S) -> Hit] BY <1>3, <1>5
  <2> QED BY <2>1, <1>4
<1>7. DOMAIN Arranged(s, S, before) = 1..Cardinality(S) BY <1>3
<1>8. ASSUME NEW k \in 1..Cardinality(S), NEW l \in 1..Cardinality(S),
             s[p[k]].passage = s[p[l]].passage
      PROVE  k = l
  <2>1. p[k] = p[l] BY <1>5, <1>8 DEF HitsOK
  <2> QED BY <2>1, <1>3 DEF Numbering
<1>9. HitsOK(Arranged(s, S, before))
  <2>1. \A k, l \in 1..Cardinality(S) :
          Arranged(s, S, before)[k].passage = Arranged(s, S, before)[l].passage => k = l
    BY <1>3, <1>8
  <2> QED BY <1>6, <1>7, <2>1 DEF HitsOK
<1> QED BY <1>2, <1>3, <1>5, <1>6, <1>7, <1>9

LEMMA FirstHits ==
    ASSUME NEW s, HitsOK(s), NEW n \in Nat
    PROVE  HitsOK(FirstOf(s, n)) /\ Len(FirstOf(s, n)) <= n
<1>1. s \in Seq(Hit) BY DEF HitsOK
<1>2. /\ FirstOf(s, n) \in Seq(Hit)
      /\ Len(FirstOf(s, n)) <= n /\ Len(FirstOf(s, n)) <= Len(s)
      /\ \A i \in 1..Len(FirstOf(s, n)) : FirstOf(s, n)[i] = s[i]
  BY <1>1, FirstOfIs
<1>3. ASSUME NEW i \in DOMAIN FirstOf(s, n), NEW j \in DOMAIN FirstOf(s, n),
             FirstOf(s, n)[i].passage = FirstOf(s, n)[j].passage
      PROVE  i = j
  <2>1. i \in 1..Len(s) /\ j \in 1..Len(s) BY <1>1, <1>2
  <2>2. FirstOf(s, n)[i] = s[i] /\ FirstOf(s, n)[j] = s[j] BY <1>2
  <2>3. DOMAIN s = 1..Len(s) BY <1>1
  <2> QED BY <2>1, <2>2, <2>3, <1>3 DEF HitsOK
<1> QED BY <1>2, <1>3 DEF HitsOK

-----------------------------------------------------------------------------
(* retrieve *)

QueryOK ==
    /\ query.vector \in VectorRankings /\ query.keyword \in KeywordRankings
    /\ query.weight \in Weights

LEMMA RankingIs ==
    ASSUME NEW s \in VectorRankings \cup KeywordRankings
    PROVE  s \in Seq(DOMAIN FileOf) /\ \A i, j \in DOMAIN s : s[i] = s[j] => i = j
BY RankingsAssumption

LEMMA RankIsPositive ==
    ASSUME NEW s \in VectorRankings \cup KeywordRankings, NEW p \in ToSet(s)
    PROVE  RankIn(s, p) \in Nat /\ RankIn(s, p) > 0
<1>1. DOMAIN s = 1..Len(s) /\ Len(s) \in Nat BY RankingIs
<1>2. PICK i \in DOMAIN s : s[i] = p BY DEF ToSet
<1>3. RankIn(s, p) \in DOMAIN s BY <1>2 DEF RankIn
<1> QED BY <1>1, <1>3

LEMMA LegIsInt ==
    ASSUME NEW s \in VectorRankings \cup KeywordRankings, NEW p
    PROVE  Leg(s, p) \in Int
<1>1. CASE p \in ToSet(s)
  <2>1. RankIn(s, p) \in Nat /\ RankIn(s, p) > 0 BY <1>1, RankIsPositive
  <2>2. K \in Nat BY SearchAssumption
  <2> DEFINE a == 60 * (K + 1)
             b == K + RankIn(s, p)
  <2>3. a \in Nat /\ b \in Nat /\ b > 0 BY <2>1, <2>2
  <2>4. a \div b \in Int
    <3> HIDE DEF a, b
    <3> QED BY <2>3
  <2> QED BY <1>1, <2>4 DEF Leg
<1>2. CASE p \notin ToSet(s) BY <1>2 DEF Leg
<1> QED BY <1>1, <1>2

LEMMA FusedScoreIsInt ==
    ASSUME QueryOK, NEW p
    PROVE  FusedScore(p) \in Int
<1>1. query.weight \in 0..4 BY SearchAssumption DEF QueryOK
<1>2. Leg(query.vector, p) \in Int /\ Leg(query.keyword, p) \in Int BY LegIsInt DEF QueryOK
<1>3. Demotion(p) \in {1, 2} BY DEF Demotion
<1>4. Fused(p) \in Int
  <2> DEFINE a == (4 - query.weight) * 2
             b == query.weight * Demotion(p)
  <2>1. a \in Int /\ b \in Int BY <1>1, <1>3
  <2>2. a * Leg(query.vector, p) \in Int /\ b * Leg(query.keyword, p) \in Int
    <3> HIDE DEF a, b
    <3> QED BY <2>1, <1>2
  <2> QED BY <2>2 DEF Fused
<1>5. MaxReachable(p) \in Int BY <1>1 DEF MaxReachable
<1>6. MaxReachable(p) > 0 => (Fused(p) * 4) \div MaxReachable(p) \in Int BY <1>4, <1>5
<1> QED BY <1>4, <1>6 DEF FusedScore

\* What w has and v does not, after v.
Appendable(T, v, w, more, before) ==
    /\ v \in Seq(T) /\ \A i, j \in DOMAIN v : v[i] = v[j] => i = j
    /\ w \in Seq(T) /\ \A i, j \in DOMAIN w : w[i] = w[j] => i = j
    /\ more \subseteq DOMAIN w /\ \A i \in more : w[i] \notin ToSet(v)
    /\ IsOrder(before, more)
Appended(T, v, w, all) ==
    /\ all \in Seq(T)
    /\ \A i, j \in DOMAIN all : all[i] = all[j] => i = j
    /\ w = <<>> => \A i \in DOMAIN all : all[i] \in ToSet(v)

LEMMA AppendedIs ==
    ASSUME NEW T, NEW v, NEW w, NEW more, NEW before, Appendable(T, v, w, more, before)
    PROVE  Appended(T, v, w, v \o Arranged(w, more, before))
<1> SUFFICES ASSUME NEW all, all = v \o Arranged(w, more, before) PROVE Appended(T, v, w, all)
  OBVIOUS
<1> DEFINE rest == Arranged(w, more, before)
           n == Cardinality(more)
<1>1. /\ v \in Seq(T) /\ \A i, j \in DOMAIN v : v[i] = v[j] => i = j
      /\ w \in Seq(T) /\ \A i, j \in DOMAIN w : w[i] = w[j] => i = j
      /\ more \subseteq DOMAIN w /\ \A i \in more : w[i] \notin ToSet(v)
      /\ IsOrder(before, more)
  BY DEF Appendable
<1>2. /\ Len(v) \in Nat /\ DOMAIN v = 1..Len(v) /\ Len(w) \in Nat /\ DOMAIN w = 1..Len(w)
  BY <1>1
<1>3. IsFiniteSet(more)
  <2>1. IsFiniteSet(1..Len(w)) BY <1>2, FS_Interval
  <2>2. more \in SUBSET (1..Len(w)) BY <1>1, <1>2
  <2> QED BY <2>1, <2>2, FS_Subset
<1>5. n \in Nat BY <1>3, FS_CardinalityType
<1>4. IsOrder(before, more) BY <1>1
<1>6. PICK p : /\ Numbering(p, more, before)
               /\ Arranged(w, more, before) = [k \in 1..Cardinality(more) |-> w[p[k]]]
  BY <1>3, <1>4, ArrangedIs
<1>7. \A k \in 1..n : p[k] \in more BY <1>6 DEF Numbering
<1>8. rest \in Seq(T) /\ Len(rest) = n
  <2>1. \A k \in 1..n : w[p[k]] \in T BY <1>1, <1>7
  <2>2. rest \in [1..n -> T] BY <1>6, <2>1
  <2> HIDE DEF rest, n
  <2> QED BY <2>2, <1>5
<1>9. \A k \in 1..n : rest[k] = w[p[k]] /\ rest[k] \notin ToSet(v)
  <2>1. \A k \in 1..n : rest[k] = w[p[k]] BY <1>6
  <2>2. \A k \in 1..n : w[p[k]] \notin ToSet(v) BY <1>1, <1>7
  <2> HIDE DEF rest, n
  <2> QED BY <2>1, <2>2
<1>10. \A k, l \in 1..n : rest[k] = rest[l] => k = l
  <2> SUFFICES ASSUME NEW k \in 1..n, NEW l \in 1..n, rest[k] = rest[l] PROVE k = l OBVIOUS
  <2>1. w[p[k]] = w[p[l]] /\ p[k] \in DOMAIN w /\ p[l] \in DOMAIN w
    BY <1>1, <1>7, <1>9
  <2>2. p[k] = p[l] BY <2>1, <1>1
  <2> QED BY <2>2, <1>6 DEF Numbering
<1>11. all = v \o rest OBVIOUS
<1> HIDE DEF rest, n
<1>12. /\ all \in Seq(T) /\ Len(all) = Len(v) + n
       /\ \A i \in 1..Len(v) + n : all[i] = IF i <= Len(v) THEN v[i] ELSE rest[i - Len(v)]
  BY <1>1, <1>8, <1>11, ConcatProperties
<1>13. DOMAIN all = 1..Len(v) + n BY <1>12
<1>14. \A i \in 1..Len(v) : v[i] \in ToSet(v) BY <1>2 DEF ToSet
<1>15. ASSUME NEW i \in DOMAIN all, NEW j \in DOMAIN all, all[i] = all[j] PROVE i = j
  <2>1. CASE i <= Len(v) /\ j <= Len(v)
    <3>1. i \in 1..Len(v) /\ j \in 1..Len(v) BY <2>1, <1>13, <1>2, <1>5
    <3> QED BY <3>1, <1>1, <1>2, <1>12, <1>13, <1>15, <2>1
  <2>2. CASE i <= Len(v) /\ ~ (j <= Len(v))
    <3>1. i \in 1..Len(v) /\ j - Len(v) \in 1..n BY <2>2, <1>13, <1>2, <1>5
    <3>2. all[i] \in ToSet(v) /\ all[j] \notin ToSet(v)
      BY <3>1, <1>9, <1>12, <1>13, <1>14, <2>2
    <3> QED BY <3>2, <1>15
  <2>3. CASE ~ (i <= Len(v)) /\ j <= Len(v)
    <3>1. j \in 1..Len(v) /\ i - Len(v) \in 1..n BY <2>3, <1>13, <1>2, <1>5
    <3>2. all[j] \in ToSet(v) /\ all[i] \notin ToSet(v)
      BY <3>1, <1>9, <1>12, <1>13, <1>14, <2>3
    <3> QED BY <3>2, <1>15
  <2>4. CASE ~ (i <= Len(v)) /\ ~ (j <= Len(v))
    <3>1. i - Len(v) \in 1..n /\ j - Len(v) \in 1..n BY <2>4, <1>13, <1>2, <1>5
    <3>2. all[i] = rest[i - Len(v)] /\ all[j] = rest[j - Len(v)] BY <1>12, <1>13, <2>4
    <3>3. i - Len(v) = j - Len(v) BY <3>1, <3>2, <1>10, <1>15
    <3> QED BY <3>3, <1>2, <1>5, <1>13
  <2> QED BY <2>1, <2>2, <2>3, <2>4
<1>16. ASSUME w = <<>> PROVE \A i \in DOMAIN all : all[i] \in ToSet(v)
  <2>1. more = {} BY <1>1, <1>16
  <2>2. n = 0
    <3>1. Cardinality({}) = 0 BY FS_EmptySet
    <3> QED BY <2>1, <3>1 DEF n
  <2>3. \A i \in 1..Len(v) : all[i] = v[i] BY <2>2, <1>2, <1>12
  <2>4. DOMAIN all = 1..Len(v)
    <3>1. Len(v) + n = Len(v) BY <2>2, <1>2
    <3> QED BY <3>1, <1>13
  <2> QED BY <2>3, <2>4, <1>14
<1> QED BY <1>12, <1>15, <1>16 DEF Appended

LEMMA FoundIs ==
    ASSUME QueryOK
    PROVE  /\ Found \in Seq(DOMAIN FileOf)
           /\ \A i, j \in DOMAIN Found : Found[i] = Found[j] => i = j
           /\ query.keyword = <<>> => \A i \in DOMAIN Found : Found[i] \in ToSet(query.vector)
<1> DEFINE more == {i \in DOMAIN query.keyword : query.keyword[i] \notin ToSet(query.vector)}
<1>1. /\ query.vector \in Seq(DOMAIN FileOf) /\ query.keyword \in Seq(DOMAIN FileOf)
      /\ \A i, j \in DOMAIN query.vector : query.vector[i] = query.vector[j] => i = j
      /\ \A i, j \in DOMAIN query.keyword : query.keyword[i] = query.keyword[j] => i = j
  BY RankingIs DEF QueryOK
<1>2. /\ DOMAIN query.keyword \subseteq Int /\ more \subseteq DOMAIN query.keyword
      /\ \A i \in more : query.keyword[i] \notin ToSet(query.vector)
  BY <1>1
<1>3. Found = query.vector \o Arranged(query.keyword, more, InPlace(query.keyword)) BY DEF Found
<1> HIDE DEF more
<1>4. IsOrder(InPlace(query.keyword), more) BY <1>2, InPlaceIsOrder
<1>5. Appendable(DOMAIN FileOf, query.vector, query.keyword, more, InPlace(query.keyword))
  BY <1>1, <1>2, <1>4 DEF Appendable
<1>6. Appended(DOMAIN FileOf, query.vector, query.keyword, Found) BY <1>3, <1>5, AppendedIs
<1> QED BY <1>6 DEF Appended

LEMMA ScoredIsOK == QueryOK => HitsOK(Scored)
<1> SUFFICES ASSUME QueryOK PROVE HitsOK(Scored) OBVIOUS
<1>1. /\ Found \in Seq(DOMAIN FileOf) /\ DOMAIN Found = 1..Len(Found) /\ Len(Found) \in Nat
      /\ \A i, j \in DOMAIN Found : Found[i] = Found[j] => i = j
      /\ query.keyword = <<>> => \A i \in DOMAIN Found : Found[i] \in ToSet(query.vector)
  BY FoundIs
<1>2. ASSUME NEW i \in DOMAIN Found PROVE Score(Found[i]) \in Int
  <2>1. CASE query.keyword = <<>>
    <3>1. Found[i] \in ToSet(query.vector) BY <1>1, <2>1
    <3>2. RankIn(query.vector, Found[i]) \in Nat BY <3>1, RankIsPositive DEF QueryOK
    <3> QED BY <2>1, <3>2 DEF Score, Similarity, Unit
  <2>2. CASE query.keyword # <<>> BY <2>2, FusedScoreIsInt DEF Score
  <2> QED BY <2>1, <2>2
<1>3. \A i \in DOMAIN Found : [passage |-> Found[i], score |-> Score(Found[i])] \in Hit
  BY <1>1, <1>2 DEF Hit
<1>4. Scored \in Seq(Hit) BY <1>1, <1>3 DEF Scored
<1>5. \A i \in DOMAIN Found : Scored[i].passage = Found[i] BY DEF Scored
<1>6. DOMAIN Scored = DOMAIN Found BY DEF Scored
<1> QED BY <1>1, <1>4, <1>5, <1>6 DEF HitsOK

LEMMA ScoresOfHits ==
    ASSUME NEW s, HitsOK(s)
    PROVE  DOMAIN s \subseteq Nat /\ \A i \in DOMAIN s : s[i].score \in Int /\ s[i].passage \in DOMAIN FileOf
<1>1. s \in Seq(Hit) BY DEF HitsOK
<1>2. DOMAIN s = 1..Len(s) /\ Len(s) \in Nat BY <1>1
<1>3. \A i \in DOMAIN s : s[i] \in Hit BY <1>1
<1> QED BY <1>2, <1>3 DEF Hit

LEMMA RetrieveFindsHits == QueryOK => HitsOK(Combined)
<1> SUFFICES ASSUME QueryOK PROVE HitsOK(Combined) OBVIOUS
<1> DEFINE passed == AtLeast(Scored, query.gate.minScore)
<1>1. HitsOK(Scored) BY ScoredIsOK
<1>2. passed \subseteq DOMAIN Scored BY DEF AtLeast
<1>3. DOMAIN Scored \subseteq Int /\ \A i \in passed : Scored[i].score \in Int
  BY <1>1, <1>2, ScoresOfHits
<1>4. IsOrder(InPlace(Scored), passed) BY <1>2, <1>3, InPlaceIsOrder
<1>5. IsOrder(ByScore(Scored), passed) BY <1>2, <1>3, ByScoreIsOrder
<1> SUFFICES ASSUME NEW before, IsOrder(before, passed)
             PROVE  HitsOK(Arranged(Scored, passed, before))
  BY <1>4, <1>5 DEF Combined
<1> HIDE DEF passed
<1> QED BY <1>1, <1>2, ArrangedHits

-----------------------------------------------------------------------------
(* applyRerankStage *)

LEMMA RerankKeepsHits ==
    ASSUME HitsOK(hits), NEW scores \in [1..PoolSize -> RerankScores], NEW floor
    PROVE  HitsOK(Reranked(scores, floor))
<1> DEFINE s == Rescored(scores)
           passed == IF floor <= 0 THEN DOMAIN Pool ELSE AtLeast(s, floor)
           head == Arranged(s, passed, ByScore(s))
           tail == SubSeq(hits, Len(Pool) + 1, Len(hits))
<1>1. PoolSize \in Nat BY SearchAssumption DEF PoolSize
<1>2. /\ hits \in Seq(Hit) /\ Len(hits) \in Nat /\ DOMAIN hits = 1..Len(hits) BY DEF HitsOK
<1>3. /\ Pool \in Seq(Hit) /\ Len(Pool) <= PoolSize /\ Len(Pool) <= Len(hits)
      /\ \A i \in 1..Len(Pool) : Pool[i] = hits[i]
  BY <1>1, <1>2, FirstOfIs DEF Pool
<1>4. Len(Pool) \in Nat /\ DOMAIN Pool = 1..Len(Pool) BY <1>3
<1>5. ASSUME NEW i \in 1..Len(Pool)
      PROVE  s[i] \in Hit /\ s[i].passage = hits[i].passage
  <2>0. i \in 1..PoolSize BY <1>1, <1>3, <1>4
  <2>1. scores[i] \in Int BY <2>0, SearchAssumption
  <2>2. s[i] = [Pool[i] EXCEPT !.score = scores[i]] BY <1>4 DEF Rescored
  <2>3. Pool[i] \in Hit BY <1>3, <1>4
  <2>4. PICK f \in DOMAIN FileOf, n \in Int : Pool[i] = [passage |-> f, score |-> n] BY <2>3 DEF Hit
  <2>5. s[i] = [passage |-> f, score |-> scores[i]] BY <2>2, <2>4
  <2>6. Pool[i] = hits[i] BY <1>3
  <2> QED BY <2>1, <2>4, <2>5, <2>6 DEF Hit
<1>6. DOMAIN s = 1..Len(Pool) BY <1>4 DEF Rescored
<1>7. HitsOK(s)
  <2>1. s \in [1..Len(Pool) -> Hit] BY <1>5, <1>6 DEF Rescored
  <2>2. s \in Seq(Hit) BY <2>1, <1>4
  <2>3. ASSUME NEW i \in DOMAIN s, NEW j \in DOMAIN s, s[i].passage = s[j].passage PROVE i = j
    <3>1. hits[i].passage = hits[j].passage /\ i \in DOMAIN hits /\ j \in DOMAIN hits
      BY <1>2, <1>3, <1>4, <1>5, <1>6, <2>3
    <3> QED BY <3>1 DEF HitsOK
  <2> QED BY <2>2, <2>3 DEF HitsOK
<1> HIDE DEF s
<1>8. passed \subseteq DOMAIN s BY <1>4, <1>6 DEF AtLeast
<1> HIDE DEF passed
<1>9. IsOrder(ByScore(s), passed)
  <2>1. DOMAIN s \subseteq Int /\ \A i \in passed : s[i].score \in Int BY <1>7, <1>8, ScoresOfHits
  <2> QED BY <2>1, <1>8, ByScoreIsOrder
<1>10. /\ HitsOK(head) /\ \A k \in DOMAIN head : \E i \in passed : head[k] = s[i]
  <2> SUFFICES ASSUME NEW before, before = ByScore(s)
               PROVE  /\ HitsOK(Arranged(s, passed, before))
                      /\ \A k \in DOMAIN Arranged(s, passed, before) :
                            \E i \in passed : Arranged(s, passed, before)[k] = s[i]
    OBVIOUS
  <2>1. IsOrder(before, passed) BY <1>9
  <2> QED BY <1>7, <1>8, <2>1, ArrangedHits
<1>11. /\ tail \in Seq(Hit)
       /\ \A k \in 1..Len(tail) : /\ Len(Pool) + k \in DOMAIN hits
                                  /\ tail[k] = hits[Len(Pool) + k]
  <2> DEFINE m == Len(Pool) + 1
  <2>1. m \in Int /\ Len(hits) \in Int /\ \A i \in m..Len(hits) : hits[i] \in Hit BY <1>2, <1>4
  <2>2. /\ tail \in Seq(Hit)
        /\ Len(tail) = (IF m <= Len(hits) THEN Len(hits) - m + 1 ELSE 0)
        /\ \A i \in 1 .. Len(hits) - m + 1 : tail[i] = hits[m + i - 1]
    <3> HIDE DEF m
    <3> SUFFICES ASSUME NEW t, t = SubSeq(hits, m, Len(hits))
                 PROVE  /\ t \in Seq(Hit)
                        /\ Len(t) = (IF m <= Len(hits) THEN Len(hits) - m + 1 ELSE 0)
                        /\ \A i \in 1 .. Len(hits) - m + 1 : t[i] = hits[m + i - 1]
      BY DEF m
    <3> QED BY <2>1, SubSeqProperties
  <2> HIDE DEF tail
  <2>3. ASSUME NEW k \in 1..Len(tail) PROVE Len(Pool) + k \in DOMAIN hits /\ tail[k] = hits[Len(Pool) + k]
    <3>1. k \in 1 .. Len(hits) - m + 1
      <4> HIDE DEF m
      <4> QED BY <2>1, <2>2
    <3>2. tail[k] = hits[m + k - 1]
      <4> HIDE DEF m
      <4> QED BY <3>1, <2>2
    <3>3. m + k - 1 = Len(Pool) + k /\ Len(Pool) + k \in 1..Len(hits) BY <3>1, <1>2, <1>4
    <3> QED BY <3>2, <3>3, <1>2
  <2> QED BY <2>2, <2>3
<1>12. Reranked(scores, floor) = head \o tail BY DEF Reranked, s, passed
<1> DEFINE a == Len(head)
           b == Len(tail)
<1>13. /\ head \in Seq(Hit) /\ a \in Nat /\ DOMAIN head = 1..a /\ b \in Nat
  BY <1>10, <1>11 DEF HitsOK
<1> SUFFICES ASSUME NEW all, all = head \o tail PROVE HitsOK(all) BY <1>12
<1> HIDE DEF head, tail
<1>14. /\ all \in Seq(Hit) /\ Len(all) = a + b
       /\ \A i \in 1..a + b : all[i] = IF i <= a THEN head[i] ELSE tail[i - a]
  BY <1>11, <1>13, ConcatProperties
<1> HIDE DEF a, b
<1>15. ASSUME NEW i \in 1..a PROVE \E h \in 1..Len(Pool) : all[i].passage = hits[h].passage
  <2>1. all[i] = head[i] BY <1>13, <1>14
  <2>2. PICK h \in passed : head[i] = s[h] BY <1>10, <1>13
  <2> QED BY <2>1, <2>2, <1>5, <1>6, <1>8
<1>16. ASSUME NEW i \in 1..a + b, ~ (i <= a)
       PROVE  i - a \in 1..b /\ Len(Pool) + (i - a) \in DOMAIN hits /\ all[i] = hits[Len(Pool) + (i - a)]
  BY <1>11, <1>13, <1>14, <1>16 DEF b
<1>17. ASSUME NEW i \in DOMAIN all, NEW j \in DOMAIN all, all[i].passage = all[j].passage PROVE i = j
  <2>0. DOMAIN all = 1..a + b BY <1>14, <1>13
  <2>1. CASE i <= a /\ j <= a
    <3>1. i \in 1..a /\ j \in 1..a BY <2>0, <2>1, <1>13
    <3>2. head[i].passage = head[j].passage BY <3>1, <2>1, <1>14, <1>17, <2>0
    <3> QED BY <3>1, <3>2, <1>10, <1>13 DEF HitsOK
  <2>2. CASE i <= a /\ ~ (j <= a)
    <3>1. i \in 1..a BY <2>0, <2>2, <1>13
    <3>2. PICK h \in 1..Len(Pool) : all[i].passage = hits[h].passage BY <3>1, <1>15
    <3>3. j - a \in 1..b /\ Len(Pool) + (j - a) \in DOMAIN hits /\ all[j] = hits[Len(Pool) + (j - a)]
      BY <2>0, <2>2, <1>16
    <3>4. h \in DOMAIN hits BY <1>2, <1>3, <1>4
    <3>5. h = Len(Pool) + (j - a) BY <3>2, <3>3, <3>4, <1>17 DEF HitsOK
    <3> QED BY <3>3, <3>5, <1>4, <1>13
  <2>3. CASE ~ (i <= a) /\ j <= a
    <3>1. j \in 1..a BY <2>0, <2>3, <1>13
    <3>2. PICK h \in 1..Len(Pool) : all[j].passage = hits[h].passage BY <3>1, <1>15
    <3>3. i - a \in 1..b /\ Len(Pool) + (i - a) \in DOMAIN hits /\ all[i] = hits[Len(Pool) + (i - a)]
      BY <2>0, <2>3, <1>16
    <3>4. h \in DOMAIN hits BY <1>2, <1>3, <1>4
    <3>5. h = Len(Pool) + (i - a) BY <3>2, <3>3, <3>4, <1>17 DEF HitsOK
    <3> QED BY <3>3, <3>5, <1>4, <1>13
  <2>4. CASE ~ (i <= a) /\ ~ (j <= a)
    <3>1. /\ i - a \in 1..b /\ Len(Pool) + (i - a) \in DOMAIN hits /\ all[i] = hits[Len(Pool) + (i - a)]
          /\ j - a \in 1..b /\ Len(Pool) + (j - a) \in DOMAIN hits /\ all[j] = hits[Len(Pool) + (j - a)]
      BY <2>0, <2>4, <1>16
    <3>2. Len(Pool) + (i - a) = Len(Pool) + (j - a) BY <3>1, <1>17 DEF HitsOK
    <3> QED BY <3>1, <3>2, <2>0, <1>4, <1>13
  <2> QED BY <2>1, <2>2, <2>3, <2>4
<1> QED BY <1>14, <1>17 DEF HitsOK

-----------------------------------------------------------------------------
(* The first and the last of an order. *)

LEMMA FirstAndLast ==
    ASSUME NEW S, S # {}, IsFiniteSet(S), NEW before, IsOrder(before, S)
    PROVE  /\ \E b \in S : \A j \in S : j = b \/ <<b, j>> \in before
           /\ \E l \in S : \A j \in S : j = l \/ <<j, l>> \in before
<1> DEFINE n == Cardinality(S)
           q == [k \in 1..n |-> CHOOSE i \in S : Place(i, S, before) = k]
<1>1. Numbering(q, S, before) BY PlacesNumber
<1> HIDE DEF q
<1>2. n \in Nat /\ n # 0 BY FS_CardinalityType, FS_EmptySet
<1>3. 1 \in 1..n /\ n \in 1..n BY <1>2
<1>4. q[1] \in S /\ q[n] \in S BY <1>1, <1>3 DEF Numbering
<1>5. ASSUME NEW j \in S
      PROVE  (j = q[1] \/ <<q[1], j>> \in before) /\ (j = q[n] \/ <<j, q[n]>> \in before)
  <2>1. PICK k \in 1..n : q[k] = j BY <1>1 DEF Numbering
  <2>2. k = 1 \/ 1 < k BY <2>1
  <2>3. k = n \/ k < n BY <2>1, <1>2
  <2>4. 1 < k => <<q[1], j>> \in before BY <1>1, <1>3, <2>1 DEF Numbering
  <2>5. k < n => <<j, q[n]>> \in before BY <1>1, <1>3, <2>1 DEF Numbering
  <2> QED BY <2>1, <2>2, <2>3, <2>4, <2>5
<1> QED BY <1>4, <1>5

\* Of some rows one has the best score.
LEMMA BestOf ==
    ASSUME NEW s, NEW S, S # {}, IsFiniteSet(S), S \subseteq DOMAIN s, DOMAIN s \subseteq Int,
           \A i \in S : s[i].score \in Int
    PROVE  \E b \in S : \A j \in S : s[b].score >= s[j].score /\ <<j, b>> \notin ByScore(s)
<1>1. IsOrder(ByScore(s), S) BY ByScoreIsOrder
<1>2. PICK b \in S : \A j \in S : j = b \/ <<b, j>> \in ByScore(s)
  <2> SUFFICES ASSUME NEW before, IsOrder(before, S)
               PROVE  \E b \in S : \A j \in S : j = b \/ <<b, j>> \in before
    BY <1>1
  <2> QED BY FirstAndLast
<1>3. ASSUME NEW j \in S PROVE s[b].score >= s[j].score /\ <<j, b>> \notin ByScore(s)
  <2>1. s[b].score \in Int /\ s[j].score \in Int /\ b \in Int /\ j \in Int OBVIOUS
  <2>2. b \in DOMAIN s /\ j \in DOMAIN s OBVIOUS
  <2>3. \/ j = b
        \/ s[b].score > s[j].score
        \/ s[b].score = s[j].score /\ b < j
    BY <1>2, <2>2, ByScoreIs
  <2>4. <<j, b>> \in ByScore(s) <=> \/ s[j].score > s[b].score
                                    \/ s[j].score = s[b].score /\ j < b
    BY <2>2, ByScoreIs
  <2> QED BY <2>1, <2>3, <2>4
<1> QED BY <1>3

-----------------------------------------------------------------------------
(* mergeAdjacentChunks *)

\* The range of a row holds its chunks, if none of them lies within another.
RangeHolds(r) ==
    \A p \in r.of : /\ From[p] \in Int /\ To[p] \in Int /\ r.from <= From[p]
                    /\ Unnested(r.of) => To[p] <= r.to

\* Rows of results, and no chunk in two of them.
RowsOK(s) ==
    /\ s \in Seq({s[i] : i \in DOMAIN s})
    /\ \A i \in DOMAIN s : s[i].score \in Int /\ s[i].from \in Int /\ s[i].to \in Int
    /\ \A i \in DOMAIN s : RangeHolds(s[i])
    /\ \A i, j \in DOMAIN s : i # j => s[i].of \cap s[j].of = {}
InLines(s) ==
    \A i, j \in DOMAIN s :
        i < j /\ s[i].file = s[j].file => s[i].from <= s[j].from

\* Nothing is merged yet.
Single(s) == \A i \in DOMAIN s : \E p : s[i].of = {p} /\ s[i].from = From[p] /\ s[i].to = To[p]

\* Whatever s has of a file, t has as good a row of that file.
Covers(t, s, T, S) ==
    \A i \in S : \E k \in T : t[k].file = s[i].file /\ t[k].score >= s[i].score

LEMMA RowsDomain ==
    ASSUME NEW s, RowsOK(s)
    PROVE  /\ Len(s) \in Nat /\ DOMAIN s = 1..Len(s) /\ DOMAIN s \subseteq Nat /\ DOMAIN s \subseteq Int
           /\ IsFiniteSet(DOMAIN s) /\ Cardinality(DOMAIN s) = Len(s)
<1>1. Len(s) \in Nat /\ DOMAIN s = 1..Len(s) BY DEF RowsOK
<1>2. IsFiniteSet(1..Len(s)) /\ Cardinality(1..Len(s)) = IF 1 > Len(s) THEN 0 ELSE Len(s) - 1 + 1
  BY <1>1, FS_Interval
<1> QED BY <1>1, <1>2

\* Every row is in the run of one start.
LEMMA RunOf ==
    ASSUME NEW s, RowsOK(s), NEW i \in DOMAIN s
    PROVE  \E k \in Starts(s) : i \in Run(s, k)
<1>1. Len(s) \in Nat /\ DOMAIN s = 1..Len(s) BY RowsDomain
<1> DEFINE T == {k \in Starts(s) : k <= i}
<1>2. Starts(s) \subseteq 1..Len(s) BY <1>1 DEF Starts
<1>3. 1 \in Starts(s) BY <1>1 DEF Starts
<1>4. T \subseteq 1..Len(s) /\ T # {} BY <1>1, <1>2, <1>3
<1>5. PICK k \in T : \A j \in T : j <= k
  <2> HIDE DEF T
  <2> QED BY <1>1, <1>4, GreatestBelow
<1>6. ASSUME NEW j \in k + 1 .. i PROVE j \notin Starts(s)
  <2>1. k \in Int /\ i \in Int /\ j <= i /\ j > k BY <1>1, <1>2
  <2> QED BY <2>1, <1>5
<1>7. i \in Run(s, k) BY <1>5, <1>6 DEF Run
<1> QED BY <1>5, <1>7

LEMMA RunsApart ==
    ASSUME NEW s, RowsOK(s), NEW k \in Starts(s), NEW l \in Starts(s), NEW i,
           i \in Run(s, k), i \in Run(s, l)
    PROVE  k = l
<1>1. k \in Int /\ l \in Int /\ i \in Int /\ k <= i /\ l <= i
  BY RowsDomain DEF Starts, Run
<1>2. k < l => l \in k + 1 .. i BY <1>1
<1>3. l < k => k \in l + 1 .. i BY <1>1
<1> QED BY <1>1, <1>2, <1>3 DEF Run

LEMMA RunIs ==
    ASSUME NEW s, RowsOK(s), NEW k \in Starts(s)
    PROVE  /\ Run(s, k) \subseteq DOMAIN s /\ IsFiniteSet(Run(s, k)) /\ Run(s, k) # {}
           /\ Least(Run(s, k)) = k
           /\ Greatest(Run(s, k)) \in Run(s, k) /\ \A j \in Run(s, k) : j <= Greatest(Run(s, k))
           /\ \A i \in Run(s, k) : k <= i /\ s[i].file = s[k].file
<1>1. Len(s) \in Nat /\ DOMAIN s = 1..Len(s) /\ IsFiniteSet(DOMAIN s) BY RowsDomain
<1>2. k \in 1..Len(s) BY <1>1 DEF Starts
<1>3. Run(s, k) \subseteq 1..Len(s) /\ \A i \in Run(s, k) : k <= i BY <1>1 DEF Run
<1>4. k \in Run(s, k) BY <1>1, <1>2 DEF Run
<1>5. IsFiniteSet(Run(s, k))
  <2>1. Run(s, k) \in SUBSET DOMAIN s BY <1>1, <1>3
  <2> QED BY <2>1, <1>1, FS_Subset
<1>6. Least(Run(s, k)) = k
  <2>1. Run(s, k) \subseteq Nat /\ Run(s, k) # {} BY <1>3, <1>4
  <2>2. Least(Run(s, k)) \in Run(s, k) /\ \A j \in Run(s, k) : Least(Run(s, k)) <= j BY <2>1, LeastIs
  <2>3. Least(Run(s, k)) <= k /\ k <= Least(Run(s, k)) /\ Least(Run(s, k)) \in Int
    BY <2>2, <1>3, <1>4
  <2> QED BY <2>3, <1>2
<1>7. Greatest(Run(s, k)) \in Run(s, k) /\ \A j \in Run(s, k) : Greatest(Run(s, k)) >= j
  <2> SUFFICES ASSUME NEW run, run = Run(s, k)
               PROVE  Greatest(run) \in run /\ \A j \in run : Greatest(run) >= j
    OBVIOUS
  <2>1. run \subseteq 1..Len(s) /\ run # {} BY <1>3, <1>4
  <2>2. PICK m \in run : \A j \in run : j <= m BY <1>1, <2>1, GreatestBelow
  <2>3. \A j \in run : m >= j BY <2>1, <2>2
  <2> QED BY <2>3 DEF Greatest
<1>8. \A i \in Run(s, k) : s[i].file = s[k].file
  <2> DEFINE T == {i \in Run(s, k) : s[i].file # s[k].file}
  <2> SUFFICES ASSUME T # {} PROVE FALSE OBVIOUS
  <2>1. T \subseteq Nat BY <1>3
  <2>2. PICK i \in T : \A j \in T : i <= j
    <3> HIDE DEF T
    <3> QED BY <2>1, LeastNat
  <2>3. i \in 1..Len(s) /\ k <= i /\ i # k BY <1>3, <2>2
  <2>4. i - 1 \in Run(s, k)
    <3>1. i - 1 \in DOMAIN s /\ k <= i - 1 BY <1>1, <1>2, <2>3
    <3>2. \A j \in k + 1 .. i - 1 : j \in k + 1 .. i BY <1>2, <2>3
    <3> QED BY <3>1, <3>2 DEF Run
  <2>5. i - 1 \notin T BY <2>2, <2>3
  <2>6. s[i - 1].file = s[k].file BY <2>4, <2>5
  <2>7. i \notin Starts(s)
    <3>1. i \in k + 1 .. i BY <1>2, <2>3
    <3> QED BY <3>1, <2>2 DEF Run
  <2>8. s[i - 1].file = s[i].file BY <2>7, <2>3, <1>1 DEF Starts
  <2> QED BY <2>6, <2>8
<1> QED BY <1>1, <1>3, <1>4, <1>5, <1>6, <1>7, <1>8

\* One result for a run: its file, its range and the best of its scores.
LEMMA MergedIs ==
    ASSUME NEW s, RowsOK(s), InLines(s), Single(s), NEW k \in Starts(s), NEW r, r = Merged(s, Run(s, k))
    PROVE  /\ r.score \in Int /\ r.from \in Int /\ r.to \in Int
           /\ RangeHolds(r)
           /\ \A p \in r.of : \E i \in Run(s, k) : p \in s[i].of
           /\ \A i \in Run(s, k) : r.file = s[i].file /\ r.score >= s[i].score
<1> DEFINE e == Greatest(Run(s, k))
<1>1. /\ Run(s, k) \subseteq DOMAIN s /\ IsFiniteSet(Run(s, k)) /\ Run(s, k) # {}
      /\ Least(Run(s, k)) = k /\ e \in Run(s, k) /\ \A j \in Run(s, k) : j <= e
      /\ \A i \in Run(s, k) : k <= i /\ s[i].file = s[k].file
  BY RunIs
<1>2. DOMAIN s \subseteq Int /\ k \in DOMAIN s BY RowsDomain DEF Starts
<1>3. \A i \in DOMAIN s : s[i].score \in Int /\ s[i].from \in Int /\ s[i].to \in Int BY DEF RowsOK
<1>4. PICK b \in Run(s, k) : \A j \in Run(s, k) : s[b].score >= s[j].score
  <2> SUFFICES ASSUME NEW run, run = Run(s, k)
               PROVE  \E b \in run : \A j \in run : s[b].score >= s[j].score
    OBVIOUS
  <2>1. run # {} /\ IsFiniteSet(run) /\ run \subseteq DOMAIN s /\ \A i \in run : s[i].score \in Int
    BY <1>1, <1>3
  <2> QED BY <1>2, <2>1, BestOf
<1> DEFINE c == CHOOSE i \in Run(s, k) : \A j \in Run(s, k) : s[i].score >= s[j].score
<1>5. c \in Run(s, k) /\ \A j \in Run(s, k) : s[c].score >= s[j].score BY <1>4
<1>6. /\ r.score = s[c].score /\ r.from = s[k].from /\ r.to = s[e].to /\ r.file = s[k].file
      /\ r.of = UNION {s[i].of : i \in Run(s, k)}
  BY <1>1 DEF Merged, BestScore
<1> HIDE DEF c, e
<1>7. \A p \in r.of : \E i \in Run(s, k) : p \in s[i].of BY <1>6
<1>8. ASSUME NEW p \in r.of
      PROVE  /\ From[p] \in Int /\ To[p] \in Int /\ r.from <= From[p]
             /\ Unnested(r.of) => To[p] <= r.to
  <2>1. PICK i \in Run(s, k) : p \in s[i].of BY <1>7
  <2>2. From[p] \in Int /\ To[p] \in Int /\ s[i].from <= From[p]
    BY <1>1, <2>1 DEF RowsOK, RangeHolds
  <2>3. i \in DOMAIN s /\ e \in DOMAIN s /\ s[i].file = s[k].file /\ s[e].file = s[k].file
        /\ k <= i /\ i <= e
    BY <1>1
  <2>4. s[k].from <= s[i].from
    <3>1. k = i \/ k < i BY <1>2, <2>3
    <3> QED BY <3>1, <2>3, <1>2, <1>3 DEF InLines
  <2>5. Unnested(r.of) => To[p] <= r.to
    <3>1. e = i \/ i < e BY <1>2, <2>3
    <3>2. s[i].from <= s[e].from BY <3>1, <2>3, <1>2, <1>3 DEF InLines
    <3>3. s[i].from = From[p] BY <2>1, <2>3 DEF Single
    <3>4. PICK q : s[e].of = {q} /\ s[e].from = From[q] /\ s[e].to = To[q] BY <2>3 DEF Single
    <3>5. q \in r.of /\ p \in r.of /\ From[p] <= From[q] BY <1>1, <1>6, <2>1, <3>2, <3>3, <3>4
    <3> QED BY <1>6, <3>4, <3>5 DEF Unnested
  <2>6. s[k].from \in Int /\ s[i].from \in Int BY <1>2, <1>3, <2>3
  <2> QED BY <1>6, <2>2, <2>4, <2>5, <2>6
<1>9. r.score \in Int /\ r.from \in Int /\ r.to \in Int BY <1>1, <1>2, <1>3, <1>5, <1>6
<1> QED BY <1>1, <1>5, <1>6, <1>7, <1>8, <1>9 DEF RangeHolds

LEMMA MergeKeeps ==
    ASSUME NEW s, RowsOK(s), InLines(s), Single(s), NEW m, m = MergeAdjacent(s)
    PROVE  RowsOK(m) /\ Covers(m, s, DOMAIN m, DOMAIN s) /\ Len(m) <= Len(s)
<1> DEFINE S == Starts(s)
           n == Cardinality(S)
           f == [k \in DOMAIN s |-> Merged(s, Run(s, k))]
<1>1. S \subseteq DOMAIN s BY DEF Starts
<1>2. /\ Len(s) \in Nat /\ DOMAIN s = 1..Len(s) /\ DOMAIN s \subseteq Int
      /\ IsFiniteSet(DOMAIN s) /\ Cardinality(DOMAIN s) = Len(s)
  BY RowsDomain
<1>3. IsFiniteSet(S) /\ n <= Len(s)
  <2>1. S \in SUBSET DOMAIN s BY <1>1
  <2> QED BY <2>1, <1>2, FS_Subset
<1>4. IsOrder(InPlace(s), S)
  <2> HIDE DEF S
  <2> QED BY <1>1, <1>2, InPlaceIsOrder
<1>5. PICK q : /\ Numbering(q, S, InPlace(s)) /\ n \in Nat
               /\ m = [k \in 1..n |-> f[q[k]]]
               /\ m \in Seq({f[i] : i \in S}) /\ Len(m) = n
  <2> SUFFICES ASSUME NEW before, IsOrder(before, S), NEW a, a = Arranged(f, S, before)
               PROVE  \E q : /\ Numbering(q, S, before) /\ n \in Nat
                             /\ a = [k \in 1..n |-> f[q[k]]]
                             /\ a \in Seq({f[i] : i \in S})
                             /\ Len(a) = n
    BY <1>4 DEF MergeAdjacent
  <2> HIDE DEF f, S
  <2>1. a \in Seq({f[i] : i \in S}) /\ Len(a) = n BY <1>3, ArrangedLen
  <2>2. PICK q : /\ Numbering(q, S, before)
                 /\ Arranged(f, S, before) = [k \in 1..n |-> f[q[k]]]
    BY <1>3, ArrangedIs
  <2>3. n \in Nat BY <1>3, FS_CardinalityType
  <2> QED BY <2>1, <2>2, <2>3
<1>6. \A k \in 1..n : q[k] \in S BY <1>5 DEF Numbering
<1>7. \A k \in 1..n : m[k] = Merged(s, Run(s, q[k])) BY <1>1, <1>5, <1>6
<1>8. DOMAIN m = 1..n BY <1>5
<1> HIDE DEF f, S, n
<1>9. m \in Seq({m[i] : i \in DOMAIN m})
  <2>1. \A k \in 1..n : m[k] \in {m[i] : i \in DOMAIN m} BY <1>8
  <2>2. m = [k \in 1..n |-> m[k]] BY <1>5, <1>8
  <2>3. m \in [1..n -> {m[i] : i \in DOMAIN m}] BY <2>1, <2>2
  <2> QED BY <2>3, <1>5
<1>10. ASSUME NEW k \in DOMAIN m
       PROVE  /\ m[k].score \in Int /\ m[k].from \in Int /\ m[k].to \in Int
              /\ RangeHolds(m[k])
              /\ \A p \in m[k].of : \E i \in Run(s, q[k]) : p \in s[i].of
              /\ \A i \in Run(s, q[k]) : m[k].file = s[i].file /\ m[k].score >= s[i].score
  <2> SUFFICES ASSUME NEW r, r = m[k], NEW j \in Starts(s), j = q[k]
               PROVE  /\ r.score \in Int /\ r.from \in Int /\ r.to \in Int
                      /\ RangeHolds(r)
                      /\ \A p \in r.of : \E i \in Run(s, j) : p \in s[i].of
                      /\ \A i \in Run(s, j) : r.file = s[i].file /\ r.score >= s[i].score
    BY <1>6, <1>8 DEF S
  <2>1. r = Merged(s, Run(s, j)) BY <1>7, <1>8
  <2> QED BY <2>1, MergedIs
<1>11. ASSUME NEW k \in DOMAIN m, NEW l \in DOMAIN m, k # l PROVE m[k].of \cap m[l].of = {}
  <2> SUFFICES ASSUME NEW p \in m[k].of, p \in m[l].of PROVE FALSE OBVIOUS
  <2>1. PICK i \in Run(s, q[k]) : p \in s[i].of BY <1>10
  <2>2. PICK j \in Run(s, q[l]) : p \in s[j].of BY <1>10
  <2>3. i \in DOMAIN s /\ j \in DOMAIN s BY <2>1, <2>2 DEF Run
  <2>4. i = j BY <2>1, <2>2, <2>3 DEF RowsOK
  <2>5. q[k] \in Starts(s) /\ q[l] \in Starts(s) BY <1>6, <1>8 DEF S
  <2>6. q[k] = q[l] BY <2>1, <2>2, <2>4, <2>5, RunsApart
  <2> QED BY <2>6, <1>5, <1>8, <1>11 DEF Numbering, n
<1>12. RowsOK(m) BY <1>9, <1>10, <1>11 DEF RowsOK
<1>13. Covers(m, s, DOMAIN m, DOMAIN s)
  <2> SUFFICES ASSUME NEW i \in DOMAIN s
               PROVE  \E k \in DOMAIN m : m[k].file = s[i].file /\ m[k].score >= s[i].score
    BY DEF Covers
  <2>1. PICK j \in Starts(s) : i \in Run(s, j) BY RunOf
  <2>2. PICK k \in 1..n : q[k] = j BY <2>1, <1>5 DEF Numbering, n, S
  <2> QED BY <2>1, <2>2, <1>8, <1>10
<1> QED BY <1>3, <1>5, <1>12, <1>13

-----------------------------------------------------------------------------
(* deduplicateSimilar: a recursive function, one round after another. *)

LEMMA RoundsIs ==
    ASSUME NEW s, NEW c, c = Cardinality(DOMAIN s), c \in Nat
    PROVE  Rounds(s) = [n \in 0..c |-> IF n = 0 THEN DOMAIN s ELSE Thinned(s, Rounds(s)[n - 1])]
<1> DEFINE Rec(g, m) == g = [n \in 0..m |-> IF n = 0 THEN DOMAIN s ELSE Thinned(s, g[n - 1])]
           T == {m \in 0..c : ~ \E g : Rec(g, m)}
<1>1. ASSUME T # {} PROVE FALSE
  <2>0. T \subseteq Nat OBVIOUS
  <2>1. PICK m \in T : \A k \in T : m <= k
    <3> HIDE DEF T
    <3> QED BY <2>0, <1>1, LeastNat
  <2>2. m \in 0..c /\ ~ \E g : Rec(g, m) OBVIOUS
  <2>3. m # 0
    <3> SUFFICES ASSUME m = 0 PROVE FALSE OBVIOUS
    <3> DEFINE g == [n \in 0..0 |-> DOMAIN s]
    <3>1. Rec(g, 0)
      <4>1. \A n \in 0..0 : n = 0 OBVIOUS
      <4> QED BY <4>1
    <3> QED BY <3>1, <2>2
  <2>4. m - 1 \in 0..c /\ m - 1 \notin T /\ m - 1 \in Nat /\ m \in Nat BY <2>1, <2>2, <2>3
  <2>5. PICK g : Rec(g, m - 1) BY <2>4
  <2> DEFINE h == [n \in 0..m |-> IF n = m THEN Thinned(s, g[m - 1]) ELSE g[n]]
  <2>6. ASSUME NEW n \in 0..m PROVE h[n] = IF n = 0 THEN DOMAIN s ELSE Thinned(s, h[n - 1])
    <3>1. CASE n = m
      <4>1. n - 1 \in 0..m /\ n - 1 # m BY <2>3, <2>4, <3>1
      <4> QED BY <2>3, <3>1, <4>1
    <3>2. CASE n # m /\ n = 0
      <4>1. n \in 0 .. m - 1 BY <2>4, <3>2
      <4>2. h[n] = g[n] BY <3>2
      <4>3. g[n] = DOMAIN s BY <2>5, <3>2, <4>1
      <4> QED BY <3>2, <4>2, <4>3
    <3>3. CASE n # m /\ n # 0
      <4>1. n \in 0 .. m - 1 /\ n - 1 \in 0..m /\ n - 1 # m BY <2>4, <3>3
      <4>2. h[n] = g[n] /\ h[n - 1] = g[n - 1] BY <3>3, <4>1
      <4>3. g[n] = Thinned(s, g[n - 1]) BY <2>5, <3>3, <4>1
      <4> QED BY <3>3, <4>2, <4>3
    <3> QED BY <3>1, <3>2, <3>3
  <2>7. Rec(h, m)
    <3> DEFINE hh == [n \in 0..m |-> IF n = 0 THEN DOMAIN s ELSE Thinned(s, h[n - 1])]
    <3>1. DOMAIN h = 0..m /\ DOMAIN hh = 0..m OBVIOUS
    <3>2. h = [n \in 0..m |-> h[n]] /\ hh = [n \in 0..m |-> hh[n]] OBVIOUS
    <3>3. \A n \in 0..m : h[n] = hh[n]
      <4> HIDE DEF h
      <4> QED BY <2>6
    <3>4. h = hh
      <4> HIDE DEF h, hh
      <4> QED BY <3>2, <3>3
    <3> QED BY <3>4
  <2> HIDE DEF h, Rec
  <2> QED BY <2>2, <2>7
<1>2. \E g : Rec(g, c) BY <1>1
<1>3. Rounds(s) = CHOOSE g : Rec(g, c) BY DEF Rounds
<1> HIDE DEF Rec
<1>4. Rec(Rounds(s), c) BY <1>2, <1>3
<1> QED BY <1>4 DEF Rec

\* A round takes away one row, of which it keeps as good a one.
LEMMA ThinnedKeeps ==
    ASSUME NEW s, RowsOK(s), NEW kept, kept \subseteq DOMAIN s, NEW left, left = Thinned(s, kept)
    PROVE  left \subseteq kept /\ Covers(s, s, left, kept)
<1>1. DOMAIN s \subseteq Nat BY RowsDomain
<1>2. \A i \in kept : s[i].score \in Int BY DEF RowsOK
<1> DEFINE like(i) == {j \in kept : i < j /\ Similar(s[i], s[j])}
           T == {k \in kept : like(k) # {}}
           i == Least(T)
           j == Least(like(i))
<1>3. CASE \A k \in kept : like(k) = {}
  <2>1. left = kept BY <1>3 DEF Thinned
  <2> QED BY <2>1, <1>2 DEF Covers
<1>4. CASE ~ \A k \in kept : like(k) = {}
  <2>1. T \subseteq Nat /\ T # {} BY <1>1, <1>4
  <2>2. i \in T
    <3> HIDE DEF T
    <3> QED BY <2>1, LeastIs
  <2>3. like(i) \subseteq Nat /\ like(i) # {} BY <1>1, <2>2
  <2>4. j \in like(i)
    <3> HIDE DEF like, i
    <3> QED BY <2>3, LeastIs
  <2>5. i \in kept /\ j \in kept /\ i < j /\ s[i].file = s[j].file BY <2>2, <2>4 DEF Similar
  <2>6. left = kept \ {IF s[i].score >= s[j].score THEN j ELSE i} BY <1>4 DEF Thinned
  <2> HIDE DEF i, j, like, T
  <2>7. i \in Nat /\ j \in Nat /\ s[i].score \in Int /\ s[j].score \in Int BY <1>1, <1>2, <2>5
  <2>8. PICK gone \in {i, j}, best \in {i, j} :
           /\ left = kept \ {gone} /\ best # gone /\ s[best].score >= s[gone].score
    <3>1. CASE s[i].score >= s[j].score BY <2>5, <2>6, <2>7, <3>1
    <3>2. CASE ~ (s[i].score >= s[j].score)
      <4>1. s[j].score >= s[i].score BY <2>7, <3>2
      <4>2. i # j BY <2>5, <2>7
      <4>3. left = kept \ {i} BY <2>6, <3>2
      <4> QED BY <4>1, <4>2, <4>3
    <3> QED BY <3>1, <3>2
  <2>9. best \in left /\ s[best].file = s[gone].file BY <2>5, <2>8
  <2>10. ASSUME NEW k \in kept
         PROVE  \E b \in left : s[b].file = s[k].file /\ s[b].score >= s[k].score
    <3>1. CASE k = gone BY <2>8, <2>9, <3>1
    <3>2. CASE k # gone
      <4>1. k \in left /\ s[k].score \in Int BY <1>2, <2>8, <3>2
      <4> QED BY <4>1
    <3> QED BY <3>1, <3>2
  <2> QED BY <2>8, <2>10 DEF Covers
<1> QED BY <1>3, <1>4

LEMMA CoversTransitive ==
    ASSUME NEW s, NEW t, NEW u, NEW S, NEW T, NEW U, Covers(t, s, T, S), Covers(u, t, U, T),
           \A i \in S : s[i].score \in Int, \A i \in T : t[i].score \in Int,
           \A i \in U : u[i].score \in Int
    PROVE  Covers(u, s, U, S)
<1> SUFFICES ASSUME NEW i \in S PROVE \E k \in U : u[k].file = s[i].file /\ u[k].score >= s[i].score
  BY DEF Covers
<1>1. PICK j \in T : t[j].file = s[i].file /\ t[j].score >= s[i].score BY DEF Covers
<1>2. PICK k \in U : u[k].file = t[j].file /\ u[k].score >= t[j].score BY DEF Covers
<1>3. s[i].score \in Int /\ t[j].score \in Int /\ u[k].score \in Int OBVIOUS
<1>4. u[k].file = s[i].file /\ u[k].score >= s[i].score BY <1>1, <1>2, <1>3
<1> QED BY <1>4

LEMMA DedupeKeeps ==
    ASSUME NEW s, RowsOK(s)
    PROVE  DedupeSimilar(s) \subseteq DOMAIN s /\ Covers(s, s, DedupeSimilar(s), DOMAIN s)
<1> DEFINE c == Cardinality(DOMAIN s)
           r == Rounds(s)
           Good(n) == r[n] \subseteq DOMAIN s /\ Covers(s, s, r[n], DOMAIN s)
           T == {n \in 0..c : ~ Good(n)}
<1>1. c \in Nat BY RowsDomain
<1>2. r = [n \in 0..c |-> IF n = 0 THEN DOMAIN s ELSE Thinned(s, r[n - 1])] BY <1>1, RoundsIs
<1>3. \A i \in DOMAIN s : s[i].score \in Int BY DEF RowsOK
<1> HIDE DEF r, c
<1>4. T = {}
  <2> SUFFICES ASSUME T # {} PROVE FALSE OBVIOUS
  <2>1. T \subseteq Nat BY <1>1
  <2>2. PICK m \in T : \A k \in T : m <= k
    <3> HIDE DEF T
    <3> QED BY <2>1, LeastNat
  <2>3. m \in 0..c /\ ~ Good(m) OBVIOUS
  <2>4. m # 0
    <3> SUFFICES ASSUME m = 0 PROVE FALSE OBVIOUS
    <3>1. r[m] = DOMAIN s BY <1>1, <1>2, <2>3
    <3> QED BY <3>1, <2>3, <1>3 DEF Covers
  <2>5. m - 1 \in 0..c /\ m - 1 \notin T BY <1>1, <2>2, <2>3, <2>4
  <2>6. Good(m - 1) BY <2>5
  <2>7. r[m] = Thinned(s, r[m - 1]) BY <1>2, <2>3, <2>4
  <2>8. r[m] \subseteq r[m - 1] /\ Covers(s, s, r[m], r[m - 1]) BY <2>6, <2>7, ThinnedKeeps
  <2>9. /\ \A i \in r[m - 1] : s[i].score \in Int
        /\ \A i \in r[m] : s[i].score \in Int
    BY <1>3, <2>6, <2>8
  <2>10. Covers(s, s, r[m], DOMAIN s) BY <1>3, <2>6, <2>8, <2>9, CoversTransitive
  <2> QED BY <2>3, <2>6, <2>8, <2>10
<1>5. Good(c)
  <2>1. c \in 0..c /\ c \notin T BY <1>1, <1>4
  <2> QED BY <2>1
<1>6. DedupeSimilar(s) = r[c] BY DEF DedupeSimilar, r, c
<1> QED BY <1>5, <1>6

-----------------------------------------------------------------------------
(* diversifyByFile *)

LEMMA SelectedKeeps ==
    ASSUME NEW s, RowsOK(s), NEW kept, kept \subseteq DOMAIN s, NEW chosen, chosen = Selected(s, kept)
    PROVE  /\ chosen \subseteq kept /\ Covers(s, s, chosen, kept)
           /\ MaxPerFile > 0 => \A i \in chosen :
                 Cardinality({j \in chosen : s[j].file = s[i].file}) <= MaxPerFile
<1>1. /\ DOMAIN s \subseteq Int /\ IsFiniteSet(DOMAIN s) /\ \A i \in DOMAIN s : s[i].score \in Int
  BY RowsDomain DEF RowsOK
<1>2. IsFiniteSet(kept)
  <2>1. kept \in SUBSET DOMAIN s OBVIOUS
  <2> QED BY <2>1, <1>1, FS_Subset
<1>3. MaxPerFile \in Nat BY SearchAssumption
<1>4. chosen \subseteq kept BY DEF Selected
<1>5. ASSUME NEW i \in kept
      PROVE  \E k \in chosen : s[k].file = s[i].file /\ s[k].score >= s[i].score
  <2> DEFINE F == {j \in kept : s[j].file = s[i].file}
  <2>1. IsFiniteSet(F)
    <3>1. F \in SUBSET kept OBVIOUS
    <3> QED BY <3>1, <1>2, FS_Subset
  <2>2. F # {} /\ F \subseteq DOMAIN s /\ \A j \in F : s[j].score \in Int BY <1>1
  <2>3. PICK b \in F : \A j \in F : s[b].score >= s[j].score /\ <<j, b>> \notin ByScore(s)
    <3> HIDE DEF F
    <3> QED BY <1>1, <2>1, <2>2, BestOf
  <2>4. Ahead(s, kept, b) = {} BY <2>3 DEF Ahead
  <2>5. MaxPerFile = 0 \/ Cardinality(Ahead(s, kept, b)) < MaxPerFile
    <3>1. Cardinality({}) = 0 BY FS_EmptySet
    <3> QED BY <3>1, <2>4, <1>3
  <2>6. b \in chosen BY <2>5 DEF Selected
  <2> QED BY <2>3, <2>6
<1>6. ASSUME MaxPerFile > 0, NEW i \in chosen
      PROVE  Cardinality({j \in chosen : s[j].file = s[i].file}) <= MaxPerFile
  <2> DEFINE G == {j \in chosen : s[j].file = s[i].file}
  <2>1. IsFiniteSet(G) /\ G \subseteq DOMAIN s /\ G # {}
    <3>1. G \in SUBSET kept BY <1>4
    <3> QED BY <3>1, <1>2, FS_Subset
  <2>2. PICK l \in G : \A j \in G : j = l \/ <<j, l>> \in ByScore(s)
    <3> HIDE DEF G
    <3> SUFFICES ASSUME NEW before, before = ByScore(s)
                 PROVE  \E l \in G : \A j \in G : j = l \/ <<j, l>> \in before
      OBVIOUS
    <3>1. \A j \in G : s[j].score \in Int BY <1>1, <2>1
    <3>2. IsOrder(before, G) BY <1>1, <2>1, <3>1, ByScoreIsOrder
    <3> QED BY <2>1, <3>2, FirstAndLast
  <2>3. l \in chosen /\ s[l].file = s[i].file OBVIOUS
  <2>4. Cardinality(Ahead(s, kept, l)) < MaxPerFile BY <1>3, <1>6, <2>3 DEF Selected
  <2>5. G \ {l} \in SUBSET Ahead(s, kept, l) BY <1>4, <2>2, <2>3 DEF Ahead
  <2>6. IsFiniteSet(Ahead(s, kept, l))
    <3>1. Ahead(s, kept, l) \in SUBSET kept BY DEF Ahead
    <3> QED BY <3>1, <1>2, FS_Subset
  <2> HIDE DEF G
  <2>7. Cardinality(G \ {l}) <= Cardinality(Ahead(s, kept, l)) BY <2>5, <2>6, FS_Subset
  <2>8. Cardinality(G \ {l}) = Cardinality(G) - 1 BY <2>1, <2>2, FS_RemoveElement
  <2>9. /\ Cardinality(G) \in Nat /\ Cardinality(Ahead(s, kept, l)) \in Nat
    BY <2>1, <2>6, FS_CardinalityType
  <2>10. Cardinality(G) <= MaxPerFile BY <1>3, <2>4, <2>7, <2>8, <2>9
  <2> QED BY <2>10 DEF G
<1> QED BY <1>4, <1>5, <1>6 DEF Covers

-----------------------------------------------------------------------------
(* optimizeContext *)

\* Some rows in some order.
LEMMA ArrangedRows ==
    ASSUME NEW s, RowsOK(s), NEW S, S \subseteq DOMAIN s, NEW before, IsOrder(before, S),
           NEW a, a = Arranged(s, S, before)
    PROVE  /\ RowsOK(a) /\ Covers(a, s, DOMAIN a, S)
           /\ Len(a) = Cardinality(S) /\ Len(a) <= Len(s) /\ IsFiniteSet(S)
           /\ \E p : Numbering(p, S, before) /\ a = [k \in 1..Len(a) |-> s[p[k]]]
<1>1. Len(s) \in Nat /\ IsFiniteSet(DOMAIN s) /\ Cardinality(DOMAIN s) = Len(s) BY RowsDomain
<1>2. IsFiniteSet(S) /\ Cardinality(S) <= Len(s)
  <2>1. S \in SUBSET DOMAIN s OBVIOUS
  <2> QED BY <2>1, <1>1, FS_Subset
<1>3. a \in Seq({s[i] : i \in S}) /\ Len(a) = Cardinality(S) BY <1>2, ArrangedLen
<1>4. PICK p : /\ Numbering(p, S, before)
               /\ Arranged(s, S, before) = [k \in 1..Cardinality(S) |-> s[p[k]]]
  BY <1>2, ArrangedIs
<1>5. Len(a) \in Nat /\ DOMAIN a = 1..Len(a) BY <1>3
<1>6. a = [k \in 1..Len(a) |-> s[p[k]]] BY <1>3, <1>4
<1>7. \A k \in DOMAIN a : a[k] = s[p[k]] /\ p[k] \in S /\ p[k] \in DOMAIN s
  BY <1>3, <1>4, <1>5, <1>6 DEF Numbering
<1>8. \A i \in S : \E k \in DOMAIN a : p[k] = i BY <1>3, <1>4, <1>5 DEF Numbering
<1>9. \A k, l \in DOMAIN a : p[k] = p[l] => k = l BY <1>3, <1>4, <1>5 DEF Numbering
<1>10. RowsOK(a)
  <2>1. a \in Seq({a[k] : k \in DOMAIN a})
    <3>1. \A k \in 1..Len(a) : a[k] \in {a[l] : l \in DOMAIN a} BY <1>5
    <3>2. a = [k \in 1..Len(a) |-> a[k]] BY <1>3, <1>5
    <3>3. a \in [1..Len(a) -> {a[l] : l \in DOMAIN a}] BY <3>1, <3>2
    <3> QED BY <3>3, <1>5
  <2>2. \A k \in DOMAIN a : a[k].score \in Int /\ a[k].from \in Int /\ a[k].to \in Int
    BY <1>7 DEF RowsOK
  <2>3. \A k \in DOMAIN a : RangeHolds(a[k]) BY <1>7 DEF RowsOK
  <2>4. \A k, l \in DOMAIN a : k # l => a[k].of \cap a[l].of = {} BY <1>7, <1>9 DEF RowsOK
  <2> QED BY <2>1, <2>2, <2>3, <2>4 DEF RowsOK
<1>11. Covers(a, s, DOMAIN a, S)
  <2> SUFFICES ASSUME NEW i \in S
               PROVE  \E k \in DOMAIN a : a[k].file = s[i].file /\ a[k].score >= s[i].score
    BY DEF Covers
  <2>1. PICK k \in DOMAIN a : p[k] = i BY <1>8
  <2>2. a[k] = s[i] /\ s[i].score \in Int BY <1>7, <2>1 DEF RowsOK
  <2> QED BY <2>2
<1>12. \E q : Numbering(q, S, before) /\ a = [k \in 1..Len(a) |-> s[q[k]]] BY <1>4, <1>6
<1> QED BY <1>2, <1>3, <1>10, <1>11, <1>12

\* An item for each hit.
LEMMA ItemsOK ==
    ASSUME HitsOK(hits)
    PROVE  /\ RowsOK(Items) /\ Single(Items) /\ DOMAIN Items = DOMAIN hits /\ Len(Items) = Len(hits)
           /\ \A i \in DOMAIN hits : /\ Items[i].file = FileOf[hits[i].passage]
                                     /\ Items[i].score = hits[i].score
<1>1. Len(hits) \in Nat /\ DOMAIN hits = 1..Len(hits) BY DEF HitsOK
<1>2. \A i \in DOMAIN hits : hits[i].score \in Int /\ hits[i].passage \in DOMAIN FileOf
  BY ScoresOfHits
<1> DEFINE f == [i \in DOMAIN hits |-> Item(hits[i])]
           T == {f[i] : i \in DOMAIN hits}
<1>3. f \in Seq(T)
  <2>1. f \in [1..Len(hits) -> T] BY <1>1
  <2> HIDE DEF f, T
  <2> QED BY <2>1, <1>1
<1>4. Items = f
  <2>1. <<>> \o f = f
    <3> HIDE DEF f, T
    <3> QED BY <1>3, ConcatEmptySeq
  <2> QED BY <2>1 DEF Items, Tuple
<1>5. \A i \in DOMAIN hits :
        /\ Items[i].of = {hits[i].passage} /\ Items[i].file = FileOf[hits[i].passage]
        /\ Items[i].from = From[hits[i].passage] /\ Items[i].to = To[hits[i].passage]
        /\ Items[i].score = hits[i].score
  BY <1>4 DEF Item
<1>6. DOMAIN Items = DOMAIN hits BY <1>4
<1>7. Items \in Seq({Items[i] : i \in DOMAIN Items}) /\ Len(Items) = Len(hits)
  <2>1. Items \in Seq({Items[i] : i \in DOMAIN hits}) BY <1>3, <1>4
  <2> HIDE DEF f, T
  <2> QED BY <2>1, <1>1, <1>6
<1>8. \A p \in DOMAIN FileOf : From[p] \in Int /\ To[p] \in Int BY RangesAssumption
<1> HIDE DEF f, T
<1>9. RowsOK(Items)
  <2>1. \A i \in DOMAIN Items : /\ Items[i].score \in Int /\ Items[i].from \in Int
                                /\ Items[i].to \in Int
    BY <1>2, <1>5, <1>6, <1>8
  <2>2. \A i \in DOMAIN Items : RangeHolds(Items[i]) BY <1>2, <1>5, <1>6, <1>8 DEF RangeHolds
  <2>3. \A i, j \in DOMAIN Items : i # j => Items[i].of \cap Items[j].of = {}
    BY <1>5, <1>6 DEF HitsOK
  <2> QED BY <1>7, <2>1, <2>2, <2>3 DEF RowsOK
<1>10. Single(Items) BY <1>5, <1>6 DEF Single
<1> QED BY <1>1, <1>5, <1>6, <1>7, <1>9, <1>10

\* File by file, and by line in each.
LEMMA LinedIs ==
    ASSUME NEW s, RowsOK(s), NEW lined, lined = Arranged(s, DOMAIN s, ByLines(s)),
           Single(s)
    PROVE  /\ RowsOK(lined) /\ InLines(lined) /\ Single(lined) /\ Len(lined) <= Len(s)
           /\ Covers(lined, s, DOMAIN lined, DOMAIN s)
<1>1. DOMAIN s \subseteq Nat /\ \A i \in DOMAIN s : s[i].from \in Int /\ s[i].to \in Int
  BY RowsDomain DEF RowsOK
<1>2. IsOrder(ByLines(s), DOMAIN s) BY <1>1, ByLinesIsOrder
<1>3. PICK before : before = ByLines(s) OBVIOUS
<1>4. IsOrder(before, DOMAIN s) /\ lined = Arranged(s, DOMAIN s, before) BY <1>2, <1>3
<1>5. /\ RowsOK(lined) /\ Covers(lined, s, DOMAIN lined, DOMAIN s)
      /\ Len(lined) = Cardinality(DOMAIN s) /\ Len(lined) <= Len(s)
      /\ \E p : Numbering(p, DOMAIN s, before) /\ lined = [k \in 1..Len(lined) |-> s[p[k]]]
  <2>1. PICK S : S = DOMAIN s OBVIOUS
  <2>2. PICK b : b = lined OBVIOUS
  <2>3. S \subseteq DOMAIN s /\ IsOrder(before, S) /\ b = Arranged(s, S, before)
    BY <1>4, <2>1, <2>2
  <2>4. /\ RowsOK(b) /\ Covers(b, s, DOMAIN b, S)
        /\ Len(b) = Cardinality(S) /\ Len(b) <= Len(s)
        /\ \E p : Numbering(p, S, before) /\ b = [k \in 1..Len(b) |-> s[p[k]]]
    BY <2>3, ArrangedRows
  <2> QED BY <2>1, <2>2, <2>4
<1>6. PICK p : Numbering(p, DOMAIN s, before) /\ lined = [k \in 1..Len(lined) |-> s[p[k]]] BY <1>5
<1>7. ASSUME NEW k \in DOMAIN lined, NEW l \in DOMAIN lined, k < l, lined[k].file = lined[l].file
      PROVE  lined[k].from <= lined[l].from
  <2>1. k \in 1..Cardinality(DOMAIN s) /\ l \in 1..Cardinality(DOMAIN s) BY <1>5, <1>6
  <2>2. lined[k] = s[p[k]] /\ lined[l] = s[p[l]] BY <1>5, <1>6, <2>1
  <2>3. p[k] \in DOMAIN s /\ p[l] \in DOMAIN s /\ <<p[k], p[l]>> \in ByLines(s)
    BY <1>3, <1>6, <1>7, <2>1 DEF Numbering
  <2>4. s[p[k]].file = s[p[l]].file BY <1>7, <2>2
  <2>5. FirstSeen(s, p[k]) = FirstSeen(s, p[l]) BY <2>4 DEF FirstSeen
  <2>6. FirstSeen(s, p[l]) \in Nat BY <1>1, <2>3, FirstSeenIs
  <2>7. s[p[k]].from <= s[p[l]].from BY <1>1, <2>3, <2>5, <2>6, ByLinesIs
  <2> QED BY <2>2, <2>7
<1>8. Single(lined)
  <2> SUFFICES ASSUME NEW k \in DOMAIN lined
               PROVE  \E q : lined[k].of = {q} /\ lined[k].from = From[q] /\ lined[k].to = To[q]
    BY DEF Single
  <2>1. k \in 1..Cardinality(DOMAIN s) BY <1>5, <1>6
  <2>2. lined[k] = s[p[k]] /\ p[k] \in DOMAIN s BY <1>5, <1>6, <2>1 DEF Numbering
  <2> QED BY <2>2 DEF Single
<1> QED BY <1>5, <1>7, <1>8 DEF InLines

Served(a) ==
    /\ RowsOK(a)
    /\ \A k, l \in DOMAIN a : k < l => a[k].score >= a[l].score
    /\ MaxPerFile > 0 => \A k \in DOMAIN a :
          Cardinality({l \in DOMAIN a : a[l].file = a[k].file}) <= MaxPerFile

\* What is left of the rows is served in the order of the scores.
LEMMA ServedIs ==
    ASSUME NEW s, RowsOK(s), NEW S, S \subseteq DOMAIN s, Len(s) <= TopK,
           MaxPerFile > 0 => \A i \in S : Cardinality({j \in S : s[j].file = s[i].file}) <= MaxPerFile,
           NEW a, a = FirstOf(Arranged(s, S, ByScore(s)), TopK)
    PROVE  Served(a) /\ Covers(a, s, DOMAIN a, S)
<1>1. /\ DOMAIN s \subseteq Int /\ Len(s) \in Nat /\ IsFiniteSet(DOMAIN s)
      /\ \A i \in DOMAIN s : s[i].score \in Int
  BY RowsDomain DEF RowsOK
<1>2. IsOrder(ByScore(s), S) BY <1>1, ByScoreIsOrder
<1>3. IsFiniteSet(S)
  <2>1. S \in SUBSET DOMAIN s OBVIOUS
  <2> QED BY <2>1, <1>1, FS_Subset
<1>4. \A k, l \in 1..Cardinality(S) :
         k < l => Arranged(s, S, ByScore(s))[k].score >= Arranged(s, S, ByScore(s))[l].score
  BY <1>1, <1>3, ScoresDescend
<1>5. PICK before : before = ByScore(s) OBVIOUS
<1>6. PICK b : b = Arranged(s, S, before) OBVIOUS
<1>7. IsOrder(before, S) BY <1>2, <1>5
<1>8. /\ RowsOK(b) /\ Covers(b, s, DOMAIN b, S) /\ Len(b) = Cardinality(S) /\ Len(b) <= Len(s)
      /\ \E p : Numbering(p, S, before) /\ b = [k \in 1..Len(b) |-> s[p[k]]]
  BY <1>6, <1>7, ArrangedRows
<1>9. \A k, l \in 1..Cardinality(S) : k < l => b[k].score >= b[l].score BY <1>4, <1>5, <1>6
<1>10. Len(b) \in Nat /\ DOMAIN b = 1..Len(b) /\ IsFiniteSet(DOMAIN b) BY <1>8, RowsDomain
<1>11. a = b
  <2>1. TopK \in Nat BY SearchAssumption
  <2>2. PICK T : b \in Seq(T) BY <1>8 DEF RowsOK
  <2>3. a = FirstOf(b, TopK) BY <1>5, <1>6
  <2>4. /\ a \in Seq(T) /\ Len(a) = (IF Len(b) < TopK THEN Len(b) ELSE TopK)
        /\ \A i \in 1..Len(a) : a[i] = b[i]
    BY <2>1, <2>2, <2>3, FirstOfIs
  <2>5. Len(a) = Len(b) BY <1>1, <1>8, <1>10, <2>1, <2>4
  <2>6. a = [i \in 1..Len(b) |-> a[i]] /\ b = [i \in 1..Len(b) |-> b[i]] BY <2>2, <2>4, <2>5
  <2>7. \A i \in 1..Len(b) : a[i] = b[i] BY <2>4, <2>5
  <2> QED BY <2>6, <2>7
<1>12. PICK p : Numbering(p, S, before) /\ b = [k \in 1..Len(b) |-> s[p[k]]] BY <1>8
<1>13. ASSUME MaxPerFile > 0, NEW k \in DOMAIN b
       PROVE  Cardinality({l \in DOMAIN b : b[l].file = b[k].file}) <= MaxPerFile
  <2> DEFINE B == {l \in DOMAIN b : b[l].file = b[k].file}
             G == {j \in S : s[j].file = s[p[k]].file}
             f == [l \in B |-> p[l]]
  <2>1. \A l \in DOMAIN b : p[l] \in S /\ b[l] = s[p[l]] BY <1>8, <1>10, <1>12 DEF Numbering
  <2>2. IsFiniteSet(B)
    <3>1. B \in SUBSET DOMAIN b OBVIOUS
    <3> QED BY <3>1, <1>10, FS_Subset
  <2>3. IsFiniteSet(G)
    <3>1. G \in SUBSET S OBVIOUS
    <3> QED BY <3>1, <1>3, FS_Subset
  <2>4. f \in [B -> G] BY <2>1
  <2>5. \A x, y \in B : f[x] = f[y] => x = y BY <1>8, <1>10, <1>12 DEF Numbering
  <2>6. Cardinality(G) <= MaxPerFile BY <1>13, <2>1
  <2>7. Cardinality(B) \in Nat /\ Cardinality(G) \in Nat BY <2>2, <2>3, FS_CardinalityType
  <2>8. ~ (Cardinality(G) < Cardinality(B))
    <3> HIDE DEF B, G, f
    <3> QED BY <2>2, <2>3, <2>4, <2>5, FS_PigeonHole
  <2>9. MaxPerFile \in Nat BY SearchAssumption
  <2>10. Cardinality(B) <= MaxPerFile
    <3> HIDE DEF B, G, f
    <3> QED BY <2>6, <2>7, <2>8, <2>9
  <2> QED BY <2>10
<1>14. \A k, l \in DOMAIN b : k < l => b[k].score >= b[l].score BY <1>8, <1>9, <1>10
<1> QED BY <1>8, <1>11, <1>13, <1>14 DEF Served

\* Whatever is merged, thinned out and capped, the best hit of every file is served.
LEMMA OptimizedIs ==
    ASSUME NEW s, RowsOK(s), Single(s), Len(s) <= TopK,
           NEW m, m = MergeAdjacent(Arranged(s, DOMAIN s, ByLines(s))),
           NEW a, a = FirstOf(Arranged(m, Selected(m, DedupeSimilar(m)), ByScore(m)), TopK)
    PROVE  Served(a) /\ Covers(a, s, DOMAIN a, DOMAIN s)
<1>1. PICK lined : lined = Arranged(s, DOMAIN s, ByLines(s)) OBVIOUS
<1>2. PICK kept : kept = DedupeSimilar(m) OBVIOUS
<1>3. PICK chosen : chosen = Selected(m, kept) OBVIOUS
<1>4. /\ RowsOK(lined) /\ InLines(lined) /\ Single(lined) /\ Len(lined) <= Len(s)
      /\ Covers(lined, s, DOMAIN lined, DOMAIN s)
  BY <1>1, LinedIs
<1>5. m = MergeAdjacent(lined) BY <1>1
<1>6. RowsOK(m) /\ Covers(m, lined, DOMAIN m, DOMAIN lined) /\ Len(m) <= Len(lined)
  BY <1>4, <1>5, MergeKeeps
<1>7. kept \subseteq DOMAIN m /\ Covers(m, m, kept, DOMAIN m) BY <1>2, <1>6, DedupeKeeps
<1>8. /\ chosen \subseteq kept /\ Covers(m, m, chosen, kept)
      /\ MaxPerFile > 0 => \A i \in chosen :
            Cardinality({j \in chosen : m[j].file = m[i].file}) <= MaxPerFile
  <2>1. RowsOK(m) /\ kept \subseteq DOMAIN m /\ chosen = Selected(m, kept) BY <1>3, <1>6, <1>7
  <2> QED BY <2>1, SelectedKeeps
<1>9. chosen \subseteq DOMAIN m BY <1>7, <1>8
<1>10. Len(m) <= TopK
  <2>1. Len(m) \in Nat /\ Len(lined) \in Nat /\ Len(s) \in Nat BY <1>4, <1>6, RowsDomain
  <2>2. TopK \in Nat BY SearchAssumption
  <2> QED BY <2>1, <2>2, <1>4, <1>6
<1>11. a = FirstOf(Arranged(m, chosen, ByScore(m)), TopK) BY <1>2, <1>3
<1>12. Served(a) /\ Covers(a, m, DOMAIN a, chosen) BY <1>6, <1>8, <1>9, <1>10, <1>11, ServedIs
<1>13. /\ \A i \in DOMAIN s : s[i].score \in Int
       /\ \A i \in DOMAIN lined : lined[i].score \in Int
       /\ \A i \in DOMAIN m : m[i].score \in Int
       /\ \A i \in DOMAIN a : a[i].score \in Int
  BY <1>4, <1>6, <1>12 DEF RowsOK, Served
<1>14. (\A i \in kept : m[i].score \in Int) /\ (\A i \in chosen : m[i].score \in Int)
  BY <1>7, <1>9, <1>13
<1>15. Covers(m, s, DOMAIN m, DOMAIN s) BY <1>4, <1>6, <1>13, CoversTransitive
<1>16. Covers(m, s, kept, DOMAIN s) BY <1>7, <1>13, <1>14, <1>15, CoversTransitive
<1>17. Covers(m, s, chosen, DOMAIN s) BY <1>8, <1>13, <1>14, <1>16, CoversTransitive
<1>18. Covers(a, s, DOMAIN a, DOMAIN s) BY <1>12, <1>13, <1>14, <1>17, CoversTransitive
<1> QED BY <1>12, <1>18

Answered ==
    LET merged == MergeAdjacent(Arranged(Items, DOMAIN Items, ByLines(Items)))
    IN  FirstOf(Arranged(merged, Selected(merged, DedupeSimilar(merged)), ByScore(merged)), TopK)

BestServed(h, a) ==
    /\ \A i \in DOMAIN h : \E r \in ToSet(a) :
          r.file = FileOf[h[i].passage] /\ r.score >= h[i].score
    /\ \A i, j \in DOMAIN a : i < j => a[i].score >= a[j].score /\ a[i].of \cap a[j].of = {}
    /\ \A r \in ToSet(a) : \A p \in r.of :
          r.from <= From[p] /\ (Unnested(r.of) => To[p] <= r.to)
    /\ MaxPerFile > 0 => \A i \in DOMAIN a :
          Cardinality({j \in DOMAIN a : a[j].file = a[i].file}) <= MaxPerFile

LEMMA AnsweredIs ==
    ASSUME HitsOK(hits), Len(hits) <= TopK
    PROVE  BestServed(hits, Answered)
<1>1. /\ RowsOK(Items) /\ Single(Items) /\ DOMAIN Items = DOMAIN hits /\ Len(Items) = Len(hits)
      /\ \A i \in DOMAIN hits : /\ Items[i].file = FileOf[hits[i].passage]
                                /\ Items[i].score = hits[i].score
  BY ItemsOK
<1> SUFFICES ASSUME NEW s, s = Items, NEW a, a = Answered, NEW h, h = hits
             PROVE  BestServed(h, a)
  OBVIOUS
<1>2. RowsOK(s) /\ Single(s) /\ Len(s) <= TopK BY <1>1
<1>3. PICK m : m = MergeAdjacent(Arranged(s, DOMAIN s, ByLines(s))) OBVIOUS
<1>4. a = FirstOf(Arranged(m, Selected(m, DedupeSimilar(m)), ByScore(m)), TopK)
  BY <1>3 DEF Answered
<1>5. Served(a) /\ Covers(a, s, DOMAIN a, DOMAIN s) BY <1>2, <1>3, <1>4, OptimizedIs
<1>6. \A k \in DOMAIN a : a[k] \in ToSet(a) BY DEF ToSet
<1>7. \A r \in ToSet(a) : \E k \in DOMAIN a : r = a[k] BY DEF ToSet
<1>8. ASSUME NEW i \in DOMAIN h
      PROVE  \E r \in ToSet(a) : r.file = FileOf[h[i].passage] /\ r.score >= h[i].score
  <2>1. i \in DOMAIN s /\ s[i].file = FileOf[h[i].passage] /\ s[i].score = h[i].score BY <1>1
  <2>2. PICK k \in DOMAIN a : a[k].file = s[i].file /\ a[k].score >= s[i].score
    BY <1>5, <2>1 DEF Covers
  <2> QED BY <1>6, <2>1, <2>2
<1>9. ASSUME NEW r \in ToSet(a), NEW p \in r.of
      PROVE  r.from <= From[p] /\ (Unnested(r.of) => To[p] <= r.to)
  BY <1>5, <1>7 DEF Served, RowsOK, RangeHolds
<1>10. RowsOK(a) /\ DOMAIN a \subseteq Int BY <1>5, RowsDomain DEF Served
<1>11. ASSUME NEW i \in DOMAIN a, NEW j \in DOMAIN a, i < j
       PROVE  a[i].score >= a[j].score /\ a[i].of \cap a[j].of = {}
  <2>1. i # j BY <1>10, <1>11
  <2> QED BY <1>5, <1>10, <1>11, <2>1 DEF Served, RowsOK
<1> QED BY <1>5, <1>8, <1>9, <1>11 DEF BestServed, Served

RetrievalInv ==
    /\ QueryOK /\ HitsOK(hits)
    /\ searched \in {"asked", "fused", "ranked", "answered"}
    /\ searched = "asked" => hits = <<>>
    /\ searched \in {"ranked", "answered"} => Len(hits) <= TopK
    /\ searched = "answered" => BestServed(hits, answer)

LEMMA RetrievalInvInitially == RetrievalInit => RetrievalInv
<1> SUFFICES ASSUME RetrievalInit PROVE RetrievalInv OBVIOUS
<1>1. HitsOK(<<>>) BY DEF HitsOK
<1>2. QueryOK BY DEF RetrievalInit, QueryOK
<1> QED BY <1>1, <1>2 DEF RetrievalInit, RetrievalInv

LEMMA RetrievalInvKept == RetrievalInv /\ [RetrievalNext]_search => RetrievalInv'
<1> SUFFICES ASSUME RetrievalInv, [RetrievalNext]_search PROVE RetrievalInv' OBVIOUS
<1>0. TopK \in Nat BY SearchAssumption
<1>1. CASE Retrieve
  <2>1. HitsOK(Combined) BY RetrieveFindsHits DEF RetrievalInv
  <2>2. HitsOK(hits') BY <1>1, <2>1 DEF Retrieve
  <2> QED BY <1>1, <2>2 DEF Retrieve, RetrievalInv, QueryOK, HitsOK
<1>2. CASE RetrieveFails
  <2>1. hits = <<>> /\ Len(<<>>) = 0 BY <1>2 DEF RetrieveFails, RetrievalInv
  <2> QED BY <1>0, <1>2, <2>1 DEF RetrieveFails, RetrievalInv, QueryOK, HitsOK
<1>3. CASE NotReranked
  <2>1. HitsOK(FirstOf(hits, TopK)) /\ Len(FirstOf(hits, TopK)) <= TopK
    BY <1>0, FirstHits DEF RetrievalInv
  <2>2. HitsOK(hits') /\ Len(hits') <= TopK BY <1>3, <2>1 DEF NotReranked
  <2> QED BY <1>3, <2>2 DEF NotReranked, RetrievalInv, QueryOK, HitsOK
<1>4. CASE OptimizeContext
  <2>1. searched = "ranked" /\ searched' = "answered" /\ answer' = Answered
        /\ UNCHANGED <<query, hits>>
    BY <1>4 DEF OptimizeContext, Answered
  <2>2. HitsOK(hits) /\ Len(hits) <= TopK BY <2>1 DEF RetrievalInv
  <2>3. BestServed(hits, Answered) BY <2>2, AnsweredIs
  <2>4. BestServed(hits', answer') BY <2>1, <2>3
  <2> QED BY <2>1, <2>4 DEF RetrievalInv, QueryOK, HitsOK
<1>5. ASSUME NEW scores \in [1..PoolSize -> RerankScores], NEW floor \in RerankFloors,
             Rerank(scores, floor)
      PROVE  RetrievalInv'
  <2>1. HitsOK(Reranked(scores, floor)) BY RerankKeepsHits DEF RetrievalInv
  <2>2. HitsOK(FirstOf(Reranked(scores, floor), TopK)) /\ Len(FirstOf(Reranked(scores, floor), TopK)) <= TopK
    BY <1>0, <2>1, FirstHits
  <2>3. HitsOK(hits') /\ Len(hits') <= TopK BY <1>5, <2>2 DEF Rerank
  <2> QED BY <1>5, <2>3 DEF Rerank, RetrievalInv, QueryOK, HitsOK
<1>6. CASE UNCHANGED search BY <1>6 DEF search, RetrievalInv, QueryOK, HitsOK
<1> QED BY <1>1, <1>2, <1>3, <1>4, <1>5, <1>6 DEF RetrievalNext

\* However a search ranks, merges, thins out and caps, the best hit of every file it
\* found is served (retriever.ts, context-optimizer.ts).
THEOREM EveryAnswerServesTheBestHits == RetrievalSpec => []BestHitsServed
<1>1. RetrievalInv => BestHitsServed BY DEF RetrievalInv, BestHitsServed, BestServed
<1> QED BY <1>1, RetrievalInvInitially, RetrievalInvKept, PTL DEF RetrievalSpec

-----------------------------------------------------------------------------
(* Chunking: how long lines are. *)

Line == [line : Int, slice : Int, length : Nat]

Counts(f, ls) == /\ f \in [0..Len(ls) -> Int] /\ f[0] = 0
                 /\ \A i \in 1..Len(ls) : f[i] = f[i - 1] + ls[i].length

LEMMA LengthIs ==
    ASSUME NEW ls \in Seq(Line)
    PROVE  \E f : Counts(f, ls) /\ Chars(ls) = f[Len(ls)] + Len(ls) - 1
<1> DEFINE n == Len(ls)
           Rec(g) == g = [i \in 0..n |-> IF i = 0 THEN 0 ELSE g[i - 1] + ls[i].length]
           step == [i \in 1..n |-> [x \in Int |-> x + ls[i].length]]
<1>1. n \in Nat /\ \A i \in 1..n : ls[i] \in Line OBVIOUS
<1>2. \A i \in 1..n : ls[i].length \in Nat BY <1>1 DEF Line
<1>3. step \in [1..n -> [Int -> Int]] BY <1>2
<1>4. PICK g \in [0..n -> Int] : g[0] = 0 /\ \A i \in 1..n : g[i] = step[i][g[i - 1]]
  <2> HIDE DEF step, n
  <2>1. PICK R : R = [i \in 0..n |-> Int] OBVIOUS
  <2>2. PICK zero \in R[0] : zero = 0 BY <1>1, <2>1
  <2>3. n \in Nat /\ \A i \in 1..n : step[i] \in [R[i - 1] -> R[i]] BY <1>1, <1>3, <2>1
  <2>4. PICK h : Steps(h, n, R, zero, step)
    <3> HIDE <2>1, <2>2
    <3> QED BY <2>3, RecursionExists
  <2>5. h \in [0..n -> Int]
    <3>1. \A i \in 0..n : h[i] \in Int BY <2>1, <2>4 DEF Steps
    <3>2. h = [i \in 0..n |-> h[i]] BY <2>4 DEF Steps
    <3> QED BY <3>1, <3>2
  <2> QED BY <2>2, <2>4, <2>5 DEF Steps
<1>5. \A i \in 1..n : g[i] = g[i - 1] + ls[i].length
  <2> SUFFICES ASSUME NEW i \in 1..n PROVE g[i] = g[i - 1] + ls[i].length OBVIOUS
  <2>1. g[i - 1] \in Int BY <1>1, <1>4
  <2> QED BY <1>4, <2>1
<1> HIDE DEF step
<1>6. Rec(g)
  <2> DEFINE h == [i \in 0..n |-> IF i = 0 THEN 0 ELSE g[i - 1] + ls[i].length]
  <2>1. \A i \in 0..n : g[i] = h[i] BY <1>1, <1>4, <1>5
  <2>2. g = [i \in 0..n |-> g[i]] /\ h = [i \in 0..n |-> h[i]] BY <1>4
  <2>3. g = h
    <3> HIDE DEF h
    <3> QED BY <2>1, <2>2
  <2> QED BY <2>3
<1> DEFINE length == CHOOSE g_1 : Rec(g_1)
<1>7. Rec(length)
  <2> HIDE DEF Rec
  <2> QED BY <1>6
<1>8. length = [i \in 0..n |-> IF i = 0 THEN 0 ELSE length[i - 1] + ls[i].length] BY <1>7
<1> HIDE DEF length
<1>9. /\ length[0] = 0
      /\ \A i \in 1..n : length[i] = length[i - 1] + ls[i].length
  BY <1>1, <1>8
<1>10. length \in [0..n -> Int]
  <2> DEFINE G == {i \in 0..n : length[i] \in Int}
  <2>1. 0 \in G BY <1>1, <1>9
  <2>2. \A i \in 1..n : i - 1 \in G => i \in G BY <1>1, <1>2, <1>9
  <2>3. 0..n \subseteq G
    <3> HIDE DEF G, n
    <3> QED BY <1>1, <2>1, <2>2, Upwards
  <2> QED BY <2>3, <1>8
<1>11. Counts(length, ls) BY <1>9, <1>10 DEF Counts
<1>12. Chars(ls) = length[n] + n - 1 BY DEF Chars, length
<1> QED BY <1>11, <1>12

\* A line more is its length and a line break more.
LEMMA CharsIs ==
    ASSUME NEW ls \in Seq(Line), NEW l \in Line
    PROVE  Chars(ls) \in Int /\ Chars(Append(ls, l)) = Chars(ls) + l.length + 1
<1> DEFINE n == Len(ls)
<1>1. PICK more \in Seq(Line) : more = Append(ls, l) BY AppendProperties
<1>2. PICK f : Counts(f, ls) /\ Chars(ls) = f[n] + n - 1 BY LengthIs
<1>3. PICK g : Counts(g, more) /\ Chars(more) = g[Len(more)] + Len(more) - 1 BY LengthIs
<1>0. n \in Nat OBVIOUS
<1>4. Len(more) = n + 1 /\ more[n + 1] = l /\ \A i \in 1..n : more[i] = ls[i] BY <1>0, <1>1
<1>5. l.length \in Nat /\ \A i \in 1..n : ls[i].length \in Nat
  <2>1. \A i \in 1..n : ls[i] \in Line OBVIOUS
  <2> QED BY <2>1 DEF Line
<1> DEFINE G == {i \in 0..n : f[i] = g[i]}
<1>6. 0 \in G BY <1>0, <1>2, <1>3, <1>4 DEF Counts
<1>7. ASSUME NEW i \in 1..n, i - 1 \in G PROVE i \in G
  <2>1. f[i] = f[i - 1] + ls[i].length BY <1>2 DEF Counts
  <2>2. g[i] = g[i - 1] + more[i].length
    <3>1. i \in 1..Len(more) BY <1>0, <1>4
    <3> QED BY <3>1, <1>3 DEF Counts
  <2> QED BY <2>1, <2>2, <1>4, <1>7
<1>8. n \in G
  <2>1. \A i \in 1..n : i - 1 \in G => i \in G BY <1>7
  <2>2. 0..n \subseteq G
    <3> HIDE DEF G, n
    <3> QED BY <1>0, <1>6, <2>1, Upwards
  <2> QED BY <1>0, <2>2
<1>9. g[n + 1] = g[n] + l.length
  <2>1. n + 1 \in 1..Len(more) /\ n + 1 - 1 = n BY <1>0, <1>4
  <2> QED BY <2>1, <1>3, <1>4 DEF Counts
<1>10. f[n] \in Int BY <1>0, <1>2, <1>4 DEF Counts
<1> QED BY <1>0, <1>1, <1>2, <1>3, <1>4, <1>5, <1>8, <1>9, <1>10

LEMMA CharsOfOne ==
    ASSUME NEW l \in Line
    PROVE  Chars(<<>>) = -1 /\ Chars(<<l>>) = l.length
<1>1. <<>> \in Seq(Line) /\ Append(<<>>, l) = <<l>> /\ l.length \in Nat BY DEF Line
<1>2. PICK none \in Seq(Line) : none = <<>> BY <1>1
<1>3. PICK f : Counts(f, none) /\ Chars(none) = f[Len(none)] + Len(none) - 1 BY LengthIs
<1>4. Chars(<<>>) = -1 BY <1>2, <1>3 DEF Counts
<1>5. Chars(Append(none, l)) = Chars(none) + l.length + 1 BY CharsIs
<1> QED BY <1>1, <1>2, <1>4, <1>5

-----------------------------------------------------------------------------
(* Pieces, and the slices of a line. *)

PieceSet == [text : Seq(Line), first : Int, last : Int, before : {<<>>}]

\* p has lines of c, and its range says which, or a slice of one.
OfChunk(c, p) ==
    \/ \E i, j \in 1..Len(c.text) :
          /\ i <= j /\ p.first = c.first + i - 1 /\ p.last = c.first + j - 1
          /\ Len(p.text) = j - i + 1 /\ \A k \in 1..Len(p.text) : p.text[k] = c.text[i + k - 1]
    \/ /\ p.first = p.last /\ Len(p.text) = 1
       /\ \E i \in 1..Len(c.text) : p.first = c.first + i - 1 /\ p.text[1].line = c.text[i].line

Short(p) == Len(p.text) <= MaxLines /\ Chars(p.text) <= MaxChars
Told(P, l) == \/ \E p \in P : Holds(p, l)
              \/ \A s \in ToSet(Slices(l)) : \E p \in P : Holds(p, s)

PiecesOK(c, ps) ==
    /\ ps \in Seq(PieceSet)
    /\ \A p \in ToSet(ps) : OfChunk(c, p) /\ (overlap = 0 => Short(p))

LEMMA PieceIs ==
    ASSUME NEW ls \in Seq(Line), NEW first \in Int, NEW last \in Int
    PROVE  /\ Piece(ls, first, last) \in PieceSet
           /\ Piece(ls, first, last).text = ls
           /\ Piece(ls, first, last).first = first /\ Piece(ls, first, last).last = last
BY DEF Piece, PieceSet

LEMMA ToldMore ==
    ASSUME NEW P, NEW Q, P \subseteq Q, NEW l, Told(P, l)
    PROVE  Told(Q, l)
BY DEF Told

LEMMA AppendSet ==
    ASSUME NEW S, NEW s \in Seq(S), NEW x \in S
    PROVE  Append(s, x) \in Seq(S) /\ ToSet(Append(s, x)) = ToSet(s) \cup {x}
<1>1. /\ Append(s, x) \in Seq(S) /\ Len(Append(s, x)) = Len(s) + 1 /\ Len(s) \in Nat
      /\ \A i \in 1..Len(s) : Append(s, x)[i] = s[i]
      /\ Append(s, x)[Len(s) + 1] = x
  BY AppendProperties
<1>2. DOMAIN s = 1..Len(s) /\ DOMAIN Append(s, x) = 1..Len(s) + 1 BY <1>1
<1>3. ASSUME NEW y \in ToSet(s) PROVE y \in ToSet(Append(s, x))
  <2>1. PICK i \in DOMAIN s : y = s[i] BY DEF ToSet
  <2>2. i \in DOMAIN Append(s, x) /\ Append(s, x)[i] = y BY <1>1, <1>2, <2>1
  <2> QED BY <2>2 DEF ToSet
<1>4. x \in ToSet(Append(s, x))
  <2>1. Len(s) + 1 \in DOMAIN Append(s, x) BY <1>1, <1>2
  <2> QED BY <2>1, <1>1 DEF ToSet
<1>5. ASSUME NEW y \in ToSet(Append(s, x)) PROVE y \in ToSet(s) \cup {x}
  <2>1. PICK i \in DOMAIN Append(s, x) : y = Append(s, x)[i] BY DEF ToSet
  <2>2. i \in DOMAIN s \/ i = Len(s) + 1 BY <1>1, <1>2
  <2> QED BY <2>1, <2>2, <1>1, <1>2 DEF ToSet
<1> QED BY <1>1, <1>3, <1>4, <1>5

LEMMA ConcatSet ==
    ASSUME NEW S, NEW s \in Seq(S), NEW t \in Seq(S)
    PROVE  s \o t \in Seq(S) /\ ToSet(s \o t) = ToSet(s) \cup ToSet(t)
<1>1. /\ s \o t \in Seq(S) /\ Len(s \o t) = Len(s) + Len(t) /\ Len(s) \in Nat /\ Len(t) \in Nat
      /\ \A i \in 1..Len(s) + Len(t) : (s \o t)[i] = IF i <= Len(s) THEN s[i] ELSE t[i - Len(s)]
  BY ConcatProperties
<1> DEFINE b == s \o t
<1>2. DOMAIN s = 1..Len(s) /\ DOMAIN t = 1..Len(t) /\ DOMAIN b = 1..Len(s) + Len(t) BY <1>1
<1>3. \A i \in DOMAIN b : b[i] = IF i <= Len(s) THEN s[i] ELSE t[i - Len(s)] BY <1>1, <1>2
<1> HIDE DEF b
<1>4. ASSUME NEW y \in ToSet(s) PROVE y \in ToSet(b)
  <2>1. PICK i \in DOMAIN s : y = s[i] BY DEF ToSet
  <2>2. i \in DOMAIN b /\ b[i] = y BY <1>1, <1>2, <1>3, <2>1
  <2> QED BY <2>2 DEF ToSet
<1>5. ASSUME NEW y \in ToSet(t) PROVE y \in ToSet(b)
  <2>1. PICK i \in DOMAIN t : y = t[i] BY DEF ToSet
  <2>2. Len(s) + i \in DOMAIN b /\ Len(s) + i - Len(s) = i /\ ~ (Len(s) + i <= Len(s)) BY <1>1, <1>2
  <2>3. b[Len(s) + i] = y BY <1>3, <2>1, <2>2
  <2> QED BY <2>2, <2>3 DEF ToSet
<1>6. ASSUME NEW y \in ToSet(b) PROVE y \in ToSet(s) \cup ToSet(t)
  <2>1. PICK i \in DOMAIN b : y = b[i] BY DEF ToSet
  <2>2. CASE i <= Len(s)
    <3>1. i \in DOMAIN s /\ y = s[i] BY <1>1, <1>2, <1>3, <2>1, <2>2
    <3> QED BY <3>1 DEF ToSet
  <2>3. CASE ~ (i <= Len(s))
    <3>1. i - Len(s) \in DOMAIN t /\ y = t[i - Len(s)] BY <1>1, <1>2, <1>3, <2>1, <2>3
    <3> QED BY <3>1 DEF ToSet
  <2> QED BY <2>2, <2>3
<1> QED BY <1>1, <1>4, <1>5, <1>6 DEF b

LEMMA LastLinesIs ==
    ASSUME NEW ls \in Seq(Line), NEW n \in Nat, NEW t, t = LastLines(ls, n)
    PROVE  /\ t \in Seq(Line) /\ Len(t) \in 0..Len(ls) /\ (n = 0 => t = <<>>)
           /\ \A k \in 1..Len(t) : t[k] = ls[Len(ls) - Len(t) + k]
<1> DEFINE m == IF Len(ls) > n THEN Len(ls) - n + 1 ELSE 1
<1>1. Len(ls) \in Nat /\ m \in 1..Len(ls) + 1 OBVIOUS
<1>2. t = SubSeq(ls, m, Len(ls)) BY DEF LastLines
<1> HIDE DEF m
<1>3. /\ t \in Seq(Line) /\ Len(t) = Len(ls) - m + 1
      /\ \A k \in 1 .. Len(ls) - m + 1 : t[k] = ls[m + k - 1]
  BY <1>1, <1>2, SubSeqProperties
<1>4. n = 0 => t = <<>>
  <2>1. n = 0 => Len(t) = 0 BY <1>1, <1>3 DEF m
  <2> QED BY <1>3, <2>1
<1>5. ASSUME NEW k \in 1..Len(t) PROVE t[k] = ls[Len(ls) - Len(t) + k]
  <2>1. Len(ls) - Len(t) + k = m + k - 1 BY <1>1, <1>3
  <2> QED BY <1>3, <2>1
<1> QED BY <1>1, <1>3, <1>4, <1>5

\* A line is cut into slices that are not blank and not too long.
LEMMA SlicesIs ==
    ASSUME NEW l \in Line, l.length > 0
    PROVE  /\ Slices(l) \in Seq(Line)
           /\ \A s \in ToSet(Slices(l)) : s.line = l.line /\ s.length > 0 /\ s.length <= MaxChars
<1> DEFINE m == l.length
           c == (m + MaxChars - 1) \div MaxChars
           q == m \div MaxChars
           slice(k) == [line |-> l.line, slice |-> k,
                        length |-> IF k * MaxChars <= m THEN MaxChars ELSE m % MaxChars]
<1>1. MaxChars \in Nat \ {0} /\ MaxChars \in Nat BY ChunkingAssumption
<1>2. m \in Nat /\ m > 0 /\ l.line \in Int BY DEF Line
<1> HIDE DEF m
<1>3. c \in Nat /\ MaxChars * c < m + MaxChars
  <2> HIDE DEF c
  <2> QED BY <1>1, <1>2, Blocks DEF c
<1>4. q \in Nat /\ m % MaxChars \in Nat /\ m % MaxChars < MaxChars BY <1>1, <1>2
<1>5. m % MaxChars = 0 => MaxChars * q = m
  <2>1. MaxChars > 0 BY <1>1
  <2> QED BY <1>1, <1>2, <2>1
<1> HIDE DEF q, c
<1>6. ASSUME NEW k \in 1..c
      PROVE  slice(k) \in Line /\ slice(k).line = l.line /\ slice(k).length > 0 /\ slice(k).length <= MaxChars
  <2>0. k * MaxChars \in Int BY <1>1
  <2>1. ASSUME ~ (k * MaxChars <= m), m % MaxChars = 0 PROVE FALSE
    <3>1. MaxChars * k = k * MaxChars /\ MaxChars * q \in Int BY <1>1, <1>4
    <3>2. m = MaxChars * q BY <1>5, <2>1
    <3>3. ~ (k <= q)
      <4>1. k <= q => MaxChars * k <= MaxChars * q BY <1>1, <1>4, Times
      <4> QED BY <4>1, <3>1, <3>2, <2>1
    <3>4. q + 1 <= c BY <3>3, <1>3, <1>4
    <3>5. MaxChars * (q + 1) <= MaxChars * c /\ MaxChars * (q + 1) = MaxChars * q + MaxChars
      <4>1. MaxChars * (q + 1) <= MaxChars * c BY <1>1, <1>3, <1>4, <3>4, Times
      <4>2. MaxChars * (q + 1) = MaxChars * q + MaxChars BY <1>1, <1>4, Times
      <4> QED BY <4>1, <4>2
    <3>6. MaxChars * c \in Int BY <1>1, <1>3
    <3> QED BY <1>1, <1>2, <1>3, <3>1, <3>2, <3>5, <3>6
  <2>2. (IF k * MaxChars <= m THEN MaxChars ELSE m % MaxChars) \in 1..MaxChars
    BY <1>1, <1>2, <1>4, <2>0, <2>1
  <2> HIDE DEF m
  <2> QED BY <1>1, <1>2, <2>2 DEF Line
<1>7. Slices(l) = [k \in 1..c |-> slice(k)] BY DEF Slices, m, c
<1> HIDE DEF slice
<1>8. Slices(l) \in Seq(Line)
  <2>1. Slices(l) \in [1..c -> Line] BY <1>6, <1>7
  <2> QED BY <2>1, <1>3
<1>9. ASSUME NEW s \in ToSet(Slices(l))
      PROVE  s.line = l.line /\ s.length > 0 /\ s.length <= MaxChars
  <2>1. PICK k \in DOMAIN Slices(l) : s = Slices(l)[k] BY DEF ToSet
  <2>2. k \in 1..c /\ s = slice(k) BY <1>7, <2>1
  <2> QED BY <1>6, <2>2
<1> QED BY <1>8, <1>9

-----------------------------------------------------------------------------
(* Windows *)

Written(w) == w = [pieces |-> w.pieces, window |-> w.window, offset |-> w.offset]

\* The lines up to i are told by the pieces, but for those after the offset,
\* which are in the window.
Windowed(c, w, i) ==
    /\ Written(w) /\ PiecesOK(c, w.pieces)
    /\ w.window \in Seq(Line) /\ w.offset \in 0..i /\ Len(w.window) = i - w.offset
    /\ \A k \in 1..Len(w.window) : w.window[k] = c.text[w.offset + k]
    /\ \A k \in 1..w.offset : Told(ToSet(w.pieces), c.text[k])
    /\ overlap = 0 => Short([text |-> w.window])

LEMMA EmptyWindow ==
    ASSUME NEW c \in PieceSet, NEW w, NEW i \in 0..Len(c.text),
           Written(w), PiecesOK(c, w.pieces), w.window = <<>>, w.offset = i,
           \A k \in 1..i : Told(ToSet(w.pieces), c.text[k])
    PROVE  Windowed(c, w, i)
<1>1. PICK l : l \in Line
  <2>1. [line |-> 0, slice |-> 0, length |-> 0] \in Line BY DEF Line
  <2> QED BY <2>1
<1>2. Chars(<<>>) = -1 BY <1>1, CharsOfOne
<1>3. Short([text |-> w.window]) BY <1>2, ChunkingAssumption DEF Short
<1>4. <<>> \in Seq(Line) /\ Len(<<>>) = 0 /\ Len(c.text) \in Nat BY DEF PieceSet
<1> QED BY <1>3, <1>4 DEF Windowed

\* What ends a window tells what was in it.
LEMMA FlushIs ==
    ASSUME NEW c \in PieceSet, overlap \in Nat, NEW i \in 1..Len(c.text) + 1,
           NEW w, Windowed(c, w, i - 1), NEW f, f = Flush(c, w, i)
    PROVE  /\ Windowed(c, f, i - 1) /\ (overlap = 0 => f.window = <<>>)
           /\ \A k \in 1 .. i - 1 : Told(ToSet(f.pieces), c.text[k])
<1>0. Len(c.text) \in Nat /\ i \in Nat /\ c.first \in Int /\ c.text \in Seq(Line) BY DEF PieceSet
<1>1. CASE w.window = <<>>
  <2>1. f = w BY <1>1 DEF Flush
  <2>2. Len(w.window) = 0 BY <1>1
  <2>3. w.offset = i - 1 BY <2>2, <1>0 DEF Windowed
  <2> QED BY <1>1, <2>1, <2>3 DEF Windowed
<1>2. CASE w.window # <<>>
  <2>0. PICK win \in Seq(Line) : win = w.window BY DEF Windowed
  <2>1. PICK o \in 0 .. i - 1 : o = w.offset BY DEF Windowed
  <2>2. PICK t : t = LastLines(win, overlap) OBVIOUS
  <2>3. PICK p : p = Piece(win, c.first + o, c.first + i - 2) OBVIOUS
  <2>4. f = [pieces |-> Append(w.pieces, p), window |-> t, offset |-> i - 1 - Len(t)]
    BY <1>2, <2>0, <2>1, <2>2, <2>3 DEF Flush
  <2>5. /\ t \in Seq(Line) /\ Len(t) \in 0..Len(win) /\ (overlap = 0 => t = <<>>)
        /\ \A k \in 1..Len(t) : t[k] = win[Len(win) - Len(t) + k]
    BY <2>2, LastLinesIs
  <2>6. Len(win) = i - 1 - o /\ Len(win) > 0 /\ \A k \in 1..Len(win) : win[k] = c.text[o + k]
    <3>1. Len(win) # 0 BY <1>2, <2>0
    <3>2. Len(win) = i - 1 - o /\ \A k \in 1..Len(win) : win[k] = c.text[o + k]
      BY <2>0, <2>1 DEF Windowed
    <3> QED BY <3>1, <3>2, <2>0
  <2>7. p \in PieceSet /\ p.text = win /\ p.first = c.first + o /\ p.last = c.first + i - 2
    BY <1>0, <2>3, PieceIs
  <2>8. OfChunk(c, p)
    <3>1. o + 1 \in 1..Len(c.text) /\ i - 1 \in 1..Len(c.text) /\ o + 1 <= i - 1 BY <1>0, <2>6
    <3>2. /\ p.first = c.first + (o + 1) - 1 /\ p.last = c.first + (i - 1) - 1
          /\ Len(p.text) = (i - 1) - (o + 1) + 1
      BY <1>0, <2>6, <2>7
    <3>3. \A k \in 1..Len(p.text) : p.text[k] = c.text[(o + 1) + k - 1]
      <4> SUFFICES ASSUME NEW k \in 1..Len(p.text) PROVE p.text[k] = c.text[(o + 1) + k - 1] OBVIOUS
      <4>1. (o + 1) + k - 1 = o + k BY <1>0
      <4> QED BY <4>1, <2>6, <2>7
    <3> QED BY <3>1, <3>2, <3>3 DEF OfChunk
  <2>9. overlap = 0 => Short(p) BY <2>0, <2>7 DEF Windowed, Short
  <2>10. /\ w.pieces \in Seq(PieceSet)
         /\ \A x \in ToSet(w.pieces) : OfChunk(c, x) /\ (overlap = 0 => Short(x))
    BY DEF Windowed, PiecesOK
  <2>11. /\ f.pieces \in Seq(PieceSet) /\ ToSet(f.pieces) = ToSet(w.pieces) \cup {p}
    BY <2>4, <2>7, <2>10, AppendSet
  <2>12. PiecesOK(c, f.pieces) BY <2>8, <2>9, <2>10, <2>11 DEF PiecesOK
  <2>13. ASSUME NEW k \in 1 .. i - 1 PROVE Told(ToSet(f.pieces), c.text[k])
    <3>1. CASE k <= o
      <4>1. Told(ToSet(w.pieces), c.text[k]) BY <2>1, <3>1 DEF Windowed
      <4> QED BY <4>1, <2>11, ToldMore
    <3>2. CASE k > o
      <4>1. k - o \in 1..Len(win) /\ o + (k - o) = k BY <1>0, <2>6, <3>2
      <4>2. win[k - o] = c.text[k] BY <4>1, <2>6
      <4>3. k - o \in DOMAIN p.text BY <4>1, <2>7
      <4>4. Holds(p, c.text[k]) BY <4>2, <4>3, <2>7 DEF Holds
      <4> QED BY <4>4, <2>11 DEF Told
    <3> QED BY <1>0, <3>1, <3>2
  <2>14. Written(f) /\ f.window = t /\ f.offset = i - 1 - Len(t) BY <2>4 DEF Written
  <2>15. f.offset \in 0 .. i - 1 /\ Len(f.window) = i - 1 - f.offset
    BY <1>0, <2>5, <2>6, <2>14
  <2>16. ASSUME NEW k \in 1..Len(t) PROVE t[k] = c.text[f.offset + k]
    <3>1. /\ Len(win) - Len(t) + k \in 1..Len(win)
          /\ o + (Len(win) - Len(t) + k) = f.offset + k
      BY <1>0, <2>5, <2>6, <2>14
    <3> QED BY <2>5, <2>6, <3>1
  <2>17. overlap = 0 => Short([text |-> f.window])
    <3>1. [line |-> 0, slice |-> 0, length |-> 0] \in Line BY DEF Line
    <3>2. Chars(<<>>) = -1 BY <3>1, CharsOfOne
    <3> QED BY <2>5, <2>14, <3>2, ChunkingAssumption DEF Short
  <2>18. \A k \in 1..f.offset : Told(ToSet(f.pieces), c.text[k]) BY <1>0, <2>13, <2>15
  <2>19. Windowed(c, f, i - 1) BY <2>5, <2>12, <2>14, <2>15, <2>16, <2>17, <2>18 DEF Windowed
  <2> QED BY <2>5, <2>13, <2>14, <2>19
<1> QED BY <1>1, <1>2

\* A line that fits is in the window.
LEMMA PushIs ==
    ASSUME NEW c \in PieceSet, NEW i \in 1..Len(c.text), NEW w, Windowed(c, w, i - 1),
           NEW more, more.window = Append(w.window, c.text[i]),
           Written(more), more.pieces = w.pieces, more.offset = w.offset,
           overlap = 0 => Short([text |-> more.window])
    PROVE  Windowed(c, more, i)
<1>1. c.text[i] \in Line /\ i \in Nat BY DEF PieceSet
<1>2. w.window \in Seq(Line) /\ w.offset \in 0 .. i - 1 /\ Len(w.window) = i - 1 - w.offset
  BY DEF Windowed
<1>3. /\ more.window \in Seq(Line) /\ Len(more.window) = Len(w.window) + 1
      /\ \A k \in 1..Len(w.window) : more.window[k] = w.window[k]
      /\ more.window[Len(w.window) + 1] = c.text[i]
  BY <1>1, <1>2, AppendProperties
<1>4. more.offset \in 0..i /\ Len(more.window) = i - more.offset BY <1>1, <1>2, <1>3
<1>5. ASSUME NEW k \in 1..Len(more.window) PROVE more.window[k] = c.text[more.offset + k]
  <2>1. CASE k <= Len(w.window)
    <3>1. k \in 1..Len(w.window) BY <2>1, <1>2
    <3> QED BY <3>1, <1>3 DEF Windowed
  <2>2. CASE k = Len(w.window) + 1
    <3>1. more.offset + k = i BY <2>2, <1>1, <1>2
    <3> QED BY <2>2, <3>1, <1>3
  <2> QED BY <2>1, <2>2, <1>2, <1>3
<1> QED BY <1>3, <1>4, <1>5 DEF Windowed

\* A line too long for a chunk is told by its slices.
LEMMA WrappedIs ==
    ASSUME NEW c \in PieceSet, overlap \in Nat, NEW i \in 1..Len(c.text),
           NEW w, Windowed(c, w, i - 1), c.text[i].length > MaxChars,
           NEW f, f = Wrapped(c, w, i)
    PROVE  Windowed(c, f, i)
<1> DEFINE l == c.text[i]
           at == c.first + i - 1
           slice(s) == Piece(<<s>>, c.first + i - 1, c.first + i - 1)
           cut == [k \in DOMAIN Slices(l) |-> slice(Slices(l)[k])]
<1>1. l \in Line /\ i \in Nat /\ c.first \in Int /\ Len(c.text) \in Nat BY DEF PieceSet
<1>2. MaxChars \in Nat /\ MaxLines >= 1 /\ l.length \in Nat BY <1>1, ChunkingAssumption DEF Line
<1> HIDE DEF l
<1>3. /\ Slices(l) \in Seq(Line)
      /\ \A s \in ToSet(Slices(l)) : s.line = l.line /\ s.length > 0 /\ s.length <= MaxChars
  <2>1. l.length > 0 BY <1>2 DEF l
  <2> QED BY <2>1, <1>1, SlicesIs
<1>4. PICK u : u = Flush(c, w, i) OBVIOUS
<1>5. Windowed(c, u, i - 1) /\ \A k \in 1 .. i - 1 : Told(ToSet(u.pieces), c.text[k])
  <2>1. i \in 1..Len(c.text) + 1 BY <1>1
  <2> QED BY <2>1, <1>4, FlushIs
<1>6. ASSUME NEW s \in ToSet(Slices(l))
      PROVE  slice(s) \in PieceSet /\ OfChunk(c, slice(s)) /\ Short(slice(s)) /\ Holds(slice(s), s)
  <2>1. s \in Line
    <3>1. PICK k \in DOMAIN Slices(l) : s = Slices(l)[k] BY DEF ToSet
    <3> QED BY <3>1, <1>3
  <2>2. <<s>> \in Seq(Line) /\ at \in Int BY <1>1, <2>1
  <2>3. slice(s) \in PieceSet /\ slice(s).text = <<s>> /\ slice(s).first = at /\ slice(s).last = at
    <3>1. PICK ls \in Seq(Line) : ls = <<s>> BY <2>2
    <3>2. PICK n \in Int : n = c.first + i - 1 BY <2>2
    <3>3. slice(s) = Piece(ls, n, n) BY <3>1, <3>2
    <3>4. /\ Piece(ls, n, n) \in PieceSet /\ Piece(ls, n, n).text = ls
          /\ Piece(ls, n, n).first = n /\ Piece(ls, n, n).last = n
      BY PieceIs
    <3> HIDE DEF slice
    <3> QED BY <3>1, <3>2, <3>3, <3>4
  <2>4. Chars(<<s>>) = s.length BY <2>1, CharsOfOne
  <2> HIDE DEF slice
  <2>5. Len(slice(s).text) = 1 /\ slice(s).text[1] = s BY <2>3
  <2>6. Short(slice(s)) BY <1>2, <1>3, <2>3, <2>4, <2>5 DEF Short
  <2>7. OfChunk(c, slice(s)) BY <1>3, <2>3, <2>5 DEF OfChunk, l
  <2>8. Holds(slice(s), s)
    <3>1. 1 \in DOMAIN slice(s).text BY <2>3
    <3> QED BY <2>5, <3>1 DEF Holds
  <2> QED BY <2>3, <2>6, <2>7, <2>8
<1> HIDE DEF slice
<1>7. cut \in Seq(PieceSet) /\ ToSet(cut) = {slice(s) : s \in ToSet(Slices(l))}
  <2>1. \A k \in DOMAIN Slices(l) : Slices(l)[k] \in ToSet(Slices(l)) BY DEF ToSet
  <2>2. \A k \in DOMAIN Slices(l) : slice(Slices(l)[k]) \in PieceSet BY <1>6, <2>1
  <2>3. DOMAIN Slices(l) = 1..Len(Slices(l)) /\ Len(Slices(l)) \in Nat BY <1>3
  <2>4. cut \in [1..Len(Slices(l)) -> PieceSet] BY <2>2, <2>3
  <2>5. cut \in Seq(PieceSet) BY <2>3, <2>4
  <2>6. ToSet(cut) = {slice(s) : s \in ToSet(Slices(l))} BY DEF ToSet
  <2> QED BY <2>5, <2>6
<1> HIDE DEF cut
<1>8. f = [pieces |-> u.pieces \o cut, window |-> <<>>, offset |-> i]
  BY <1>4 DEF Wrapped, cut, slice, l
<1>9. PiecesOK(c, u.pieces) BY <1>5 DEF Windowed
<1>10. f.pieces \in Seq(PieceSet) /\ ToSet(f.pieces) = ToSet(u.pieces) \cup ToSet(cut)
  BY <1>7, <1>8, <1>9, ConcatSet DEF PiecesOK
<1>11. PiecesOK(c, f.pieces) BY <1>6, <1>7, <1>9, <1>10 DEF PiecesOK
<1>12. ASSUME NEW k \in 1..i PROVE Told(ToSet(f.pieces), c.text[k])
  <2>1. CASE k < i
    <3>1. Told(ToSet(u.pieces), c.text[k]) BY <1>1, <1>5, <2>1
    <3> QED BY <3>1, <1>10, ToldMore
  <2>2. CASE k = i
    <3>1. \A s \in ToSet(Slices(l)) : slice(s) \in ToSet(f.pieces) /\ Holds(slice(s), s)
      BY <1>6, <1>7, <1>10
    <3> QED BY <2>2, <3>1 DEF Told, l
  <2> QED BY <1>1, <2>1, <2>2
<1>13. Written(f) /\ f.window = <<>> /\ f.offset = i /\ i \in 0..Len(c.text) BY <1>1, <1>8 DEF Written
<1> HIDE <1>8
<1> QED BY <1>11, <1>12, <1>13, EmptyWindow

LEMMA NextLineIs ==
    ASSUME NEW c \in PieceSet, overlap \in Nat, NEW i \in 1..Len(c.text),
           NEW w, Windowed(c, w, i - 1), NEW f, f = NextLine(c, w, i)
    PROVE  Windowed(c, f, i)
<1>1. PICK l \in Line : l = c.text[i] BY DEF PieceSet
<1>2. MaxChars \in Nat /\ MaxLines \in Nat /\ MaxLines >= 1 /\ l.length \in Nat
  BY ChunkingAssumption DEF Line
<1>3. CASE l.length > MaxChars
  <2>1. f = Wrapped(c, w, i) BY <1>1, <1>3 DEF NextLine
  <2> QED BY <1>1, <1>3, <2>1, WrappedIs
<1>4. CASE ~ (l.length > MaxChars)
  <2>1. PICK room : room = IF Full(w, l) THEN Flush(c, w, i) ELSE w OBVIOUS
  <2>2. f = [room EXCEPT !.window = Append(@, l)] BY <1>1, <1>4, <2>1 DEF NextLine
  <2>3. i \in 1..Len(c.text) + 1 BY DEF PieceSet
  <2>4. Windowed(c, room, i - 1)
    <3>1. CASE Full(w, l) BY <2>1, <2>3, <3>1, FlushIs
    <3>2. CASE ~ Full(w, l) BY <2>1, <3>2
    <3> QED BY <3>1, <3>2
  <2>5. PICK win \in Seq(Line) : win = room.window BY <2>4 DEF Windowed
  <2>6. Written(f) /\ f.window = Append(win, l) /\ f.pieces = room.pieces /\ f.offset = room.offset
    <3>1. room = [pieces |-> room.pieces, window |-> room.window, offset |-> room.offset]
      BY <2>4 DEF Windowed, Written
    <3>2. f = [pieces |-> room.pieces, window |-> Append(win, l), offset |-> room.offset]
      BY <2>2, <2>5, <3>1
    <3> QED BY <3>2 DEF Written
  <2>7. /\ Append(win, l) \in Seq(Line) /\ Len(Append(win, l)) = Len(win) + 1 /\ Len(win) \in Nat
        /\ Chars(Append(win, l)) = Chars(win) + l.length + 1 /\ Chars(win) \in Int
    BY AppendProperties, CharsIs
  <2>8. overlap = 0 => Short([text |-> Append(win, l)])
    <3> SUFFICES ASSUME overlap = 0 PROVE Short([text |-> Append(win, l)]) OBVIOUS
    <3>1. CASE win = <<>>
      <4>1. Len(win) = 0 /\ Chars(win) = -1 BY <3>1, CharsOfOne
      <4> QED BY <1>2, <1>4, <2>7, <4>1 DEF Short
    <3>2. CASE win # <<>>
      <4>1. ~ Full(w, l)
        <5>1. Full(w, l) => win = <<>> BY <2>1, <2>3, <2>5, FlushIs
        <5> QED BY <3>2, <5>1
      <4>2. w.window = win BY <2>1, <2>5, <4>1
      <4>3. Len(win) < MaxLines /\ Chars(win) + 1 + l.length + 1 <= MaxChars
        <5>1. ~ (Len(win) >= MaxLines) /\ ~ (CharsAndBreaks(win) + l.length + 1 > MaxChars)
          BY <3>2, <4>1, <4>2 DEF Full
        <5>2. CharsAndBreaks(win) = Chars(win) + 1 BY <3>2 DEF CharsAndBreaks
        <5> QED BY <1>2, <2>7, <5>1, <5>2
      <4> QED BY <1>2, <2>7, <4>3 DEF Short
    <3> QED BY <3>1, <3>2
  <2>9. /\ f.window = Append(room.window, c.text[i]) /\ (overlap = 0 => Short([text |-> f.window]))
    BY <1>1, <2>5, <2>6, <2>8
  <2> QED BY <2>4, <2>6, <2>9, PushIs
<1> QED BY <1>3, <1>4

\* Windows, whose pieces tell every line of the chunk.
LEMMA WindowsIs ==
    ASSUME NEW c \in PieceSet, overlap \in Nat, NEW ps, ps = Windows(c)
    PROVE  PiecesOK(c, ps) /\ \A k \in 1..Len(c.text) : Told(ToSet(ps), c.text[k])
<1> DEFINE n == Len(c.text)
           none == [pieces |-> <<>>, window |-> <<>>, offset |-> 0]
           Rec(g) == g = [i \in 0..n |-> IF i = 0 THEN none ELSE NextLine(c, g[i - 1], i)]
           after == CHOOSE g : Rec(g)
           R == [i \in 0..n |-> {w \in [pieces : Seq(PieceSet), window : Seq(Line), offset : Int] :
                                    Windowed(c, w, i)}]
           step == [i \in 1..n |-> [w \in R[i - 1] |-> NextLine(c, w, i)]]
<1>1. n \in Nat BY DEF PieceSet
<1>2. ASSUME NEW w, NEW i \in 0..n, Windowed(c, w, i)
      PROVE  w \in [pieces : Seq(PieceSet), window : Seq(Line), offset : Int]
  <2>1. w.pieces \in Seq(PieceSet) /\ w.window \in Seq(Line) /\ w.offset \in Int
    BY <1>2 DEF Windowed, PiecesOK
  <2>2. w = [pieces |-> w.pieces, window |-> w.window, offset |-> w.offset]
    BY <1>2 DEF Windowed, Written
  <2> QED BY <2>1, <2>2
<1>3. ASSUME NEW i \in 0..n, NEW w PROVE w \in R[i] <=> Windowed(c, w, i) BY <1>2
<1>4. Windowed(c, none, 0)
  <2>1. none.pieces = <<>> /\ none.window = <<>> /\ none.offset = 0 /\ Written(none) BY DEF Written
  <2>2. <<>> \in Seq(PieceSet) /\ ToSet(<<>>) = {} BY DEF ToSet
  <2>3. PiecesOK(c, none.pieces) BY <2>1, <2>2 DEF PiecesOK
  <2>4. PICK w : w = none OBVIOUS
  <2>5. PICK i \in 0..n : i = 0 BY <1>1
  <2>6. w.offset = i /\ \A k \in 1..i : Told(ToSet(w.pieces), c.text[k]) BY <2>1, <2>4, <2>5
  <2>7. Written(w) /\ PiecesOK(c, w.pieces) /\ w.window = <<>> BY <2>1, <2>3, <2>4
  <2> HIDE DEF none
  <2>8. Windowed(c, w, i) BY <2>6, <2>7, EmptyWindow
  <2> QED BY <2>4, <2>5, <2>8
<1>5. ASSUME NEW i \in 1..n, NEW w, Windowed(c, w, i - 1)
      PROVE  Windowed(c, NextLine(c, w, i), i)
  BY <1>5, NextLineIs
<1> HIDE DEF none
<1>6. PICK g : Steps(g, n, R, none, step)
  <2>1. none \in R[0]
    <3>1. PICK z \in 0..n : z = 0 BY <1>1
    <3>2. Windowed(c, none, z) BY <1>4, <3>1
    <3>3. none \in R[z] BY <1>3, <3>2
    <3> QED BY <3>1, <3>3
  <2>2. ASSUME NEW i \in 1..n PROVE step[i] \in [R[i - 1] -> R[i]]
    <3>1. i - 1 \in 0..n /\ i \in 0..n BY <1>1
    <3>2. step[i] = [w \in R[i - 1] |-> NextLine(c, w, i)] OBVIOUS
    <3> HIDE DEF R, step
    <3>3. \A w \in R[i - 1] : NextLine(c, w, i) \in R[i] BY <1>3, <1>5, <3>1
    <3> QED BY <3>2, <3>3
  <2> HIDE DEF R, step, n
  <2> QED BY <1>1, <2>1, <2>2, RecursionExists
<1>7. Rec(g)
  <2>1. \A i \in 1..n : g[i] = NextLine(c, g[i - 1], i)
    <3> SUFFICES ASSUME NEW i \in 1..n PROVE g[i] = NextLine(c, g[i - 1], i) OBVIOUS
    <3>1. i - 1 \in 0..n BY <1>1
    <3>2. g[i - 1] \in R[i - 1] /\ g[i] = step[i][g[i - 1]] BY <1>6, <3>1 DEF Steps
    <3> HIDE DEF R
    <3> QED BY <3>2
  <2> DEFINE h == [i \in 0..n |-> IF i = 0 THEN none ELSE NextLine(c, g[i - 1], i)]
  <2>2. \A i \in 0..n : g[i] = h[i]
    <3> SUFFICES ASSUME NEW i \in 0..n PROVE g[i] = h[i] OBVIOUS
    <3>1. g[0] = none BY <1>6 DEF Steps
    <3>2. i = 0 \/ i \in 1..n BY <1>1
    <3>3. h[i] = IF i = 0 THEN none ELSE NextLine(c, g[i - 1], i) OBVIOUS
    <3> HIDE DEF h
    <3> QED BY <2>1, <3>1, <3>2, <3>3
  <2>3. g = [i \in 0..n |-> g[i]] /\ h = [i \in 0..n |-> h[i]] BY <1>6 DEF Steps
  <2>4. g = h
    <3> HIDE DEF h
    <3> QED BY <2>2, <2>3
  <2> QED BY <2>4
<1>8. Rec(after)
  <2> HIDE DEF Rec
  <2> QED BY <1>7
<1>9. after = [i \in 0..n |-> IF i = 0 THEN none ELSE NextLine(c, after[i - 1], i)] BY <1>8
<1>10. ps = Flush(c, after[n], n + 1).pieces BY DEF Windows, after, none
<1> HIDE DEF after
<1>11. after[0] = none /\ \A i \in 1..n : after[i] = NextLine(c, after[i - 1], i)
  <2>1. 0 \in 0..n /\ \A i \in 1..n : i \in 0..n /\ i # 0 BY <1>1
  <2> HIDE DEF n
  <2> QED BY <1>9, <2>1
<1> DEFINE G == {i \in 0..n : Windowed(c, after[i], i)}
<1>12. Windowed(c, after[n], n)
  <2>1. 0 \in G BY <1>1, <1>4, <1>11
  <2>2. \A i \in 1..n : i - 1 \in G => i \in G BY <1>1, <1>5, <1>11
  <2>3. 0..n \subseteq G
    <3> HIDE DEF G, n
    <3> QED BY <1>1, <2>1, <2>2, Upwards
  <2> QED BY <1>1, <2>3
<1>13. PICK f : f = Flush(c, after[n], n + 1) OBVIOUS
<1>14. PICK e \in 1..Len(c.text) + 1 : e = n + 1 BY <1>1
<1>15. e - 1 = n BY <1>1, <1>14
<1>16. Windowed(c, after[n], e - 1) /\ f = Flush(c, after[n], e) BY <1>12, <1>13, <1>14, <1>15
<1>17. Windowed(c, f, e - 1) /\ \A k \in 1 .. e - 1 : Told(ToSet(f.pieces), c.text[k])
  BY <1>16, FlushIs
<1> QED BY <1>10, <1>13, <1>15, <1>17 DEF Windowed

-----------------------------------------------------------------------------
(* splitOversized *)

\* What is filtered is what is to be kept.
LEMMA FilteredIs ==
    ASSUME NEW T, NEW s \in Seq(T), NEW S, S \subseteq DOMAIN s,
           NEW t, t = Arranged(s, S, InPlace(s))
    PROVE  t \in Seq(T) /\ ToSet(t) = {s[i] : i \in S}
<1>1. DOMAIN s = 1..Len(s) /\ Len(s) \in Nat OBVIOUS
<1>2. IsFiniteSet(S)
  <2>1. IsFiniteSet(1..Len(s)) BY <1>1, FS_Interval
  <2>2. S \in SUBSET (1..Len(s)) BY <1>1
  <2> QED BY <2>1, <2>2, FS_Subset
<1>3. IsOrder(InPlace(s), S)
  <2>1. DOMAIN s \subseteq Int BY <1>1
  <2> QED BY <2>1, InPlaceIsOrder
<1>4. PICK p : Numbering(p, S, InPlace(s)) /\ t = [k \in 1..Cardinality(S) |-> s[p[k]]]
  BY <1>2, <1>3, ArrangedIs
<1>5. /\ p \in [1..Cardinality(S) -> S] /\ Cardinality(S) \in Nat
      /\ \A i \in S : \E k \in 1..Cardinality(S) : p[k] = i
  BY <1>2, <1>4, FS_CardinalityType DEF Numbering
<1>6. \A i \in S : s[i] \in T BY <1>1
<1>7. t \in [1..Cardinality(S) -> T] BY <1>4, <1>5, <1>6
<1>8. t \in Seq(T) BY <1>5, <1>7
<1>9. DOMAIN t = 1..Cardinality(S) BY <1>4
<1>10. ASSUME NEW x \in ToSet(t) PROVE x \in {s[i] : i \in S}
  <2>1. PICK k \in 1..Cardinality(S) : x = t[k] BY <1>9 DEF ToSet
  <2> QED BY <1>4, <1>5, <2>1
<1>11. ASSUME NEW i \in S PROVE s[i] \in ToSet(t)
  <2>1. PICK k \in 1..Cardinality(S) : p[k] = i BY <1>5
  <2>2. t[k] = s[i] BY <1>4, <2>1
  <2>3. k \in DOMAIN t BY <1>9
  <2> QED BY <2>2, <2>3 DEF ToSet
<1> QED BY <1>8, <1>10, <1>11

\* Blank pieces are dropped: nothing is told by them but blank lines.
LEMMA SplitIs ==
    ASSUME NEW c \in PieceSet, overlap \in Nat, NEW ps, ps = Split(c)
    PROVE  /\ ps \in Seq(PieceSet)
           /\ \A p \in ToSet(ps) : (p = c \/ OfChunk(c, p)) /\ (overlap = 0 => Short(p))
           /\ \A k \in 1..Len(c.text) : c.text[k].length > 0 => Told(ToSet(ps), c.text[k])
<1>1. DOMAIN c.text = 1..Len(c.text) /\ \A k \in 1..Len(c.text) : c.text[k] \in Line BY DEF PieceSet
<1>2. CASE Len(c.text) <= MaxLines /\ Chars(c.text) <= MaxChars
  <2>1. ps = <<c>> BY <1>2 DEF Split
  <2>2. ps \in Seq(PieceSet) BY <2>1
  <2>3. ToSet(ps) = {c}
    <3>1. DOMAIN ps = {1} /\ ps[1] = c BY <2>1
    <3> QED BY <3>1 DEF ToSet
  <2>4. Short(c) BY <1>2 DEF Short
  <2>5. \A k \in 1..Len(c.text) : Holds(c, c.text[k]) BY <1>1 DEF Holds
  <2> QED BY <2>2, <2>3, <2>4, <2>5 DEF Told
<1>3. CASE ~ (Len(c.text) <= MaxLines /\ Chars(c.text) <= MaxChars)
  <2>1. PICK ws : ws = Windows(c) OBVIOUS
  <2>2. PiecesOK(c, ws) /\ \A k \in 1..Len(c.text) : Told(ToSet(ws), c.text[k]) BY <2>1, WindowsIs
  <2>3. PICK S : S = {k \in DOMAIN ws : ~ IsBlank(ws[k].text)} OBVIOUS
  <2>4. ps = Arranged(ws, S, InPlace(ws)) BY <1>3, <2>1, <2>3 DEF Split
  <2>5. ws \in Seq(PieceSet) /\ S \subseteq DOMAIN ws BY <2>2, <2>3 DEF PiecesOK
  <2>6. ps \in Seq(PieceSet) /\ ToSet(ps) = {ws[k] : k \in S} BY <2>4, <2>5, FilteredIs
  <2>7. ToSet(ps) \subseteq ToSet(ws) BY <2>5, <2>6 DEF ToSet
  <2>8. \A p \in ToSet(ps) : OfChunk(c, p) /\ (overlap = 0 => Short(p)) BY <2>2, <2>7 DEF PiecesOK
  <2>9. ASSUME NEW p \in ToSet(ws), NEW l, l.length > 0, Holds(p, l) PROVE p \in ToSet(ps)
    <3>1. PICK k \in DOMAIN ws : p = ws[k] BY DEF ToSet
    <3>2. PICK m \in DOMAIN p.text : p.text[m] = l BY <2>9 DEF Holds
    <3>3. ~ (l.length = 0)
      <4>1. PICK len : len = l.length OBVIOUS
      <4>2. len > 0 BY <2>9, <4>1
      <4>3. len # 0 BY <4>2
      <4> QED BY <4>1, <4>3
    <3>4. ~ IsBlank(ws[k].text) BY <3>1, <3>2, <3>3 DEF IsBlank
    <3> QED BY <2>3, <2>6, <3>1, <3>4
  <2>10. ASSUME NEW k \in 1..Len(c.text), c.text[k].length > 0 PROVE Told(ToSet(ps), c.text[k])
    <3>1. PICK l \in Line : l = c.text[k] BY <1>1
    <3>2. Told(ToSet(ws), l) BY <2>2, <3>1
    <3>3. CASE \E p \in ToSet(ws) : Holds(p, l) BY <2>9, <2>10, <3>1, <3>3 DEF Told
    <3>4. CASE \A s \in ToSet(Slices(l)) : \E p \in ToSet(ws) : Holds(p, s)
      <4>1. \A s \in ToSet(Slices(l)) : s.length > 0 BY <2>10, <3>1, SlicesIs
      <4>2. \A s \in ToSet(Slices(l)) : \E p \in ToSet(ps) : Holds(p, s) BY <2>9, <3>4, <4>1
      <4> QED BY <3>1, <4>2 DEF Told
    <3> QED BY <3>2, <3>3, <3>4 DEF Told
  <2> QED BY <2>6, <2>8, <2>10
<1> QED BY <1>2, <1>3

\* No chunk's pieces are lost in those of the others.
LEMMA SplitOversizedIs ==
    ASSUME NEW found \in Seq(PieceSet), overlap \in Nat, NEW ps, ps = SplitOversized(found)
    PROVE  /\ ps \in Seq(PieceSet)
           /\ \A p \in ToSet(ps) : overlap = 0 => Short(p)
           /\ \A p \in ToSet(ps) : \E c \in ToSet(found) : p = c \/ OfChunk(c, p)
           /\ \A c \in ToSet(found) : \A k \in 1..Len(c.text) :
                 c.text[k].length > 0 => Told(ToSet(ps), c.text[k])
<1> DEFINE n == Len(found)
           Rec(g) == g = [i \in 0..n |-> IF i = 0 THEN <<>> ELSE g[i - 1] \o Split(found[i])]
           result == CHOOSE g : Rec(g)
           R == [i \in 0..n |-> Seq(PieceSet)]
           step == [i \in 1..n |-> [x \in Seq(PieceSet) |-> x \o Split(found[i])]]
<1>1. n \in Nat /\ DOMAIN found = 1..n /\ \A i \in 1..n : found[i] \in PieceSet OBVIOUS
<1> HIDE DEF n
<1>2. ASSUME NEW i \in 1..n, NEW x \in Seq(PieceSet)
      PROVE  /\ x \o Split(found[i]) \in Seq(PieceSet)
             /\ ToSet(x \o Split(found[i])) = ToSet(x) \cup ToSet(Split(found[i]))
  <2>1. Split(found[i]) \in Seq(PieceSet) BY <1>1, SplitIs
  <2> QED BY <2>1, ConcatSet
<1>3. PICK g : Steps(g, n, R, <<>>, step)
  <2>0. <<>> \in Seq(PieceSet) OBVIOUS
  <2>1. PICK e \in Seq(PieceSet) : e = <<>> BY <2>0, Zenon
  <2>2. e \in R[0] BY <1>1
  <2>3. \A i \in 1..n : step[i] \in [R[i - 1] -> R[i]]
    <3> SUFFICES ASSUME NEW i \in 1..n PROVE step[i] \in [R[i - 1] -> R[i]] OBVIOUS
    <3>1. R[i - 1] = Seq(PieceSet) /\ R[i] = Seq(PieceSet) BY <1>1
    <3>2. step[i] = [x \in Seq(PieceSet) |-> x \o Split(found[i])] OBVIOUS
    <3> HIDE DEF R, step
    <3> QED BY <1>2, <3>1, <3>2
  <2> HIDE DEF R, step
  <2>4. \E h : Steps(h, n, R, e, step) BY <1>1, <2>2, <2>3, RecursionExists
  <2> QED BY <2>1, <2>4
<1>4. Rec(g)
  <2>1. \A i \in 1..n : g[i] = g[i - 1] \o Split(found[i])
    <3> SUFFICES ASSUME NEW i \in 1..n PROVE g[i] = g[i - 1] \o Split(found[i]) OBVIOUS
    <3>1. i - 1 \in 0..n BY <1>1
    <3>2. g[i - 1] \in Seq(PieceSet) /\ g[i] = step[i][g[i - 1]] BY <1>3, <3>1 DEF Steps
    <3> QED BY <3>2
  <2> DEFINE h == [i \in 0..n |-> IF i = 0 THEN <<>> ELSE g[i - 1] \o Split(found[i])]
  <2>2. \A i \in 0..n : g[i] = h[i]
    <3>1. 0 \in 0..n /\ h[0] = <<>> /\ g[0] = <<>> BY <1>1, <1>3 DEF Steps
    <3>2. \A i \in 1..n : i \in 0..n /\ i # 0 BY <1>1
    <3>3. \A i \in 1..n : h[i] = g[i - 1] \o Split(found[i]) BY <3>2
    <3>4. \A i \in 0..n : i = 0 \/ i \in 1..n BY <1>1
    <3> HIDE DEF h
    <3> QED BY <2>1, <3>1, <3>3, <3>4
  <2>3. g = [i \in 0..n |-> g[i]] /\ h = [i \in 0..n |-> h[i]] BY <1>3 DEF Steps
  <2>4. g = h
    <3> HIDE DEF h
    <3> QED BY <2>2, <2>3
  <2> QED BY <2>4
<1>5. Rec(result)
  <2> HIDE DEF Rec
  <2> QED BY <1>4
<1>6. ps = result[n] BY DEF SplitOversized, result, n
<1>7. result = [i \in 0..n |-> IF i = 0 THEN <<>> ELSE result[i - 1] \o Split(found[i])] BY <1>5
<1> HIDE DEF result, R, step
<1>8. result[0] = <<>> /\ \A i \in 1..n : result[i] = result[i - 1] \o Split(found[i])
  <2>1. 0 \in 0..n /\ \A i \in 1..n : i \in 0..n /\ i # 0 BY <1>1
  <2> QED BY <1>7, <2>1
<1> DEFINE Is(i) == /\ result[i] \in Seq(PieceSet)
                    /\ \A p \in ToSet(result[i]) : \E j \in 1..n : p \in ToSet(Split(found[j]))
                    /\ \A j \in 1..i : ToSet(Split(found[j])) \subseteq ToSet(result[i])
           G == {i \in 0..n : Is(i)}
<1>9. 0 \in G
  <2>1. <<>> \in Seq(PieceSet) /\ ToSet(<<>>) = {} BY DEF ToSet
  <2>2. result[0] \in Seq(PieceSet) /\ ToSet(result[0]) = {} BY <1>8, <2>1
  <2>3. 0 \in 0..n /\ \A j \in 1..0 : FALSE BY <1>1
  <2>4. Is(0) BY <2>2, <2>3
  <2> QED BY <2>3, <2>4
<1>10. ASSUME NEW i \in 1..n, i - 1 \in G PROVE i \in G
  <2>1. /\ result[i] \in Seq(PieceSet)
        /\ ToSet(result[i]) = ToSet(result[i - 1]) \cup ToSet(Split(found[i]))
    BY <1>2, <1>8, <1>10
  <2>2. \A j \in 1..i : ToSet(Split(found[j])) \subseteq ToSet(result[i])
    <3> SUFFICES ASSUME NEW j \in 1..i PROVE ToSet(Split(found[j])) \subseteq ToSet(result[i]) OBVIOUS
    <3>1. CASE j = i BY <2>1, <3>1
    <3>2. CASE j # i
      <4>1. j \in 1 .. i - 1 BY <1>1, <3>2
      <4> QED BY <1>10, <2>1, <4>1
    <3> QED BY <3>1, <3>2
  <2>3. \A p \in ToSet(result[i]) : \E j \in 1..n : p \in ToSet(Split(found[j])) BY <1>10, <2>1
  <2> QED BY <1>1, <2>1, <2>2, <2>3
<1>11. Is(n)
  <2>1. \A i \in 1..n : i - 1 \in G => i \in G BY <1>10
  <2>2. 0..n \subseteq G
    <3> HIDE DEF G
    <3> QED BY <1>1, <1>9, <2>1, Upwards
  <2>3. n \in G
    <3>1. n \in 0..n BY <1>1
    <3> HIDE DEF G
    <3> QED BY <2>2, <3>1
  <2> QED BY <2>3
<1>12. ASSUME NEW j \in 1..n, NEW c, c = found[j], NEW s, s = Split(c)
       PROVE  /\ \A p \in ToSet(s) : (p = c \/ OfChunk(c, p)) /\ (overlap = 0 => Short(p))
              /\ \A k \in 1..Len(c.text) : c.text[k].length > 0 => Told(ToSet(s), c.text[k])
              /\ c \in ToSet(found)
  <2>1. c \in PieceSet /\ c \in ToSet(found) BY <1>1, <1>12 DEF ToSet
  <2> HIDE <1>1
  <2> QED BY <1>12, <2>1, SplitIs
<1>13. ASSUME NEW p \in ToSet(ps)
       PROVE  /\ overlap = 0 => Short(p)
              /\ \E c \in ToSet(found) : p = c \/ OfChunk(c, p)
  <2>1. PICK j \in 1..n : p \in ToSet(Split(found[j])) BY <1>6, <1>11
  <2> QED BY <1>12, <2>1
<1>14. ASSUME NEW c \in ToSet(found), NEW k \in 1..Len(c.text), c.text[k].length > 0
       PROVE  Told(ToSet(ps), c.text[k])
  <2>1. PICK j \in 1..n : c = found[j] BY <1>1 DEF ToSet
  <2>2. Told(ToSet(Split(c)), c.text[k]) BY <1>12, <1>14, <2>1
  <2>3. ToSet(Split(c)) \subseteq ToSet(ps) BY <1>1, <1>6, <1>11, <2>1
  <2> QED BY <2>2, <2>3, ToldMore
<1> QED BY <1>6, <1>11, <1>13, <1>14

-----------------------------------------------------------------------------
(* The file *)

FileOK ==
    /\ source \in UNION {[1..n -> LineLengths] : n \in 1..MaxFile}
    /\ nodes \in Layouts[Len(source)]
    /\ overlap \in Overlaps

LEMMA FileIs ==
    ASSUME FileOK
    PROVE  /\ Len(source) \in Nat /\ DOMAIN source = 1..Len(source) /\ overlap \in Nat
           /\ \A n \in 1..Len(source) : source[n] \in Nat
           /\ nodes \in Seq((1..Len(source)) \X (1..Len(source)))
           /\ \A i \in DOMAIN nodes : nodes[i][1] <= nodes[i][2]
<1>1. PICK n \in 1..MaxFile : source \in [1..n -> LineLengths] BY DEF FileOK
<1>2. n \in Nat /\ LineLengths \subseteq Nat BY ChunkingAssumption
<1>3. Len(source) = n /\ DOMAIN source = 1..n
  <2>1. source \in Seq(LineLengths) BY <1>1, <1>2
  <2>2. DOMAIN source = 1..n BY <1>1
  <2> QED BY <1>2, <2>1, <2>2
<1>4. \A k \in 1..n : source[k] \in Nat BY <1>1, <1>2
<1>5. nodes \in Layouts[n] /\ overlap \in Nat BY <1>3, ChunkingAssumption DEF FileOK
<1>6. nodes \in Seq((1..n) \X (1..n)) /\ \A i \in DOMAIN nodes : nodes[i][1] <= nodes[i][2]
  BY <1>5, ChunkingAssumption
<1> QED BY <1>2, <1>3, <1>4, <1>5, <1>6

LEMMA LinesIs ==
    ASSUME FileOK, NEW from \in 1..Len(source), NEW to \in 1..Len(source), from <= to
    PROVE  /\ Lines(from, to) \in Seq(Line) /\ Len(Lines(from, to)) = to - from + 1
           /\ \A k \in 1 .. to - from + 1 : Lines(from, to)[k] = Slice0(from + k - 1)
<1>1. Len(source) \in Nat /\ \A n \in 1..Len(source) : source[n] \in Nat BY FileIs
<1> DEFINE row == [i \in 1 .. to - from + 1 |->
                      [line |-> from + i - 1, slice |-> 0, length |-> source[from + i - 1]]]
<1>2. to - from + 1 \in Nat BY <1>1
<1>3. \A i \in 1 .. to - from + 1 : row[i] = Slice0(from + i - 1) /\ row[i] \in Line
  <2> SUFFICES ASSUME NEW i \in 1 .. to - from + 1
               PROVE  row[i] = Slice0(from + i - 1) /\ row[i] \in Line
    OBVIOUS
  <2>1. from + i - 1 \in 1..Len(source) BY <1>1
  <2> QED BY <1>1, <2>1 DEF Slice0, Line
<1>4. row \in Seq(Line) /\ Len(row) = to - from + 1
  <2>1. DOMAIN row = 1 .. to - from + 1 OBVIOUS
  <2>2. row = [i \in 1 .. to - from + 1 |-> row[i]] OBVIOUS
  <2> HIDE DEF row
  <2>3. row \in [1 .. to - from + 1 -> Line] BY <1>3, <2>2
  <2> QED BY <1>2, <2>1, <2>3
<1>5. Lines(from, to) = row
  <2>1. <<>> \o row = row
    <3> HIDE DEF row
    <3> QED BY <1>4, ConcatEmptySeq
  <2> QED BY <2>1 DEF Lines, Tuple
<1> HIDE DEF row
<1> QED BY <1>3, <1>4, <1>5

\* A piece of a chunk of lines has the lines that its range says.
LEMMA OfLinesIs ==
    ASSUME FileOK, NEW from \in 1..Len(source), NEW to \in 1..Len(source), from <= to,
           NEW c, c = Piece(Lines(from, to), from, to),
           NEW p \in PieceSet, p = c \/ OfChunk(c, p)
    PROVE  \/ p.text = Lines(p.first, p.last)
           \/ p.first = p.last /\ Len(p.text) = 1 /\ p.text[1].line = p.first
<1>1. Len(source) \in Nat BY FileIs
<1>2. /\ Lines(from, to) \in Seq(Line) /\ Len(Lines(from, to)) = to - from + 1
      /\ \A k \in 1 .. to - from + 1 : Lines(from, to)[k] = Slice0(from + k - 1)
  BY LinesIs
<1>3. c.text = Lines(from, to) /\ c.first = from /\ c.last = to BY DEF Piece
<1>4. CASE p = c BY <1>3, <1>4
<1>5. ASSUME NEW i \in 1..Len(c.text), NEW j \in 1..Len(c.text), i <= j,
             p.first = c.first + i - 1, p.last = c.first + j - 1, Len(p.text) = j - i + 1,
             \A k \in 1..Len(p.text) : p.text[k] = c.text[i + k - 1]
      PROVE  p.text = Lines(p.first, p.last)
  <2>1. PICK a \in 1..Len(source) : a = p.first BY <1>1, <1>2, <1>3, <1>5
  <2>2. PICK b \in 1..Len(source) : b = p.last BY <1>1, <1>2, <1>3, <1>5
  <2>3. a <= b /\ b - a + 1 = j - i + 1 /\ a = from + i - 1 BY <1>1, <1>2, <1>3, <1>5, <2>1, <2>2
  <2>4. PICK ls \in Seq(Line) : ls = Lines(a, b)
    BY <2>3, LinesIs
  <2>5. Len(ls) = b - a + 1 /\ \A k \in 1 .. b - a + 1 : ls[k] = Slice0(a + k - 1)
    BY <2>3, <2>4, LinesIs
  <2>6. ASSUME NEW k \in 1..Len(ls) PROVE p.text[k] = ls[k]
    <3>0. Len(c.text) = to - from + 1 /\ Len(ls) = j - i + 1 /\ k \in 1 .. j - i + 1
      BY <1>2, <1>3, <2>3, <2>5
    <3>1. k \in 1..Len(p.text) /\ i + k - 1 \in 1 .. to - from + 1 /\ from + (i + k - 1) - 1 = a + k - 1
      <4>1. i \in 1 .. to - from + 1 /\ j \in 1 .. to - from + 1 BY <3>0
      <4> QED BY <1>5, <2>3, <3>0, <4>1
    <3>2. Lines(from, to)[i + k - 1] = Slice0(a + k - 1) BY <1>2, <3>1
    <3> QED BY <1>3, <1>5, <2>5, <3>1, <3>2
  <2>7. p.text \in Seq(Line) /\ Len(p.text) = Len(ls) BY <1>5, <2>3, <2>5 DEF PieceSet
  <2>8. p.text = ls BY <2>6, <2>7, SeqEqual
  <2> QED BY <2>1, <2>2, <2>4, <2>8
<1>6. ASSUME p.first = p.last, Len(p.text) = 1, NEW i \in 1..Len(c.text),
             p.first = c.first + i - 1, p.text[1].line = c.text[i].line
      PROVE  p.text[1].line = p.first
  <2>1. c.text[i] = Slice0(from + i - 1) BY <1>2, <1>3
  <2>2. Slice0(from + i - 1).line = from + i - 1 BY DEF Slice0
  <2> QED BY <1>3, <1>6, <2>1, <2>2
<1> QED BY <1>4, <1>5, <1>6 DEF OfChunk

LEMMA ParsedIs ==
    ASSUME FileOK
    PROVE  /\ Parsed \in Seq(PieceSet) /\ (Parsed = <<>> <=> nodes = <<>>)
           /\ DOMAIN Parsed = DOMAIN nodes
           /\ \A i \in DOMAIN nodes :
                 /\ Parsed[i] = Piece(Lines(nodes[i][1], nodes[i][2]), nodes[i][1], nodes[i][2])
                 /\ nodes[i][1] \in 1..Len(source) /\ nodes[i][2] \in 1..Len(source)
                 /\ nodes[i][1] <= nodes[i][2]
<1>1. /\ nodes \in Seq((1..Len(source)) \X (1..Len(source)))
      /\ \A i \in DOMAIN nodes : nodes[i][1] <= nodes[i][2]
  BY FileIs
<1>2. /\ DOMAIN nodes = 1..Len(nodes) /\ Len(nodes) \in Nat
      /\ \A i \in DOMAIN nodes : nodes[i] \in (1..Len(source)) \X (1..Len(source))
  BY <1>1
<1>3. /\ DOMAIN Parsed = DOMAIN nodes
      /\ \A i \in DOMAIN nodes :
            Parsed[i] = Piece(Lines(nodes[i][1], nodes[i][2]), nodes[i][1], nodes[i][2])
  BY DEF Parsed
<1>4. ASSUME NEW i \in DOMAIN nodes
      PROVE  /\ nodes[i][1] \in 1..Len(source) /\ nodes[i][2] \in 1..Len(source)
             /\ nodes[i][1] <= nodes[i][2] /\ Parsed[i] \in PieceSet
  <2>1. PICK a \in 1..Len(source), b \in 1..Len(source) : nodes[i] = <<a, b>> BY <1>2
  <2>2. nodes[i][1] = a /\ nodes[i][2] = b /\ a <= b BY <1>1, <2>1
  <2>3. Lines(a, b) \in Seq(Line) BY <2>2, LinesIs
  <2>4. a \in Int /\ b \in Int BY FileIs
  <2>5. Piece(Lines(a, b), a, b) \in PieceSet BY <2>3, <2>4, PieceIs
  <2> QED BY <1>3, <2>2, <2>5
<1>5. Parsed \in Seq(PieceSet)
  <2>1. Parsed = [i \in 1..Len(nodes) |-> Parsed[i]] BY <1>2 DEF Parsed
  <2>2. Parsed \in [1..Len(nodes) -> PieceSet] BY <1>2, <1>4, <2>1
  <2> QED BY <1>2, <2>2
<1>6. Parsed = <<>> <=> nodes = <<>>
  <2>1. Len(Parsed) = Len(nodes) BY <1>2, <1>3, <1>5
  <2> QED BY <1>1, <1>5, <2>1
<1> QED BY <1>3, <1>4, <1>5, <1>6

\* Blank lines only are cut off a window.
LEMMA TrimmedIs ==
    ASSUME NEW ls \in Seq(Line), NEW t, t = Trimmed(ls)
    PROVE  /\ t \in Seq(Line)
           /\ \A k \in 1..Len(ls) : ls[k].length > 0 => \E m \in 1..Len(t) : t[m] = ls[k]
<1>1. Len(ls) \in Nat /\ DOMAIN ls = 1..Len(ls) OBVIOUS
<1>2. \A k \in 1..Len(ls) : ls[k].length \in Nat
  <2>1. \A k \in 1..Len(ls) : ls[k] \in Line OBVIOUS
  <2> QED BY <2>1 DEF Line
<1>3. CASE IsBlank(ls)
  <2>1. t = <<>> BY <1>3 DEF Trimmed
  <2>2. \A k \in 1..Len(ls) : ~ (ls[k].length > 0)
    <3>1. \A k \in 1..Len(ls) : ls[k].length = 0 BY <1>1, <1>3 DEF IsBlank
    <3> QED BY <1>2, <3>1
  <2>3. t \in Seq(Line) BY <2>1
  <2> QED BY <2>2, <2>3
<1>4. CASE ~ IsBlank(ls)
  <2> DEFINE filled == {i \in DOMAIN ls : ls[i].length > 0}
  <2>1. t = SubSeq(ls, Least(filled), Greatest(filled)) BY <1>4 DEF Trimmed
  <2>2. filled \subseteq 1..Len(ls) /\ filled # {} /\ filled \subseteq Nat
    <3>1. PICK i \in DOMAIN ls : ls[i].length # 0 BY <1>4 DEF IsBlank
    <3>2. i \in filled BY <1>1, <1>2, <3>1
    <3> QED BY <1>1, <3>2
  <2>3. \A k \in 1..Len(ls) : ls[k].length > 0 => k \in filled BY <1>1
  <2> HIDE DEF filled
  <2>4. PICK a \in filled : a = Least(filled) /\ \A j \in filled : a <= j BY <2>2, LeastIs
  <2>5. PICK b \in filled : b = Greatest(filled) /\ \A j \in filled : j <= b
    <3>1. PICK m \in filled : \A j \in filled : j <= m BY <1>1, <2>2, GreatestBelow
    <3>2. \A j \in filled : m >= j BY <2>2, <3>1
    <3>3. Greatest(filled) \in filled /\ \A j \in filled : Greatest(filled) >= j BY <3>2 DEF Greatest
    <3> QED BY <2>2, <3>3
  <2>6. a \in 1..Len(ls) /\ b \in 1..Len(ls) /\ a <= b BY <2>2, <2>4
  <2>7. /\ t \in Seq(Line) /\ Len(t) = b - a + 1
        /\ \A k \in 1 .. b - a + 1 : t[k] = ls[a + k - 1]
    BY <1>1, <2>1, <2>4, <2>5, <2>6, SubSeqProperties
  <2>8. ASSUME NEW k \in 1..Len(ls), ls[k].length > 0 PROVE \E m \in 1..Len(t) : t[m] = ls[k]
    <3>1. a <= k /\ k <= b BY <2>3, <2>4, <2>5, <2>8
    <3>2. k - a + 1 \in 1..Len(t) /\ a + (k - a + 1) - 1 = k BY <2>6, <2>7, <3>1
    <3>3. t[k - a + 1] = ls[k] BY <2>7, <3>2
    <3> QED BY <3>2, <3>3
  <2> QED BY <2>7, <2>8
<1> QED BY <1>3, <1>4

\* Every line of the file is in one of the windows.
LEMMA FallbackIs ==
    ASSUME FileOK, NEW ps, ps = Fallback
    PROVE  /\ ps \in Seq(PieceSet)
           /\ \A n \in 1..Len(source) : source[n] > 0 =>
                 \E c \in ToSet(ps) : \E k \in 1..Len(c.text) : c.text[k] = Slice0(n)
<1> DEFINE N == Len(source)
           F == FallbackLines
           last(first) == LET end == first + F - 1 IN IF end < N THEN end ELSE N
           window(first) == Piece(Trimmed(Lines(first, last(first))), first, last(first))
           count == (N + F - 1) \div F
           row == [i \in 1..count |-> window((i - 1) * F + 1)]
           kept == {i \in 1..count : row[i].text # <<>>}
<1>1. N \in Nat /\ F \in Nat \ {0} /\ F \in Nat /\ \A n \in 1..N : source[n] \in Nat
  BY FileIs, ChunkingAssumption
<1> HIDE DEF N, F
<1>2. count \in Nat /\ F * count < N + F /\ N <= F * count
  <2> HIDE DEF count
  <2> QED BY <1>1, Blocks DEF count
<1> HIDE DEF count
<1>3. ASSUME NEW first \in 1..N
      PROVE  /\ last(first) \in 1..N /\ first <= last(first)
             /\ \A n \in first..N : n <= first + F - 1 => n <= last(first)
  BY <1>1
<1> HIDE DEF last
<1>4. ASSUME NEW first \in 1..N
      PROVE  /\ window(first) \in PieceSet
             /\ \A n \in first..N : source[n] > 0 /\ n <= first + F - 1 =>
                   \E k \in 1..Len(window(first).text) : window(first).text[k] = Slice0(n)
  <2>1. PICK l \in 1..N : l = last(first) BY <1>3
  <2>2. first <= l BY <1>3, <2>1
  <2>3. /\ Lines(first, l) \in Seq(Line) /\ Len(Lines(first, l)) = l - first + 1
        /\ \A k \in 1 .. l - first + 1 : Lines(first, l)[k] = Slice0(first + k - 1)
    BY <2>2, LinesIs DEF N
  <2>4. PICK t \in Seq(Line) : t = Trimmed(Lines(first, l)) BY <2>3, TrimmedIs
  <2>5. first \in Int /\ l \in Int BY <1>1
  <2>6. window(first) = Piece(t, first, l) BY <2>1, <2>4
  <2>7. window(first) \in PieceSet /\ window(first).text = t BY <2>5, <2>6, PieceIs
  <2>8. ASSUME NEW n \in first..N, source[n] > 0, n <= first + F - 1
        PROVE  \E k \in 1..Len(t) : t[k] = Slice0(n)
    <3>1. n <= l BY <1>3, <2>1, <2>8
    <3>2. n - first + 1 \in 1 .. l - first + 1 /\ first + (n - first + 1) - 1 = n BY <1>1, <3>1
    <3>3. Lines(first, l)[n - first + 1] = Slice0(n) BY <2>3, <3>2
    <3>4. PICK m \in 1..Len(Lines(first, l)) : m = n - first + 1 BY <2>3, <3>2
    <3>5. Lines(first, l)[m].length > 0 BY <2>8, <3>3, <3>4 DEF Slice0
    <3> QED BY <2>3, <2>4, <3>3, <3>4, <3>5, TrimmedIs
  <2> HIDE DEF window
  <2> QED BY <2>7, <2>8
<1> HIDE DEF window
<1>5. ASSUME NEW i \in 1..count
      PROVE  (i - 1) * F + 1 \in 1..N /\ (i - 1) * F = F * (i - 1)
  <2>1. F * i <= F * count /\ F * i \in Int /\ F * count \in Int BY <1>1, <1>2, Times
  <2>2. F * (i - 1) + F = F * i /\ F * (i - 1) \in Nat /\ (i - 1) * F = F * (i - 1) BY <1>1
  <2> QED BY <1>1, <1>2, <2>1, <2>2
<1>6. row \in Seq(PieceSet) /\ DOMAIN row = 1..count
  <2>1. \A i \in 1..count : window((i - 1) * F + 1) \in PieceSet BY <1>4, <1>5
  <2> QED BY <1>2, <2>1
<1>7. ps = Arranged(row, kept, InPlace(row))
  <2>1. <<>> \o row = row
    <3> HIDE DEF row
    <3> QED BY <1>6, ConcatEmptySeq
  <2> QED BY <2>1 DEF Fallback, Tuple, N, F, last, window, count
<1>8. ps \in Seq(PieceSet) /\ ToSet(ps) = {row[i] : i \in kept}
  <2>1. kept \subseteq DOMAIN row BY <1>6
  <2> HIDE DEF row, kept
  <2> QED BY <1>6, <1>7, <2>1, FilteredIs
<1>9. ASSUME NEW n \in 1..N, source[n] > 0
      PROVE  \E c \in ToSet(ps) : \E k \in 1..Len(c.text) : c.text[k] = Slice0(n)
  <2>1. PICK q \in Nat : q = (n - 1) \div F /\ F * q <= n - 1 /\ n - 1 < F * q + F
    <3>1. n - 1 \in Nat BY <1>1
    <3> QED BY <1>1, <3>1
  <2>2. F * q \in Nat /\ q * F = F * q BY <1>1
  <2>3. q + 1 \in 1..count
    <3>1. ASSUME count <= q PROVE FALSE
      <4>1. F * count <= F * q /\ F * count \in Int BY <1>1, <1>2, <3>1, Times
      <4> QED BY <1>1, <1>2, <2>1, <2>2, <4>1
    <3> QED BY <1>2, <3>1
  <2>4. PICK i \in 1..count : i = q + 1 BY <2>3
  <2>5. (i - 1) * F = F * q BY <2>2, <2>4
  <2>6. PICK first \in 1..N : first = (i - 1) * F + 1 BY <1>5
  <2>7. n \in first..N /\ n <= first + F - 1 BY <1>1, <2>1, <2>2, <2>5, <2>6
  <2>8. PICK k \in 1..Len(window(first).text) : window(first).text[k] = Slice0(n)
    BY <1>4, <1>9, <2>7
  <2>9. row[i] = window(first) BY <2>6
  <2>10. row[i].text # <<>>
    <3>1. row[i].text = <<>> => Len(row[i].text) = 0 OBVIOUS
    <3> HIDE DEF row
    <3>2. 1..0 = {} OBVIOUS
    <3> QED BY <2>8, <2>9, <3>1, <3>2
  <2>11. i \in kept BY <2>10
  <2> HIDE DEF row, kept
  <2> QED BY <1>8, <2>8, <2>9, <2>11
<1> QED BY <1>8, <1>9 DEF N

\* applyChunkOverlap leaves text and range as they were.
LEMMA OverlappingIs ==
    ASSUME NEW ps \in Seq(PieceSet), NEW cs, cs = Overlapping(ps)
    PROVE  /\ \A p \in ToSet(cs) : \E q \in ToSet(ps) :
                 p.text = q.text /\ p.first = q.first /\ p.last = q.last
           /\ \A q \in ToSet(ps) : \E p \in ToSet(cs) : p.text = q.text
<1>1. DOMAIN cs = DOMAIN ps BY DEF Overlapping
<1>2. ASSUME NEW i \in DOMAIN ps
      PROVE  cs[i].text = ps[i].text /\ cs[i].first = ps[i].first /\ cs[i].last = ps[i].last
  <2>1. PICK b : cs[i] = ps[i] \/ cs[i] = [ps[i] EXCEPT !.before = b] BY DEF Overlapping
  <2>2. ps[i] \in PieceSet OBVIOUS
  <2>3. \A q \in PieceSet : /\ [q EXCEPT !.before = b].text = q.text
                            /\ [q EXCEPT !.before = b].first = q.first
                            /\ [q EXCEPT !.before = b].last = q.last
    BY DEF PieceSet
  <2> QED BY <2>1, <2>2, <2>3
<1> QED BY <1>1, <1>2 DEF ToSet

\* What ChunksTellTheFile says of chunks.
Tells(cs) ==
    /\ \A n \in Chunked : source[n] > 0 => Told(ToSet(cs), Slice0(n))
    /\ nodes # <<>> => \A p \in ToSet(cs) :
          \/ p.text = Lines(p.first, p.last)
          \/ p.first = p.last /\ Len(p.text) = 1 /\ p.text[1].line = p.first
    /\ overlap = 0 => \A p \in ToSet(cs) : Short(p)

LEMMA ChunkedTell ==
    ASSUME FileOK, NEW found, found = IF Parsed = <<>> THEN Fallback ELSE Parsed
    PROVE  Tells(Overlapping(SplitOversized(found)))
<1>1. /\ Len(source) \in Nat /\ DOMAIN source = 1..Len(source) /\ overlap \in Nat BY FileIs
<1>2. found \in Seq(PieceSet) BY ParsedIs, FallbackIs
<1>3. PICK ps \in Seq(PieceSet) :
         /\ ps = SplitOversized(found)
         /\ \A p \in ToSet(ps) : overlap = 0 => Short(p)
         /\ \A p \in ToSet(ps) : \E c \in ToSet(found) : p = c \/ OfChunk(c, p)
         /\ \A c \in ToSet(found) : \A k \in 1..Len(c.text) :
               c.text[k].length > 0 => Told(ToSet(ps), c.text[k])
  BY <1>1, <1>2, SplitOversizedIs
<1>4. PICK cs :
         /\ cs = Overlapping(ps)
         /\ \A p \in ToSet(cs) : \E q \in ToSet(ps) :
               p.text = q.text /\ p.first = q.first /\ p.last = q.last
         /\ \A q \in ToSet(ps) : \E p \in ToSet(cs) : p.text = q.text
  BY OverlappingIs
<1>5. ASSUME NEW n \in Chunked, source[n] > 0 PROVE Told(ToSet(cs), Slice0(n))
  <2>0. PICK c \in ToSet(found) : \E k \in 1..Len(c.text) : c.text[k] = Slice0(n)
    <3>1. CASE nodes = <<>>
      <4>1. n \in 1..Len(source) /\ found = Fallback BY <1>1, <3>1, ParsedIs DEF Chunked
      <4> QED BY <1>5, <4>1, FallbackIs
    <3>2. CASE nodes # <<>>
      <4>1. PICK i \in DOMAIN nodes : n \in nodes[i][1] .. nodes[i][2] BY <3>2 DEF Chunked
      <4>2. found = Parsed BY <3>2, ParsedIs
      <4>3. PICK a \in 1..Len(source), b \in 1..Len(source) :
               a = nodes[i][1] /\ b = nodes[i][2] /\ a <= b
        BY ParsedIs
      <4>4. Parsed[i] = Piece(Lines(a, b), a, b) /\ Parsed[i] \in ToSet(Parsed)
        BY <4>3, ParsedIs DEF ToSet
      <4>5. Parsed[i].text = Lines(a, b) BY <4>4 DEF Piece
      <4>6. /\ Len(Lines(a, b)) = b - a + 1
            /\ \A k \in 1 .. b - a + 1 : Lines(a, b)[k] = Slice0(a + k - 1)
        BY <4>3, LinesIs
      <4>7. n - a + 1 \in 1 .. b - a + 1 /\ a + (n - a + 1) - 1 = n
        <5>1. n \in a .. b /\ a \in Int /\ b \in Int BY <4>1, <4>3
        <5> QED BY <5>1
      <4>8. Lines(a, b)[n - a + 1] = Slice0(n) BY <4>6, <4>7
      <4> QED BY <4>2, <4>4, <4>5, <4>6, <4>7, <4>8
    <3> QED BY <3>1, <3>2
  <2>1. PICK k \in 1..Len(c.text) : c.text[k] = Slice0(n) BY <2>0
  <2>2. c.text[k].length > 0 BY <1>5, <2>1 DEF Slice0
  <2>3. Told(ToSet(ps), Slice0(n)) BY <1>3, <2>1, <2>2
  <2>4. \A l : \A q \in ToSet(ps) : Holds(q, l) => \E p \in ToSet(cs) : Holds(p, l) BY <1>4 DEF Holds
  <2> QED BY <2>3, <2>4 DEF Told
<1>6. ASSUME nodes # <<>>, NEW p \in ToSet(cs)
      PROVE  \/ p.text = Lines(p.first, p.last)
             \/ p.first = p.last /\ Len(p.text) = 1 /\ p.text[1].line = p.first
  <2>1. PICK q \in ToSet(ps) : p.text = q.text /\ p.first = q.first /\ p.last = q.last BY <1>4
  <2>2. PICK c \in ToSet(found) : q = c \/ OfChunk(c, q) BY <1>3
  <2>3. q \in PieceSet BY DEF ToSet
  <2>4. PICK a \in 1..Len(source), b \in 1..Len(source) : a <= b /\ c = Piece(Lines(a, b), a, b)
    <3>1. found = Parsed BY <1>6, ParsedIs
    <3>2. PICK i \in DOMAIN Parsed : c = Parsed[i] BY <3>1 DEF ToSet
    <3> QED BY <3>2, ParsedIs
  <2>5. \/ q.text = Lines(q.first, q.last)
        \/ q.first = q.last /\ Len(q.text) = 1 /\ q.text[1].line = q.first
    BY <2>2, <2>3, <2>4, OfLinesIs
  <2> QED BY <2>1, <2>5
<1>7. ASSUME overlap = 0, NEW p \in ToSet(cs) PROVE Short(p)
  <2>1. PICK q \in ToSet(ps) : p.text = q.text BY <1>4
  <2>2. Short(q) BY <1>3, <1>7
  <2> QED BY <2>1, <2>2 DEF Short
<1>8. Tells(cs) BY <1>5, <1>6, <1>7 DEF Tells
<1> QED BY <1>3, <1>4, <1>8

ChunkingInv == FileOK /\ ChunksTellTheFile

\* Whatever the file, what a parser finds in it and how much is to be repeated,
\* its chunks tell it: no line is lost in windows, splits and slices, the range
\* of a chunk is what is in it, and without overlap none is longer than allowed.
THEOREM ChunksAlwaysTellTheFile == ChunkingSpec => []ChunksTellTheFile
<1>1. ChunkingInit => ChunkingInv BY DEF ChunkingInit, ChunkingInv, FileOK, ChunksTellTheFile
<1>2. ChunkingInv /\ [ChunkFile]_chunking => ChunkingInv'
  <2> SUFFICES ASSUME ChunkingInv, [ChunkFile]_chunking PROVE ChunkingInv' OBVIOUS
  <2>1. source' = source /\ nodes' = nodes /\ overlap' = overlap BY DEF ChunkFile, chunking
  <2>2. FileOK /\ FileOK' BY <2>1 DEF ChunkingInv, FileOK
  <2>3. chunks' # <<>> => Tells(chunks')
    <3>1. CASE UNCHANGED chunking
      <4>1. chunks' = chunks BY <3>1 DEF chunking
      <4>2. chunks # <<>> => Tells(chunks)
        BY DEF ChunkingInv, ChunksTellTheFile, Tells, Told, Short
      <4> QED BY <4>1, <4>2
    <3>2. CASE ChunkFile BY <2>2, <3>2, ChunkedTell DEF ChunkFile
    <3> QED BY <3>1, <3>2
  <2>4. Chunked' = Chunked BY <2>1 DEF Chunked
  <2>5. \A n : Slice0(n)' = Slice0(n) BY <2>1 DEF Slice0
  <2>6. \A a, b : Lines(a, b)' = Lines(a, b) BY <2>1 DEF Lines
  <2>7. ASSUME chunks' # <<>>
        PROVE  /\ \A n \in Chunked' : source'[n] > 0 => Told(ToSet(chunks'), Slice0(n)')
               /\ nodes' # <<>> => \A p \in ToSet(chunks') :
                     \/ p.text = Lines(p.first, p.last)'
                     \/ p.first = p.last /\ Len(p.text) = 1 /\ p.text[1].line = p.first
               /\ overlap' = 0 => \A p \in ToSet(chunks') : Short(p)
    BY <2>1, <2>3, <2>4, <2>5, <2>6, <2>7 DEF Tells
  <2>8. ChunksTellTheFile' BY <2>7 DEF ChunksTellTheFile, Told, Short
  <2> QED BY <2>2, <2>8 DEF ChunkingInv
<1>3. ChunkingInv => ChunksTellTheFile BY DEF ChunkingInv
<1> QED BY <1>1, <1>2, <1>3, PTL DEF ChunkingSpec
=============================================================================

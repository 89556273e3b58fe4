--------------------------- MODULE Embedding_proofs ---------------------------
(***************************************************************************)
(* What EmbedBatch, HttpPool and DescCache guarantee for every number of   *)
(* texts, batch size, number of retries and of requests at once, every set *)
(* of connections and requests, and every set of descriptions: that the    *)
(* services an index pass calls give every text what is its own.           *)
(***************************************************************************)
EXTENDS EmbedBatch, HttpPool, DescCache, SequenceTheorems, FiniteSetTheorems, TLAPS

-----------------------------------------------------------------------------
(* EmbedBatch: the texts, the retries and the breaker *)

\* A part of a batch that is still to be embedded.
BatchParts == [from : Texts, to : Texts, top : BOOLEAN, attempt : 0..RetryMax]

\* What the argument needs of the types.
EmbedTypes ==
    /\ stage \in [Batches -> {"queued", "running", "done"}]
    /\ work \in [Batches -> Seq(BatchParts)]
    /\ vector \in [Texts -> Texts \cup {Pending, NoVector}]
    /\ server \in {"up", "gateway", "refused"} /\ server0 \in {"up", "gateway", "refused"}
    /\ failedInARow \in Nat /\ tripped \in BOOLEAN /\ sent \in Nat
    /\ upsets \in Seq(Errors \cup {"server"})

\* The parts of a batch that are still to be embedded are cut from its texts one
\* after the other, and none of their texts has a vector.
Cut(b, parts, vectors) ==
    \A i \in DOMAIN parts :
        /\ parts[i].from <= parts[i].to
        /\ parts[i].from \in TextsOf(b) /\ parts[i].to \in TextsOf(b)
        /\ \A t \in parts[i].from .. parts[i].to : vectors[t] = Pending
        /\ parts[i].top => parts[i].from = Whole(b).from /\ parts[i].to = Whole(b).to
        /\ \A j \in DOMAIN parts : i < j => parts[i].to < parts[j].from

\* A batch has work left exactly while it runs, and that work is cut from its texts.
WorkIsCut ==
    \A b \in Batches :
        /\ stage[b] = "running" <=> work[b] # <<>>
        /\ Cut(b, work[b], vector)
        /\ stage[b] = "queued" => \A t \in TextsOf(b) : vector[t] = Pending

\* Some part still to be embedded has the text; no part was sent before.
Covers(parts, t) == \E i \in DOMAIN parts : t \in parts[i].from .. parts[i].to
Untried(parts) == \A i \in DOMAIN parts : parts[i].attempt = 0

\* With at most one answer lost, the breaker is closed, nothing has been tried
\* again before that loss, and no text but an oversized one is given up.
MendedSoFar ==
    server0 = "up" /\ OneLossIsMended =>
        /\ server = "up" /\ failedInARow = 0 /\ ~ tripped
        /\ upsets = <<>> => \A b \in Batches : Untried(work[b])
        /\ \A b \in Batches : \A t \in TextsOf(b) \ Oversized :
              vector[t] = t \/ stage[b] = "queued" \/ Covers(work[b], t)

\* The inductive invariant of the texts.
EmbedInv == EmbedTypes /\ WorkIsCut /\ VectorsBelong /\ MendedSoFar

-----------------------------------------------------------------------------
(* The texts and their batches. *)

\* Multiplying by a number keeps the order.
LEMMA TimesMonotonic ==
    ASSUME NEW x \in Nat, NEW y \in Nat, x <= y, NEW k \in Nat
    PROVE  x * k <= y * k
<1>1. (y - x) * k >= 0
  OBVIOUS
<1>2. y * k = x * k + (y - x) * k
  OBVIOUS
<1> QED BY <1>1, <1>2

\* Texts are positive numbers, and no mark that stands for a missing vector is one.
LEMMA TextsAreNumbers ==
    /\ Texts \subseteq Nat /\ Pending \notin Texts /\ NoVector \notin Texts
    /\ \A t \in Texts : t > 0
<1>1. Count * BatchSize \in Nat
  BY EmbedBatchAssumption
<1> QED BY <1>1 DEF Texts, Pending, NoVector

\* The texts of a batch are consecutive, and the whole batch is a part that was not sent yet.
LEMMA BatchesHaveTexts ==
    ASSUME NEW b \in Batches
    PROVE  /\ TextsOf(b) \subseteq Texts
           /\ Whole(b).from \in TextsOf(b) /\ Whole(b).to \in TextsOf(b)
           /\ Whole(b).from + BatchSize = Whole(b).to + 1
           /\ TextsOf(b) = Whole(b).from .. Whole(b).to
           /\ Whole(b) \in BatchParts /\ Whole(b).top /\ Whole(b).attempt = 0
<1>1. b \in Nat /\ b > 0 /\ b <= Count
  BY EmbedBatchAssumption DEF Batches
<1>2. (b - 1) * BatchSize \in Nat /\ b * BatchSize \in Nat /\ Count * BatchSize \in Nat
  BY <1>1, EmbedBatchAssumption
<1>3. b * BatchSize = (b - 1) * BatchSize + BatchSize
  BY <1>1, EmbedBatchAssumption
<1>4. b * BatchSize <= Count * BatchSize
  BY <1>1, TimesMonotonic, EmbedBatchAssumption
<1>5. (b - 1) * BatchSize + 1 \in Texts /\ b * BatchSize \in Texts
  BY <1>2, <1>3, <1>4, EmbedBatchAssumption DEF Texts
<1> HIDE DEF Texts
<1>6. Whole(b) \in BatchParts
  BY <1>5, EmbedBatchAssumption DEF Whole, BatchParts
<1>7. TextsOf(b) \subseteq Texts
  BY <1>2, <1>4 DEF TextsOf, Texts
<1> QED BY <1>2, <1>3, <1>6, <1>7, EmbedBatchAssumption DEF TextsOf, Whole

\* Between two texts of a batch there are only texts of it.
LEMMA BetweenTexts ==
    ASSUME NEW b \in Batches, NEW lo \in TextsOf(b), NEW hi \in TextsOf(b)
    PROVE  lo \in Nat /\ hi \in Nat /\ lo .. hi \subseteq TextsOf(b)
<1>1. (b - 1) * BatchSize + 1 \in Nat /\ b * BatchSize \in Nat
  BY EmbedBatchAssumption DEF Batches
<1> QED BY <1>1 DEF TextsOf

\* A text is in one batch only.
LEMMA BatchesAreDisjoint == \A b, c \in Batches : b # c => TextsOf(b) \cap TextsOf(c) = {}
<1> SUFFICES ASSUME NEW b \in Batches, NEW c \in Batches, b < c
             PROVE  TextsOf(b) \cap TextsOf(c) = {}
  BY EmbedBatchAssumption DEF Batches
<1>1. b * BatchSize <= (c - 1) * BatchSize
  BY TimesMonotonic, EmbedBatchAssumption DEF Batches
<1>2. b * BatchSize \in Nat /\ (c - 1) * BatchSize \in Nat
  BY EmbedBatchAssumption DEF Batches
<1> QED BY <1>1, <1>2, EmbedBatchAssumption DEF Batches, TextsOf

\* Every text is in a batch.
LEMMA TextsHaveBatches == \A t \in Texts : \E b \in Batches : t \in TextsOf(b)
<1> TAKE t \in Texts
<1> DEFINE k == (t - 1) \div BatchSize
<1>1. t \in Nat /\ t >= 1 /\ t <= Count * BatchSize
  BY EmbedBatchAssumption, TextsAreNumbers DEF Texts
<1>2. k \in Nat /\ k * BatchSize <= t - 1 /\ t - 1 < k * BatchSize + BatchSize
  <2>1. k \in Int /\ (t - 1) % BatchSize \in 0 .. BatchSize - 1
    BY <1>1, EmbedBatchAssumption
  <2>2. t - 1 = BatchSize * k + ((t - 1) % BatchSize)
    BY <1>1, EmbedBatchAssumption
  <2> QED BY <2>1, <2>2, <1>1, EmbedBatchAssumption
<1> HIDE DEF k
<1>3. k < Count
  <2> SUFFICES ASSUME Count <= k PROVE FALSE
    BY <1>2, EmbedBatchAssumption
  <2>1. Count * BatchSize <= k * BatchSize
    BY <1>2, TimesMonotonic, EmbedBatchAssumption
  <2> QED BY <2>1, <1>1, <1>2, EmbedBatchAssumption
<1>4. k + 1 \in Batches
  BY <1>2, <1>3, EmbedBatchAssumption DEF Batches
<1>5. t \in TextsOf(k + 1)
  BY <1>1, <1>2, EmbedBatchAssumption DEF TextsOf
<1> QED BY <1>4, <1>5

-----------------------------------------------------------------------------
(* Stacks of parts: without the first, with another first, with two for it. *)

\* What the head and the tail of a sequence are.
LEMMA HeadAndRest ==
    ASSUME NEW S, NEW w \in Seq(S), w # <<>>
    PROVE  /\ Len(w) \in Nat \ {0} /\ DOMAIN w = 1..Len(w)
           /\ Head(w) = w[1] /\ w[1] \in S
           /\ Tail(w) \in Seq(S) /\ Len(Tail(w)) = Len(w) - 1 /\ DOMAIN Tail(w) = 1 .. Len(w) - 1
           /\ \A i \in 1 .. Len(w) - 1 : Tail(w)[i] = w[i + 1]
<1>1. Len(w) \in Nat \ {0} /\ DOMAIN w = 1..Len(w) /\ Head(w) = w[1] /\ w[1] \in S
  OBVIOUS
<1>2. /\ Tail(w) \in Seq(S) /\ Len(Tail(w)) = Len(w) - 1
      /\ \A i \in 1 .. Len(Tail(w)) : Tail(w)[i] = w[i + 1]
  BY HeadTailProperties
<1>3. DOMAIN Tail(w) = 1 .. Len(Tail(w))
  BY <1>2
<1> QED BY <1>1, <1>2, <1>3

\* What a sequence with one element put before it is.
LEMMA OneAndRest ==
    ASSUME NEW S, NEW x \in S, NEW r \in Seq(S)
    PROVE  /\ <<x>> \o r \in Seq(S) /\ <<x>> \o r # <<>>
           /\ DOMAIN (<<x>> \o r) = 1 .. Len(r) + 1
           /\ (<<x>> \o r)[1] = x
           /\ \A i \in 1..Len(r) : (<<x>> \o r)[i + 1] = r[i]
<1> DEFINE v == <<x>> \o r
<1>1. <<x>> \in Seq(S) /\ Len(<<x>>) = 1 /\ <<x>>[1] = x /\ Len(r) \in Nat
  OBVIOUS
<1>2. /\ v \in Seq(S) /\ Len(v) = 1 + Len(r)
      /\ \A i \in 1 .. 1 + Len(r) : v[i] = IF i <= 1 THEN <<x>>[i] ELSE r[i - 1]
  BY <1>1, ConcatProperties
<1>3. DOMAIN v = 1 .. Len(r) + 1 /\ v # <<>>
  BY <1>1, <1>2
<1> HIDE DEF v
<1>4. v[1] = x
  BY <1>1, <1>2
<1>5. ASSUME NEW i \in 1..Len(r) PROVE v[i + 1] = r[i]
  <2>1. i + 1 \in 1 .. 1 + Len(r) /\ ~ (i + 1 <= 1) /\ (i + 1) - 1 = i
    BY <1>1
  <2> QED BY <2>1, <1>2
<1> QED BY <1>2, <1>3, <1>4, <1>5 DEF v

\* What a sequence with two elements put before it is.
LEMMA TwoAndRest ==
    ASSUME NEW S, NEW x \in S, NEW y \in S, NEW r \in Seq(S)
    PROVE  /\ <<x, y>> \o r \in Seq(S) /\ <<x, y>> \o r # <<>>
           /\ DOMAIN (<<x, y>> \o r) = 1 .. Len(r) + 2
           /\ (<<x, y>> \o r)[1] = x /\ (<<x, y>> \o r)[2] = y
           /\ \A i \in 1..Len(r) : (<<x, y>> \o r)[i + 2] = r[i]
<1> DEFINE v == <<x, y>> \o r
<1>1. /\ <<x, y>> \in Seq(S) /\ Len(<<x, y>>) = 2 /\ <<x, y>>[1] = x /\ <<x, y>>[2] = y
      /\ Len(r) \in Nat
  OBVIOUS
<1>2. /\ v \in Seq(S) /\ Len(v) = 2 + Len(r)
      /\ \A i \in 1 .. 2 + Len(r) : v[i] = IF i <= 2 THEN <<x, y>>[i] ELSE r[i - 2]
  BY <1>1, ConcatProperties
<1>3. DOMAIN v = 1 .. Len(r) + 2 /\ v # <<>>
  BY <1>1, <1>2
<1> HIDE DEF v
<1>4. v[1] = x /\ v[2] = y
  BY <1>1, <1>2
<1>5. ASSUME NEW i \in 1..Len(r) PROVE v[i + 2] = r[i]
  <2>1. i + 2 \in 1 .. 2 + Len(r) /\ ~ (i + 2 <= 2) /\ (i + 2) - 2 = i
    BY <1>1
  <2> QED BY <2>1, <1>2
<1> QED BY <1>2, <1>3, <1>4, <1>5 DEF v

\* The head was embedded or given up: what is left is still cut, whatever the
\* texts of the head have for a vector now.
LEMMA CutTail ==
    ASSUME NEW b \in Batches, NEW w \in Seq(BatchParts), w # <<>>, NEW v, NEW u, Cut(b, w, v),
           \A t \in Texts : t \notin w[1].from .. w[1].to => u[t] = v[t]
    PROVE  Cut(b, Tail(w), u)
<1> USE HeadAndRest, TextsAreNumbers
<1>1. \A i \in DOMAIN w : w[i] \in BatchParts
  OBVIOUS
<1> SUFFICES ASSUME NEW i \in DOMAIN Tail(w)
             PROVE  /\ Tail(w)[i].from <= Tail(w)[i].to
                    /\ Tail(w)[i].from \in TextsOf(b) /\ Tail(w)[i].to \in TextsOf(b)
                    /\ \A t \in Tail(w)[i].from .. Tail(w)[i].to : u[t] = Pending
                    /\ Tail(w)[i].top => Tail(w)[i].from = Whole(b).from /\ Tail(w)[i].to = Whole(b).to
                    /\ \A j \in DOMAIN Tail(w) : i < j => Tail(w)[i].to < Tail(w)[j].from
  BY DEF Cut
<1>2. i + 1 \in DOMAIN w /\ Tail(w)[i] = w[i + 1] /\ 1 \in DOMAIN w /\ 1 < i + 1
  OBVIOUS
<1>3. w[1].to < w[i + 1].from
  BY <1>2 DEF Cut
<1>4. ASSUME NEW t \in w[i + 1].from .. w[i + 1].to PROVE u[t] = Pending
  <2>1. t \in TextsOf(b)
    <3>1. w[i + 1].from \in TextsOf(b) /\ w[i + 1].to \in TextsOf(b)
      BY <1>2 DEF Cut
    <3> QED BY <3>1, BetweenTexts
  <2>2. t \in Texts
    BY <2>1, BatchesHaveTexts
  <2>3. t \notin w[1].from .. w[1].to
    <3>1. w[i + 1].from \in TextsOf(b) /\ w[1].to \in TextsOf(b)
      BY <1>2 DEF Cut
    <3>2. w[i + 1].from \in Nat /\ w[1].to \in Nat
      BY <3>1, BetweenTexts
    <3> QED BY <3>2, <1>3
  <2> QED BY <2>2, <2>3, <1>2 DEF Cut
<1>5. ASSUME NEW j \in DOMAIN Tail(w), i < j PROVE Tail(w)[i].to < Tail(w)[j].from
  <2>1. j + 1 \in DOMAIN w /\ Tail(w)[j] = w[j + 1] /\ i + 1 < j + 1
    BY <1>5
  <2> QED BY <1>2, <2>1 DEF Cut
<1> QED BY <1>2, <1>4, <1>5 DEF Cut

\* A text that is still to be embedded is in the first part or in one of the others.
LEMMA CoversTail ==
    ASSUME NEW w \in Seq(BatchParts), w # <<>>, NEW t, Covers(w, t)
    PROVE  t \in w[1].from .. w[1].to \/ Covers(Tail(w), t)
<1>1. PICK i \in DOMAIN w : t \in w[i].from .. w[i].to
  BY DEF Covers
<1>2. CASE i = 1
  BY <1>1, <1>2
<1>3. CASE i # 1
  <2>1. i - 1 \in DOMAIN Tail(w) /\ Tail(w)[i - 1] = w[i]
    BY <1>1, <1>3, HeadAndRest
  <2> QED BY <1>1, <2>1 DEF Covers
<1> QED BY <1>2, <1>3

\* The same part stays first, with one more attempt.
LEMMA CutAgain ==
    ASSUME NEW b \in Batches, NEW w \in Seq(BatchParts), w # <<>>, NEW v, Cut(b, w, v),
           NEW p \in BatchParts, p.from = w[1].from, p.to = w[1].to, p.top = w[1].top
    PROVE  Cut(b, <<p>> \o Tail(w), v) /\ \A t : Covers(w, t) => Covers(<<p>> \o Tail(w), t)
<1> DEFINE n == <<p>> \o Tail(w)
<1>1. /\ DOMAIN n = DOMAIN w /\ n[1] = p /\ DOMAIN w = 1..Len(w) /\ Len(w) \in Nat
      /\ \A i \in DOMAIN w : i # 1 => n[i] = w[i]
  <2>1. /\ DOMAIN n = 1 .. Len(Tail(w)) + 1 /\ n[1] = p
        /\ \A i \in 1 .. Len(Tail(w)) : n[i + 1] = Tail(w)[i]
    BY HeadAndRest, OneAndRest
  <2>2. ASSUME NEW i \in DOMAIN w, i # 1 PROVE n[i] = w[i]
    <3>1. i - 1 \in 1 .. Len(Tail(w)) /\ (i - 1) + 1 = i /\ Tail(w)[i - 1] = w[i]
      BY <2>2, HeadAndRest
    <3> QED BY <2>1, <3>1
  <2> QED BY <2>1, <2>2, HeadAndRest
<1> HIDE DEF n
<1>2. \A i \in DOMAIN w : n[i].from = w[i].from /\ n[i].to = w[i].to /\ n[i].top = w[i].top
  BY <1>1
<1>3. Cut(b, n, v)
  BY <1>1, <1>2 DEF Cut
<1>4. \A t : Covers(w, t) => Covers(n, t)
  BY <1>1, <1>2 DEF Covers
<1> QED BY <1>3, <1>4 DEF n

\* The part is cut in two.
LEMMA CutInTwo ==
    ASSUME NEW b \in Batches, NEW w \in Seq(BatchParts), w # <<>>, NEW v, Cut(b, w, v),
           w[1].from < w[1].to
    PROVE  LET n == Halves(w[1]) \o Tail(w)
           IN  /\ n \in Seq(BatchParts) /\ n # <<>> /\ Cut(b, n, v)
               /\ Untried(w) => Untried(n)
               /\ \A t : Covers(w, t) => Covers(n, t)
<1> DEFINE mid == w[1].from + (w[1].to - w[1].from) \div 2
           x == [from |-> w[1].from, to |-> mid, top |-> FALSE, attempt |-> 0]
           y == [from |-> mid + 1, to |-> w[1].to, top |-> FALSE, attempt |-> 0]
           n == <<x, y>> \o Tail(w)
<1>0. Halves(w[1]) = <<x, y>>
  BY DEF Halves
<1>1. /\ w[1] \in BatchParts /\ w[1].from \in Nat /\ w[1].to \in Nat /\ 1 \in DOMAIN w
      /\ w[1].from \in TextsOf(b) /\ w[1].to \in TextsOf(b)
  <2>1. w[1] \in BatchParts /\ 1 \in DOMAIN w
    BY HeadAndRest
  <2>2. w[1].from \in TextsOf(b) /\ w[1].to \in TextsOf(b)
    BY <2>1 DEF Cut
  <2> QED BY <2>1, <2>2, BetweenTexts
<1>2. mid \in Nat /\ w[1].from <= mid /\ mid < w[1].to
  BY <1>1
<1>3. mid \in TextsOf(b) /\ mid + 1 \in TextsOf(b) /\ mid \in Texts /\ mid + 1 \in Texts
  <2>1. mid \in TextsOf(b) /\ mid + 1 \in TextsOf(b)
    <3>1. mid \in w[1].from .. w[1].to /\ mid + 1 \in w[1].from .. w[1].to
      BY <1>1, <1>2
    <3> QED BY <3>1, <1>1, BetweenTexts
  <2> QED BY <2>1, BatchesHaveTexts
<1> HIDE DEF mid
<1>a. 0 \in 0..RetryMax
  BY EmbedBatchAssumption
<1>4. /\ x \in BatchParts /\ x.from = w[1].from /\ x.to = mid /\ ~ x.top /\ x.attempt = 0
  BY <1>a, <1>1, <1>3 DEF BatchParts
<1>5. /\ y \in BatchParts /\ y.from = mid + 1 /\ y.to = w[1].to /\ ~ y.top /\ y.attempt = 0
  BY <1>a, <1>1, <1>3 DEF BatchParts
<1> HIDE DEF x, y
<1>6. /\ n \in Seq(BatchParts) /\ n # <<>> /\ Len(w) \in Nat \ {0}
      /\ DOMAIN n = 1 .. Len(w) + 1 /\ n[1] = x /\ n[2] = y
      /\ DOMAIN w = 1 .. Len(w)
      /\ \A i \in DOMAIN w : i # 1 => n[i + 1] = w[i]
  <2>1. /\ n \in Seq(BatchParts) /\ n # <<>> /\ DOMAIN n = 1 .. Len(Tail(w)) + 2
        /\ n[1] = x /\ n[2] = y
        /\ \A i \in 1 .. Len(Tail(w)) : n[i + 2] = Tail(w)[i]
    BY <1>4, <1>5, HeadAndRest, TwoAndRest
  <2>2. ASSUME NEW i \in DOMAIN w, i # 1 PROVE n[i + 1] = w[i]
    <3>1. i - 1 \in 1 .. Len(Tail(w)) /\ (i - 1) + 2 = i + 1 /\ Tail(w)[i - 1] = w[i]
      BY <2>2, HeadAndRest
    <3> QED BY <2>1, <3>1
  <2> QED BY <2>1, <2>2, HeadAndRest
<1> HIDE DEF n
<1>7. \A i \in DOMAIN n : i \in {1, 2} \/ (i - 1 \in DOMAIN w /\ i - 1 # 1 /\ n[i] = w[i - 1])
  <2> TAKE i \in DOMAIN n
  <2>1. CASE i \notin {1, 2}
    <3>1. i - 1 \in DOMAIN w /\ i - 1 # 1 /\ (i - 1) + 1 = i
      BY <1>6, <2>1
    <3> QED BY <1>6, <3>1
  <2> QED BY <2>1
<1>8. \A i \in DOMAIN w : i # 1 => w[1].to < w[i].from
  BY <1>1, <1>6 DEF Cut
<1>9. Cut(b, n, v)
  <2>1. ASSUME NEW i \in DOMAIN n
        PROVE  /\ n[i].from <= n[i].to
               /\ n[i].from \in TextsOf(b) /\ n[i].to \in TextsOf(b)
               /\ \A t \in n[i].from .. n[i].to : v[t] = Pending
               /\ n[i].top => n[i].from = Whole(b).from /\ n[i].to = Whole(b).to
    <3>1. CASE i \in {1, 2}
      BY <3>1, <1>1, <1>2, <1>3, <1>4, <1>5, <1>6 DEF Cut
    <3>2. CASE i \notin {1, 2}
      BY <3>2, <1>7 DEF Cut
    <3> QED BY <3>1, <3>2
  <2>2. ASSUME NEW i \in DOMAIN n, NEW j \in DOMAIN n, i < j PROVE n[i].to < n[j].from
    <3>0. i \in Nat /\ j \in Nat /\ i >= 1
      BY <1>6
    <3>1. CASE j = 2
      BY <3>0, <3>1, <2>2, <1>2, <1>4, <1>5, <1>6
    <3>2. CASE j \notin {1, 2} /\ i \in {1, 2}
      <4>1. j - 1 \in DOMAIN w /\ n[j] = w[j - 1] /\ w[1].to < n[j].from
        BY <3>2, <1>7, <1>8
      <4>2. n[j].from \in Nat
        <5>1. n[j].from \in TextsOf(b)
          BY <4>1 DEF Cut
        <5> QED BY <5>1, BetweenTexts
      <4> QED BY <3>2, <4>1, <4>2, <1>1, <1>2, <1>4, <1>5, <1>6
    <3>3. CASE j \notin {1, 2} /\ i \notin {1, 2}
      <4>1. i - 1 \in DOMAIN w /\ n[i] = w[i - 1] /\ j - 1 \in DOMAIN w /\ n[j] = w[j - 1] /\ i - 1 < j - 1
        BY <3>0, <3>3, <2>2, <1>7
      <4> QED BY <4>1 DEF Cut
    <3> QED BY <3>0, <3>1, <3>2, <3>3, <2>2
  <2> QED BY <2>1, <2>2 DEF Cut
<1>10. Untried(w) => Untried(n)
  BY <1>4, <1>5, <1>6, <1>7 DEF Untried
<1>11. ASSUME NEW t, Covers(w, t) PROVE Covers(n, t)
  <2>1. PICK i \in DOMAIN w : t \in w[i].from .. w[i].to
    BY <1>11 DEF Covers
  <2>2. CASE i = 1
    <3>1. t \in x.from .. x.to \/ t \in y.from .. y.to
      BY <2>1, <2>2, <1>1, <1>2, <1>4, <1>5
    <3> QED BY <3>1, <1>6 DEF Covers
  <2>3. CASE i # 1
    <3>1. i + 1 \in DOMAIN n /\ n[i + 1] = w[i]
      BY <2>1, <2>3, <1>6
    <3> QED BY <2>1, <3>1 DEF Covers
  <2> QED BY <2>2, <2>3
<1> QED BY <1>0, <1>6, <1>9, <1>10, <1>11 DEF n


-----------------------------------------------------------------------------
(* What one request does to its batch. *)

\* The part that a running batch sends next, and that its texts have no vector.
LEMMA HeadOfTheWork ==
    ASSUME EmbedTypes, WorkIsCut, NEW b \in Batches, stage[b] = "running"
    PROVE  /\ work[b] \in Seq(BatchParts) /\ work[b] # <<>> /\ Head(work[b]) = work[b][1]
           /\ Tail(work[b]) \in Seq(BatchParts)
           /\ work[b][1] \in BatchParts /\ 1 \in DOMAIN work[b]
           /\ Cut(b, work[b], vector) /\ vector \in [Texts -> Texts \cup {Pending, NoVector}]
           /\ work[b][1].from \in TextsOf(b) /\ work[b][1].to \in TextsOf(b)
           /\ work[b][1].from <= work[b][1].to
           /\ work[b][1].from .. work[b][1].to \subseteq TextsOf(b)
           /\ work[b][1].from \in work[b][1].from .. work[b][1].to
           /\ \A t \in work[b][1].from .. work[b][1].to : vector[t] = Pending
<1>1. work[b] \in Seq(BatchParts) /\ vector \in [Texts -> Texts \cup {Pending, NoVector}]
  BY DEF EmbedTypes
<1>2. work[b] # <<>> /\ Cut(b, work[b], vector)
  BY DEF WorkIsCut
<1>3. /\ Head(work[b]) = work[b][1] /\ Tail(work[b]) \in Seq(BatchParts)
      /\ work[b][1] \in BatchParts /\ 1 \in DOMAIN work[b]
  BY <1>1, <1>2, HeadAndRest
<1>4. /\ work[b][1].from \in TextsOf(b) /\ work[b][1].to \in TextsOf(b)
      /\ work[b][1].from <= work[b][1].to
      /\ \A t \in work[b][1].from .. work[b][1].to : vector[t] = Pending
  BY <1>2, <1>3 DEF Cut
<1>5. /\ work[b][1].from \in Nat /\ work[b][1].to \in Nat
      /\ work[b][1].from .. work[b][1].to \subseteq TextsOf(b)
  BY <1>4, BetweenTexts
<1>6. work[b][1].from \in work[b][1].from .. work[b][1].to
  BY <1>4, <1>5
<1> QED BY <1>1, <1>2, <1>3, <1>4, <1>5, <1>6

\* The four things that embedRange does with what a request came back with: take the
\* vectors, ask again, cut the part in two, or leave its texts without a vector.
Embedded(b) ==
    /\ vector' = [t \in Texts |-> IF t \in work[b][1].from .. work[b][1].to THEN t ELSE vector[t]]
    /\ Finished(b, Tail(work[b]), TRUE)
AskedAgain(b, error) ==
    /\ TriedAgain(work[b][1], error)
    /\ Replaced(b, <<NextAttempt(work[b][1])>> \o Tail(work[b])) /\ vector' = vector
SplitInTwo(b, error) ==
    /\ work[b][1].from < work[b][1].to /\ Splittable(error) /\ ~ TriedAgain(work[b][1], error)
    /\ Replaced(b, Halves(work[b][1]) \o Tail(work[b])) /\ vector' = vector
Abandoned(b, error) ==
    /\ ~ TriedAgain(work[b][1], error)
    /\ ~ (work[b][1].from < work[b][1].to /\ Splittable(error))
    /\ vector' = GivenUp(work[b][1]) /\ Finished(b, Tail(work[b]), ~ work[b][1].top)

\* A part is embedded, asked for again, split or abandoned.
LEMMA HandleCases ==
    ASSUME EmbedTypes, WorkIsCut, NEW b \in Batches, stage[b] = "running",
           NEW error, Handle(b, error)
    PROVE  \/ error = "none" /\ Embedded(b)
           \/ error # "none" /\ AskedAgain(b, error)
           \/ error # "none" /\ SplitInTwo(b, error)
           \/ error # "none" /\ Abandoned(b, error)
<1> USE HeadOfTheWork
<1>1. CASE error = "none"
  <2>1. work[b][1].from \in Texts /\ work[b][1].from # Pending
    BY BatchesHaveTexts, TextsAreNumbers
  <2>2. Answered(work[b][1], error)[work[b][1].from] = work[b][1].from
    BY <1>1, <2>1 DEF Answered
  <2>3. Answered(work[b][1], error) # vector
    BY <2>1, <2>2
  <2> QED BY <1>1, <2>3 DEF Handle, Answered, Embedded
<1>2. CASE error # "none"
  <2>1. Answered(work[b][1], error) = vector
    BY <1>2 DEF Answered
  <2>2. CASE TriedAgain(work[b][1], error)
    BY <1>2, <2>1, <2>2 DEF Handle, AskedAgain
  <2>3. CASE ~ TriedAgain(work[b][1], error) /\ work[b][1].from < work[b][1].to /\ Splittable(error)
    BY <1>2, <2>1, <2>3 DEF Handle, SplitInTwo
  <2>4. CASE ~ TriedAgain(work[b][1], error) /\ ~ (work[b][1].from < work[b][1].to /\ Splittable(error))
    BY <1>2, <2>1, <2>4 DEF Handle, Abandoned
  <2> QED BY <2>2, <2>3, <2>4
<1> QED BY <1>1, <1>2

\* The part that is asked for again is the same part, tried once more.
LEMMA AgainIsAPart ==
    ASSUME NEW p \in BatchParts, NEW error, TriedAgain(p, error)
    PROVE  /\ NextAttempt(p) \in BatchParts /\ NextAttempt(p).attempt = p.attempt + 1
           /\ NextAttempt(p).from = p.from /\ NextAttempt(p).to = p.to /\ NextAttempt(p).top = p.top
<1>1. Retries(p) \in 0..RetryMax /\ p.attempt \in 0..RetryMax /\ p.attempt < Retries(p)
  BY EmbedBatchAssumption DEF Retries, TriedAgain, BatchParts
<1>2. p.attempt + 1 \in 0..RetryMax
  BY <1>1, EmbedBatchAssumption
<1> QED BY <1>2 DEF NextAttempt, BatchParts

\* A request changes its own batch, the vectors of its own texts and nothing
\* else, and leaves work that is cut from the texts that still have none.
LEMMA RequestShape ==
    ASSUME EmbedTypes, WorkIsCut, NEW b \in Batches, stage[b] = "running",
           NEW error, Handle(b, error)
    PROVE  /\ work'[b] \in Seq(BatchParts) /\ work' = [work EXCEPT ![b] = work'[b]]
           /\ stage' = [stage EXCEPT ![b] = IF work'[b] = <<>> THEN "done" ELSE "running"]
           /\ Cut(b, work'[b], vector')
           /\ vector' \in [Texts -> Texts \cup {Pending, NoVector}]
           /\ \A t \in Texts : vector'[t] \in {vector[t], t, NoVector}
           /\ \A t \in Texts \ TextsOf(b) : vector'[t] = vector[t]
           /\ failedInARow' \in Nat /\ tripped' \in BOOLEAN
<1> USE HeadOfTheWork
<1>0. /\ work \in [Batches -> Seq(BatchParts)] /\ failedInARow \in Nat /\ tripped \in BOOLEAN
      /\ stage \in [Batches -> {"queued", "running", "done"}]
  BY DEF EmbedTypes
<1>1. ASSUME vector' \in [Texts -> Texts \cup {Pending, NoVector}],
             \A t \in Texts : vector'[t] \in {vector[t], t, NoVector},
             \A t \in Texts : t \notin work[b][1].from .. work[b][1].to => vector'[t] = vector[t],
             NEW r \in BOOLEAN, Finished(b, Tail(work[b]), r)
      PROVE  /\ work'[b] \in Seq(BatchParts) /\ work' = [work EXCEPT ![b] = work'[b]]
             /\ stage' = [stage EXCEPT ![b] = IF work'[b] = <<>> THEN "done" ELSE "running"]
             /\ Cut(b, work'[b], vector')
             /\ \A t \in Texts \ TextsOf(b) : vector'[t] = vector[t]
             /\ failedInARow' \in Nat /\ tripped' \in BOOLEAN
  <2>1. work'[b] = Tail(work[b]) /\ work' = [work EXCEPT ![b] = work'[b]]
    BY <1>0, <1>1 DEF Finished
  <2>2. Cut(b, work'[b], vector')
    BY <2>1, <1>1, CutTail
  <2>3. stage' = [stage EXCEPT ![b] = IF work'[b] = <<>> THEN "done" ELSE "running"]
    BY <2>1, <1>0, <1>1 DEF Finished
  <2>4. \A t \in Texts \ TextsOf(b) : vector'[t] = vector[t]
    BY <1>1
  <2>5. failedInARow' \in Nat /\ tripped' \in BOOLEAN
    <3>1. CASE Tail(work[b]) = <<>>
      <4>1. Record(r)
        BY <1>1, <3>1 DEF Finished
      <4>2. failedInARow' \in Nat
        BY <4>1, <1>0 DEF Record
      <4>3. tripped' \in BOOLEAN
        BY <4>1, Zenon DEF Record
      <4> QED BY <4>2, <4>3
    <3>2. CASE Tail(work[b]) # <<>>
      BY <1>0, <1>1, <3>2 DEF Finished
    <3> QED BY <3>1, <3>2
  <2> QED BY <2>1, <2>2, <2>3, <2>4, <2>5
<1>2. ASSUME NEW n \in Seq(BatchParts), n # <<>>, Cut(b, n, vector), Replaced(b, n), vector' = vector
      PROVE  /\ work'[b] \in Seq(BatchParts) /\ work' = [work EXCEPT ![b] = work'[b]]
             /\ stage' = [stage EXCEPT ![b] = IF work'[b] = <<>> THEN "done" ELSE "running"]
             /\ Cut(b, work'[b], vector')
             /\ failedInARow' \in Nat /\ tripped' \in BOOLEAN
  <2>1. work'[b] = n /\ work' = [work EXCEPT ![b] = work'[b]]
    BY <1>0, <1>2 DEF Replaced
  <2>2. stage' = [stage EXCEPT ![b] = IF work'[b] = <<>> THEN "done" ELSE "running"]
    BY <2>1, <1>0, <1>2 DEF Replaced
  <2> QED BY <2>1, <2>2, <1>0, <1>2 DEF Replaced
<1>3. CASE Embedded(b)
  <2>1. /\ vector' \in [Texts -> Texts \cup {Pending, NoVector}]
        /\ \A t \in Texts : vector'[t] \in {vector[t], t, NoVector}
        /\ \A t \in Texts : t \notin work[b][1].from .. work[b][1].to => vector'[t] = vector[t]
    BY <1>3 DEF Embedded
  <2>2. Finished(b, Tail(work[b]), TRUE)
    BY <1>3 DEF Embedded
  <2> QED BY <2>1, <2>2, <1>1
<1>4. CASE AskedAgain(b, error)
  <2> DEFINE n == <<NextAttempt(work[b][1])>> \o Tail(work[b])
  <2>1. n \in Seq(BatchParts) /\ n # <<>> /\ Cut(b, n, vector)
    BY <1>4, AgainIsAPart, OneAndRest, CutAgain DEF AskedAgain
  <2>2. Replaced(b, n) /\ vector' = vector
    BY <1>4 DEF AskedAgain
  <2> HIDE DEF n
  <2> QED BY <2>1, <2>2, <1>2
<1>5. CASE SplitInTwo(b, error)
  <2> DEFINE n == Halves(work[b][1]) \o Tail(work[b])
  <2>1. n \in Seq(BatchParts) /\ n # <<>> /\ Cut(b, n, vector)
    BY <1>5, CutInTwo DEF SplitInTwo
  <2>2. Replaced(b, n) /\ vector' = vector
    BY <1>5 DEF SplitInTwo
  <2> HIDE DEF n
  <2> QED BY <2>1, <2>2, <1>2
<1>6. CASE Abandoned(b, error)
  <2>1. /\ vector' \in [Texts -> Texts \cup {Pending, NoVector}]
        /\ \A t \in Texts : vector'[t] \in {vector[t], t, NoVector}
        /\ \A t \in Texts : t \notin work[b][1].from .. work[b][1].to => vector'[t] = vector[t]
    BY <1>6 DEF Abandoned, GivenUp
  <2>2. Finished(b, Tail(work[b]), ~ work[b][1].top) /\ (~ work[b][1].top) \in BOOLEAN
    BY <1>6 DEF Abandoned
  <2> QED BY <2>1, <2>2, <1>1
<1> QED BY <1>3, <1>4, <1>5, <1>6, HandleCases



-----------------------------------------------------------------------------
(* The invariant. *)

\* What happens to the vectors of other texts leaves the work of a batch as it is.
LEMMA CutElsewhere ==
    ASSUME NEW b \in Batches, NEW parts, NEW v, NEW u, Cut(b, parts, v),
           \A t \in TextsOf(b) : u[t] = v[t]
    PROVE  Cut(b, parts, u)
<1> SUFFICES ASSUME NEW i \in DOMAIN parts, NEW t \in parts[i].from .. parts[i].to
             PROVE  u[t] = Pending
  BY DEF Cut
<1>1. parts[i].from \in TextsOf(b) /\ parts[i].to \in TextsOf(b) /\ v[t] = Pending
  BY DEF Cut
<1>2. t \in TextsOf(b)
  BY <1>1, BetweenTexts
<1> QED BY <1>1, <1>2

\* The server answers, or the request ends in one of the errors.
LEMMA VerdictsAreErrors ==
    ASSUME server \in {"up", "gateway", "refused"}, NEW part
    PROVE  Verdict(part) \in Errors \cup {"none"}
BY DEF Verdict, Errors

\* A request ends in what the server makes of it, or in an upset of its own.
LEMMA RequestCases ==
    ASSUME EmbedTypes, NEW b \in Batches, Request(b)
    PROVE  \E error \in Errors \cup {"none"} :
              /\ Handle(b, error)
              /\ \/ error = Verdict(Head(work[b])) /\ upsets' = upsets
                 \/ error \in Errors \ {"context"} /\ Upset(error)
BY VerdictsAreErrors DEF EmbedTypes, Request

\* A batch just started: all of its texts are in its one part.
LEMMA StartShape ==
    ASSUME EmbedTypes, WorkIsCut, NEW b \in Batches, Start(b), ~ tripped
    PROVE  /\ stage[b] = "queued" /\ stage' = [stage EXCEPT ![b] = "running"]
           /\ work' = [work EXCEPT ![b] = <<Whole(b)>>] /\ <<Whole(b)>> \in Seq(BatchParts)
           /\ vector' = vector /\ Cut(b, <<Whole(b)>>, vector) /\ Untried(<<Whole(b)>>)
           /\ \A t \in TextsOf(b) : Covers(<<Whole(b)>>, t)
<1>1. /\ stage[b] = "queued" /\ stage' = [stage EXCEPT ![b] = "running"]
      /\ work' = [work EXCEPT ![b] = <<Whole(b)>>] /\ vector' = vector
  BY DEF Start
<1>2. \A t \in TextsOf(b) : vector[t] = Pending
  BY <1>1 DEF WorkIsCut
<1>3. /\ <<Whole(b)>> \in Seq(BatchParts) /\ DOMAIN <<Whole(b)>> = {1} /\ <<Whole(b)>>[1] = Whole(b)
  BY BatchesHaveTexts
<1>4. /\ Whole(b).from <= Whole(b).to /\ TextsOf(b) = Whole(b).from .. Whole(b).to
  <2>1. Whole(b).from \in Nat /\ Whole(b).to \in Nat
    BY BatchesHaveTexts, BetweenTexts
  <2> QED BY <2>1, BatchesHaveTexts, EmbedBatchAssumption
<1>5. Cut(b, <<Whole(b)>>, vector)
  <2> SUFFICES ASSUME NEW i \in {1}
               PROVE  /\ Whole(b).from <= Whole(b).to
                      /\ Whole(b).from \in TextsOf(b) /\ Whole(b).to \in TextsOf(b)
                      /\ \A t \in Whole(b).from .. Whole(b).to : vector[t] = Pending
    BY <1>3 DEF Cut
  <2> QED BY <1>2, <1>4, BatchesHaveTexts
<1>6. Untried(<<Whole(b)>>) /\ \A t \in TextsOf(b) : Covers(<<Whole(b)>>, t)
  BY <1>3, <1>4, BatchesHaveTexts DEF Untried, Covers
<1> QED BY <1>1, <1>3, <1>5, <1>6

\* What holds whatever the server does.
EmbedBase == EmbedTypes /\ WorkIsCut /\ VectorsBelong

\* EmbedBase holds at the start.
LEMMA EmbedBaseInit == EmbedInit => EmbedBase
<1> SUFFICES ASSUME EmbedInit PROVE EmbedBase
  OBVIOUS
<1> USE DEF EmbedInit
<1>1. EmbedTypes
  <2>1. /\ stage \in [Batches -> {"queued", "running", "done"}]
        /\ work \in [Batches -> Seq(BatchParts)]
        /\ vector \in [Texts -> Texts \cup {Pending, NoVector}]
    OBVIOUS
  <2>2. tripped \in BOOLEAN
    BY Zenon
  <2>3. failedInARow \in Nat /\ sent \in Nat
    OBVIOUS
  <2>4. upsets \in Seq(Errors \cup {"server"})
    OBVIOUS
  <2> QED BY <2>1, <2>2, <2>3, <2>4 DEF EmbedTypes
<1>2. WorkIsCut
  BY BatchesHaveTexts DEF WorkIsCut, Cut
<1>3. VectorsBelong
  BY DEF VectorsBelong
<1> QED BY <1>1, <1>2, <1>3 DEF EmbedBase

\* No step leaves the types.
LEMMA EmbedTypesStep == EmbedTypes /\ WorkIsCut /\ [EmbedNext]_embed => EmbedTypes'
<1> SUFFICES ASSUME EmbedTypes, WorkIsCut, [EmbedNext]_embed PROVE EmbedTypes'
  OBVIOUS
<1>1. ASSUME NEW b \in Batches, Start(b) PROVE EmbedTypes'
  <2>1. CASE tripped
    <3>1. vector' \in [Texts -> Texts \cup {Pending, NoVector}]
      BY <1>1, <2>1 DEF Start, EmbedTypes
    <3> QED BY <1>1, <2>1, <3>1 DEF Start, EmbedTypes
  <2>2. CASE ~ tripped
    BY <1>1, <2>2, StartShape DEF Start, EmbedTypes
  <2> QED BY <2>1, <2>2
<1>2. ASSUME NEW b \in Batches, Request(b) PROVE EmbedTypes'
  <2>1. stage[b] = "running" /\ server' = server /\ server0' = server0
    BY <1>2 DEF Request
  <2>2. PICK error \in Errors \cup {"none"} :
           /\ Handle(b, error)
           /\ \/ error = Verdict(Head(work[b])) /\ upsets' = upsets
              \/ error \in Errors \ {"context"} /\ Upset(error)
    BY <1>2, RequestCases
  <2>3. /\ work'[b] \in Seq(BatchParts) /\ work' = [work EXCEPT ![b] = work'[b]]
        /\ stage' = [stage EXCEPT ![b] = IF work'[b] = <<>> THEN "done" ELSE "running"]
        /\ vector' \in [Texts -> Texts \cup {Pending, NoVector}]
        /\ failedInARow' \in Nat /\ tripped' \in BOOLEAN
    BY <2>1, <2>2, RequestShape
  <2>4. sent' \in Nat
    BY <2>2 DEF Handle, EmbedTypes
  <2>5. upsets' \in Seq(Errors \cup {"server"})
    <3>1. upsets' = upsets \/ \E kind \in Errors : upsets' = Append(upsets, kind)
      BY <2>2 DEF Upset
    <3>2. upsets \in Seq(Errors \cup {"server"})
      BY DEF EmbedTypes
    <3> QED BY <3>1, <3>2, AppendProperties
  <2>6. work' \in [Batches -> Seq(BatchParts)]
    BY <2>3 DEF EmbedTypes
  <2>7. stage' \in [Batches -> {"queued", "running", "done"}]
    BY <2>3 DEF EmbedTypes
  <2> QED BY <2>1, <2>3, <2>4, <2>5, <2>6, <2>7 DEF EmbedTypes
<1>3. CASE ServerChanges
  <2>1. upsets' \in Seq(Errors \cup {"server"})
    BY <1>3, AppendProperties DEF ServerChanges, Upset, EmbedTypes
  <2> QED BY <1>3, <2>1 DEF ServerChanges, EmbedTypes
<1>4. CASE UNCHANGED embed
  BY <1>4 DEF embed, EmbedTypes
<1> QED BY <1>1, <1>2, <1>3, <1>4 DEF EmbedNext

\* The batches that a step leaves alone are as they were.
LEMMA OthersStayCut ==
    ASSUME EmbedTypes, WorkIsCut, NEW b \in Batches,
           \A c \in Batches \ {b} : work'[c] = work[c] /\ stage'[c] = stage[c],
           \A t \in Texts \ TextsOf(b) : vector'[t] = vector[t],
           stage'[b] = "running" <=> work'[b] # <<>>, Cut(b, work'[b], vector'),
           stage'[b] # "queued"
    PROVE  WorkIsCut'
<1>1. ASSUME NEW c \in Batches, c # b
      PROVE  /\ stage'[c] = "running" <=> work'[c] # <<>>
             /\ Cut(c, work'[c], vector')
             /\ stage'[c] = "queued" => \A t \in TextsOf(c) : vector'[t] = Pending
  <2>1. \A t \in TextsOf(c) : vector'[t] = vector[t]
    BY <1>1, BatchesAreDisjoint, BatchesHaveTexts
  <2>2. Cut(c, work[c], vector)
    BY DEF WorkIsCut
  <2>3. Cut(c, work'[c], vector')
    BY <1>1, <2>1, <2>2, CutElsewhere
  <2> QED BY <1>1, <2>1, <2>3 DEF WorkIsCut
<1>2. WorkIsCut' <=> \A c \in Batches :
             /\ stage'[c] = "running" <=> work'[c] # <<>>
             /\ Cut(c, work'[c], vector')
             /\ stage'[c] = "queued" => \A t \in TextsOf(c) : vector'[t] = Pending
  BY DEF WorkIsCut, Cut, TextsOf, Whole, Pending, Batches
<1> QED BY <1>1, <1>2

\* No step makes two parts overlap, gives a text another one's vector or changes a vector.
LEMMA WorkStep == EmbedBase /\ [EmbedNext]_embed => WorkIsCut' /\ VectorsBelong'
<1> SUFFICES ASSUME EmbedTypes, WorkIsCut, VectorsBelong, [EmbedNext]_embed
             PROVE  WorkIsCut' /\ VectorsBelong'
  BY DEF EmbedBase
<1> USE DEF VectorsBelong
<1>0. /\ stage \in [Batches -> {"queued", "running", "done"}] /\ work \in [Batches -> Seq(BatchParts)]
      /\ vector \in [Texts -> Texts \cup {Pending, NoVector}]
  BY DEF EmbedTypes
<1>1. ASSUME NEW b \in Batches, Start(b) PROVE WorkIsCut' /\ VectorsBelong'
  <2>1. CASE tripped
    <3>1. /\ stage' = [stage EXCEPT ![b] = "done"] /\ work' = work
          /\ vector' = [t \in Texts |-> IF t \in TextsOf(b) THEN NoVector ELSE vector[t]]
          /\ stage[b] = "queued"
      BY <1>1, <2>1 DEF Start
    <3>2. work[b] = <<>>
      BY <3>1 DEF WorkIsCut
    <3>3. Cut(b, work'[b], vector')
      BY <3>1, <3>2 DEF Cut
    <3>4. WorkIsCut'
      BY <1>0, <3>1, <3>2, <3>3, OthersStayCut
    <3> QED BY <3>1, <3>4
  <2>2. CASE ~ tripped
    <3>1. /\ stage' = [stage EXCEPT ![b] = "running"] /\ work' = [work EXCEPT ![b] = <<Whole(b)>>]
          /\ vector' = vector /\ Cut(b, <<Whole(b)>>, vector)
      BY <1>1, <2>2, StartShape
    <3>2. work'[b] = <<Whole(b)>> /\ stage'[b] = "running"
      BY <1>0, <3>1
    <3>3. Cut(b, work'[b], vector')
      BY <3>1, <3>2
    <3>4. work'[b] # <<>>
      BY <3>2
    <3>5. WorkIsCut'
      BY <1>0, <3>1, <3>2, <3>3, <3>4, OthersStayCut
    <3> QED BY <3>1, <3>5
  <2> QED BY <2>1, <2>2
<1>2. ASSUME NEW b \in Batches, Request(b) PROVE WorkIsCut' /\ VectorsBelong'
  <2>1. stage[b] = "running"
    BY <1>2 DEF Request
  <2>2. PICK error : Handle(b, error)
    BY <1>2, RequestCases
  <2>3. /\ work' = [work EXCEPT ![b] = work'[b]]
        /\ stage' = [stage EXCEPT ![b] = IF work'[b] = <<>> THEN "done" ELSE "running"]
        /\ Cut(b, work'[b], vector')
        /\ \A t \in Texts : vector'[t] \in {vector[t], t, NoVector}
        /\ \A t \in Texts \ TextsOf(b) : vector'[t] = vector[t]
    BY <2>1, <2>2, RequestShape
  <2>4. /\ \A c \in Batches \ {b} : work'[c] = work[c] /\ stage'[c] = stage[c]
        /\ stage'[b] = "running" <=> work'[b] # <<>>
        /\ stage'[b] # "queued"
    BY <1>0, <2>3
  <2>5. WorkIsCut'
    BY <2>3, <2>4, OthersStayCut
  <2> QED BY <2>3, <2>5
<1>3. CASE ServerChanges
  BY <1>3 DEF ServerChanges, WorkIsCut, Cut
<1>4. CASE UNCHANGED embed
  BY <1>4 DEF embed, WorkIsCut, Cut
<1> QED BY <1>1, <1>2, <1>3, <1>4 DEF EmbedNext



\* What has gone wrong stays on record, so that the condition, once lost, is lost.
LEMMA LossesAddUp ==
    ASSUME EmbedTypes, [EmbedNext]_embed, server0' = "up", OneLossIsMended'
    PROVE  server0 = "up" /\ OneLossIsMended /\ ~ ServerChanges
<1>1. server0 = "up"
  BY DEF EmbedNext, Start, Request, ServerChanges, embed
<1>2. upsets' = upsets \/ \E kind \in Errors \cup {"server"} :
         upsets' = Append(upsets, kind) /\ (ServerChanges => kind = "server")
  BY DEF EmbedNext, Start, Request, ServerChanges, Upset, embed
<1>3. upsets \in Seq(Errors \cup {"server"})
  BY DEF EmbedTypes
<1>4. CASE upsets' = upsets
  <2>1. ~ ServerChanges
    <3> SUFFICES ASSUME ServerChanges PROVE FALSE
      OBVIOUS
    <3>1. Len(upsets') = Len(upsets) + 1
      BY <1>3, AppendProperties DEF ServerChanges, Upset
    <3> QED BY <1>3, <1>4, <3>1
  <2> QED BY <1>1, <1>4, <2>1 DEF OneLossIsMended
<1>5. ASSUME NEW kind \in Errors \cup {"server"}, upsets' = Append(upsets, kind),
             ServerChanges => kind = "server"
      PROVE  OneLossIsMended /\ ~ ServerChanges
  <2>1. /\ Len(upsets') = Len(upsets) + 1 /\ Len(upsets) \in Nat
        /\ DOMAIN upsets = 1..Len(upsets) /\ DOMAIN upsets' = 1 .. Len(upsets) + 1
        /\ \A i \in 1..Len(upsets) : upsets'[i] = upsets[i]
        /\ upsets'[Len(upsets) + 1] = kind
    BY <1>3, <1>5, AppendProperties
  <2>2. \A i \in DOMAIN upsets : i \in DOMAIN upsets' /\ upsets'[i] = upsets[i]
    BY <2>1
  <2>3. \A i \in DOMAIN upsets : upsets[i] \notin {"denied", "server"}
    BY <2>2 DEF OneLossIsMended
  <2>4. Len(upsets') <= IF RetryMax = 0 THEN 0 ELSE 1
    BY DEF OneLossIsMended
  <2>5. Len(upsets) <= IF RetryMax = 0 THEN 0 ELSE 1
    BY <2>1, <2>4
  <2>6. kind # "server"
    BY <2>1 DEF OneLossIsMended
  <2> QED BY <2>3, <2>5, <2>6, <1>5 DEF OneLossIsMended
<1> QED BY <1>1, <1>2, <1>4, <1>5

\* A batch that gets through leaves the breaker closed.
LEMMA SuccessKeepsItClosed ==
    ASSUME failedInARow = 0, ~ tripped, NEW b, NEW rest, Finished(b, rest, TRUE)
    PROVE  failedInARow' = 0 /\ ~ tripped'
<1>1. CASE rest = <<>>
  <2>1. Record(TRUE)
    BY <1>1 DEF Finished
  <2>2. failedInARow' = 0
    BY <2>1 DEF Record
  <2>3. ~ (MaxFailures > 0 /\ failedInARow' >= MaxFailures)
    BY <2>2, EmbedBatchAssumption
  <2> QED BY <2>1, <2>2, <2>3, Zenon DEF Record
<1>2. CASE rest # <<>>
  BY <1>2 DEF Finished
<1> QED BY <1>1, <1>2

\* The requests that are made while nothing worse has happened, one by one.
LEMMA RequestMends ==
    ASSUME EmbedBase, MendedSoFar, NEW b \in Batches, Request(b),
           server0 = "up", OneLossIsMended, OneLossIsMended'
    PROVE  /\ failedInARow' = 0 /\ ~ tripped'
           /\ upsets' = <<>> => Untried(work'[b])
           /\ \A t \in TextsOf(b) \ Oversized : vector'[t] = t \/ Covers(work'[b], t)
<1>0. /\ EmbedTypes /\ WorkIsCut /\ stage[b] = "running" /\ work \in [Batches -> Seq(BatchParts)]
      /\ vector \in [Texts -> Texts \cup {Pending, NoVector}]
  BY DEF EmbedBase, EmbedTypes, Request
<1>1. /\ server = "up" /\ failedInARow = 0 /\ ~ tripped
      /\ upsets = <<>> => Untried(work[b])
      /\ \A t \in TextsOf(b) \ Oversized : vector[t] = t \/ Covers(work[b], t)
  BY <1>0 DEF MendedSoFar
<1>2. /\ work[b] \in Seq(BatchParts) /\ work[b] # <<>> /\ Head(work[b]) = work[b][1]
      /\ Tail(work[b]) \in Seq(BatchParts) /\ work[b][1] \in BatchParts /\ 1 \in DOMAIN work[b]
      /\ work[b][1].from \in Nat /\ work[b][1].to \in Nat /\ work[b][1].from <= work[b][1].to
      /\ work[b][1].top => work[b][1].from = Whole(b).from /\ work[b][1].to = Whole(b).to
      /\ Cut(b, work[b], vector)
      /\ \A t \in work[b][1].from .. work[b][1].to : vector[t] = Pending
  BY <1>0, HeadOfTheWork, BetweenTexts DEF Cut
<1>3. PICK error \in Errors \cup {"none"} :
         /\ Handle(b, error)
         /\ \/ error = Verdict(Head(work[b])) /\ upsets' = upsets
            \/ error \in Errors \ {"context"} /\ Upset(error)
  BY <1>0, RequestCases
<1>4. CASE error = Verdict(Head(work[b])) /\ upsets' = upsets
  <2>1. \/ error = "none"
        \/ error = "context" /\ \E t \in work[b][1].from .. work[b][1].to : t \in Oversized
    BY <1>1, <1>2, <1>4 DEF Verdict
  <2>2. CASE error = "none"
    <3>1. Embedded(b)
      BY <1>0, <1>3, <2>2, HandleCases
    <3>2. work'[b] = Tail(work[b])
      BY <1>0, <3>1 DEF Embedded, Finished
    <3>3. failedInARow' = 0 /\ ~ tripped'
      BY <1>1, <3>1, SuccessKeepsItClosed DEF Embedded
    <3>4. Untried(work[b]) => Untried(work'[b])
      BY <1>2, <3>2, HeadAndRest DEF Untried
    <3>5. \A t \in TextsOf(b) : (vector[t] = t \/ Covers(work[b], t)) => (vector'[t] = t \/ Covers(work'[b], t))
      BY <1>2, <3>1, <3>2, CoversTail, BatchesHaveTexts DEF Embedded
    <3> QED BY <1>1, <1>4, <3>3, <3>4, <3>5
  <2>3. CASE error = "context" /\ \E t \in work[b][1].from .. work[b][1].to : t \in Oversized
    <3>1. ~ TriedAgain(work[b][1], error) /\ Splittable(error) /\ error # "none"
      BY <2>3 DEF TriedAgain, Permanent, Splittable
    <3>2. CASE SplitInTwo(b, error)
      <4>1. work[b][1].from < work[b][1].to
        BY <3>2 DEF SplitInTwo
      <4>2. work'[b] = Halves(work[b][1]) \o Tail(work[b]) /\ vector' = vector
        BY <1>0, <3>2 DEF SplitInTwo, Replaced
      <4>3. failedInARow' = 0 /\ ~ tripped'
        BY <1>1, <3>2 DEF SplitInTwo, Replaced
      <4>4. /\ Untried(work[b]) => Untried(work'[b])
            /\ \A t : Covers(work[b], t) => Covers(work'[b], t)
        BY <1>2, <4>1, <4>2, CutInTwo
      <4> QED BY <1>1, <1>4, <4>2, <4>3, <4>4
    <3>3. CASE Abandoned(b, error)
      <4>1. work[b][1].from = work[b][1].to
        BY <1>2, <3>1, <3>3 DEF Abandoned
      <4>2. ~ work[b][1].top
        <5>1. BatchSize > 1
          BY DEF OneLossIsMended
        <5>2. Whole(b).from + BatchSize = Whole(b).to + 1 /\ Whole(b).from \in Nat /\ Whole(b).to \in Nat
          BY BatchesHaveTexts, BetweenTexts
        <5> QED BY <1>2, <4>1, <5>1, <5>2, EmbedBatchAssumption
      <4>3. work'[b] = Tail(work[b]) /\ Finished(b, Tail(work[b]), TRUE)
        BY <1>0, <3>3, <4>2 DEF Abandoned, Finished
      <4>4. failedInARow' = 0 /\ ~ tripped'
        BY <1>1, <4>3, SuccessKeepsItClosed
      <4>5. Untried(work[b]) => Untried(work'[b])
        BY <1>2, <4>3, HeadAndRest DEF Untried
      <4>6. \A t \in Texts \ Oversized : vector'[t] = vector[t]
        <5>1. \A t \in work[b][1].from .. work[b][1].to : t \in Oversized
          BY <1>2, <2>3, <4>1
        <5> QED BY <3>3, <5>1 DEF Abandoned, GivenUp
      <4>7. \A t \in TextsOf(b) \ Oversized : Covers(work[b], t) => Covers(work'[b], t)
        BY <1>2, <2>3, <4>1, <4>3, CoversTail
      <4> QED BY <1>1, <1>4, <4>4, <4>5, <4>6, <4>7, BatchesHaveTexts
    <3> QED BY <1>0, <1>3, <3>1, <3>2, <3>3, HandleCases DEF AskedAgain
  <2> QED BY <2>1, <2>2, <2>3
<1>5. CASE error \in Errors \ {"context"} /\ Upset(error)
  <2>0. upsets \in Seq(Errors \cup {"server"}) /\ error \in Errors \cup {"server"}
    BY <1>0, <1>5 DEF EmbedTypes
  <2>1. /\ upsets' = Append(upsets, error) /\ Len(upsets') = Len(upsets) + 1 /\ Len(upsets) \in Nat
        /\ upsets'[Len(upsets) + 1] = error /\ DOMAIN upsets' = 1 .. Len(upsets) + 1
    BY <2>0, <1>5, AppendProperties DEF Upset
  <2>2. RetryMax > 0 /\ Len(upsets) = 0
    BY <2>1, EmbedBatchAssumption DEF OneLossIsMended
  <2>3. error # "denied" /\ error # "context" /\ error # "none"
    BY <1>5, <2>1 DEF OneLossIsMended, Errors
  <2>4. upsets = <<>> /\ upsets' # <<>>
    BY <2>0, <2>1, <2>2
  <2>5. work[b][1].attempt = 0
    BY <1>1, <1>2, <2>4 DEF Untried
  <2>6. TriedAgain(work[b][1], error)
    BY <2>2, <2>3, <2>5, EmbedBatchAssumption DEF TriedAgain, Retries, Permanent
  <2>7. AskedAgain(b, error)
    BY <1>0, <1>3, <2>3, <2>6, HandleCases DEF SplitInTwo, Abandoned
  <2>8. work'[b] = <<NextAttempt(work[b][1])>> \o Tail(work[b]) /\ vector' = vector
    BY <1>0, <2>7 DEF AskedAgain, Replaced
  <2>9. failedInARow' = 0 /\ ~ tripped'
    BY <1>1, <2>7 DEF AskedAgain, Replaced
  <2>10. \A t : Covers(work[b], t) => Covers(work'[b], t)
    BY <1>2, <2>6, <2>8, AgainIsAPart, CutAgain
  <2> QED BY <1>1, <2>4, <2>8, <2>9, <2>10
<1> QED BY <1>3, <1>4, <1>5



\* No step leaves a text without its vector as long as one loss at most has happened.
LEMMA MendedStep == EmbedBase /\ MendedSoFar /\ [EmbedNext]_embed => MendedSoFar'
<1> SUFFICES ASSUME EmbedBase, MendedSoFar, [EmbedNext]_embed, server0' = "up", OneLossIsMended'
             PROVE  /\ server' = "up" /\ failedInARow' = 0 /\ ~ tripped'
                    /\ upsets' = <<>> => \A b \in Batches : Untried(work'[b])
                    /\ \A b \in Batches : \A t \in TextsOf(b) \ Oversized :
                          vector'[t] = t \/ stage'[b] = "queued" \/ Covers(work'[b], t)
  BY DEF MendedSoFar, OneLossIsMended, Untried, Covers, TextsOf, Batches
<1>0. /\ EmbedTypes /\ WorkIsCut /\ work \in [Batches -> Seq(BatchParts)]
      /\ stage \in [Batches -> {"queued", "running", "done"}]
      /\ vector \in [Texts -> Texts \cup {Pending, NoVector}]
  BY DEF EmbedBase, EmbedTypes
<1>1. server0 = "up" /\ OneLossIsMended /\ ~ ServerChanges
  BY <1>0, LossesAddUp
<1>2. /\ server = "up" /\ failedInARow = 0 /\ ~ tripped
      /\ upsets = <<>> => \A b \in Batches : Untried(work[b])
      /\ \A b \in Batches : \A t \in TextsOf(b) \ Oversized :
            vector[t] = t \/ stage[b] = "queued" \/ Covers(work[b], t)
  BY <1>1 DEF MendedSoFar
<1>3. ASSUME NEW b \in Batches, Start(b)
      PROVE  /\ server' = "up" /\ failedInARow' = 0 /\ ~ tripped'
             /\ upsets' = <<>> => \A c \in Batches : Untried(work'[c])
             /\ \A c \in Batches : \A t \in TextsOf(c) \ Oversized :
                   vector'[t] = t \/ stage'[c] = "queued" \/ Covers(work'[c], t)
  <2>1. /\ stage' = [stage EXCEPT ![b] = "running"] /\ work' = [work EXCEPT ![b] = <<Whole(b)>>]
        /\ vector' = vector /\ Untried(<<Whole(b)>>) /\ \A t \in TextsOf(b) : Covers(<<Whole(b)>>, t)
    BY <1>0, <1>2, <1>3, StartShape
  <2>2. server' = server /\ failedInARow' = failedInARow /\ tripped' = tripped /\ upsets' = upsets
    BY <1>3 DEF Start
  <2>3. \A c \in Batches : IF c = b THEN work'[c] = <<Whole(b)>>
                           ELSE work'[c] = work[c] /\ stage'[c] = stage[c]
    BY <1>0, <2>1
  <2> QED BY <1>2, <2>1, <2>2, <2>3
<1>4. ASSUME NEW b \in Batches, Request(b)
      PROVE  /\ server' = "up" /\ failedInARow' = 0 /\ ~ tripped'
             /\ upsets' = <<>> => \A c \in Batches : Untried(work'[c])
             /\ \A c \in Batches : \A t \in TextsOf(c) \ Oversized :
                   vector'[t] = t \/ stage'[c] = "queued" \/ Covers(work'[c], t)
  <2>1. /\ failedInARow' = 0 /\ ~ tripped'
        /\ upsets' = <<>> => Untried(work'[b])
        /\ \A t \in TextsOf(b) \ Oversized : vector'[t] = t \/ Covers(work'[b], t)
    BY <1>1, <1>4, RequestMends
  <2>2. stage[b] = "running" /\ server' = server
    BY <1>4 DEF Request
  <2>3. PICK error : Handle(b, error)
    BY <1>0, <1>4, RequestCases
  <2>4. /\ work' = [work EXCEPT ![b] = work'[b]]
        /\ stage' = [stage EXCEPT ![b] = IF work'[b] = <<>> THEN "done" ELSE "running"]
        /\ \A t \in Texts \ TextsOf(b) : vector'[t] = vector[t]
    BY <1>0, <2>2, <2>3, RequestShape
  <2>5. \A c \in Batches \ {b} : work'[c] = work[c] /\ stage'[c] = stage[c]
    BY <1>0, <2>4
  <2>6. \A c \in Batches \ {b} : \A t \in TextsOf(c) : vector'[t] = vector[t]
    BY <2>4, BatchesAreDisjoint, BatchesHaveTexts
  <2>7. upsets' = <<>> => upsets = <<>>
    <3>1. upsets' = upsets \/ \E kind \in Errors : upsets' = Append(upsets, kind)
      BY <1>4 DEF Request, Upset
    <3>2. upsets \in Seq(Errors \cup {"server"})
      BY <1>0 DEF EmbedTypes
    <3> QED BY <3>1, <3>2, AppendProperties
  <2> QED BY <1>2, <2>1, <2>2, <2>5, <2>6, <2>7
<1>5. CASE UNCHANGED embed
  BY <1>2, <1>5 DEF embed
<1> QED BY <1>1, <1>3, <1>4, <1>5 DEF EmbedNext

\* The inductive invariant holds always.
LEMMA EmbedInvariant == EmbedSpec => [](EmbedBase /\ MendedSoFar)
<1>1. EmbedInit => MendedSoFar
  BY DEF EmbedInit, MendedSoFar, OneLossIsMended, Untried
<1>2. EmbedBase /\ MendedSoFar /\ [EmbedNext]_embed => EmbedBase' /\ MendedSoFar'
  BY EmbedTypesStep, WorkStep, MendedStep DEF EmbedBase
<1> QED BY <1>1, <1>2, EmbedBaseInit, PTL DEF EmbedSpec

\* embedBatch returns each text's own vector or none, and when at most one answer
\* is lost every text that fits the model has its vector in the end: no retry,
\* no halving of a batch and no neighbour that is too long costs it its place.
THEOREM EveryTextIsEmbedded == EmbedSpec => []TextsGetTheirVectors
<1>1. EmbedBase /\ MendedSoFar => TextsGetTheirVectors
  <2> SUFFICES ASSUME EmbedBase, MendedSoFar, EmbedDone, server0 = "up", OneLossIsMended,
                      NEW t \in Texts \ Oversized
               PROVE  vector[t] = t
    BY DEF TextsGetTheirVectors, EmbedBase
  <2>1. PICK b \in Batches : t \in TextsOf(b)
    BY TextsHaveBatches
  <2>2. vector[t] = t \/ Covers(work[b], t)
    BY <2>1 DEF MendedSoFar, EmbedDone
  <2>3. work[b] = <<>>
    BY DEF EmbedBase, WorkIsCut, EmbedDone
  <2> QED BY <2>2, <2>3 DEF Covers
<1> QED BY <1>1, EmbedInvariant, PTL



-----------------------------------------------------------------------------
(* A gateway that is down. *)

\* The requests made for the parts under way, but the one each is owed for.
Asked == {p \in Batches \X (1..RetryMax) : stage[p[1]] = "running" /\ p[2] <= work[p[1]][1].attempt}

\* The gateway has been down from the start, and the breaker is in use.
GatewayIsDown == MaxFailures > 0 /\ server0 = "gateway" /\ upsets = <<>>

\* Every batch is asked for as a whole, the breaker counts the batches given up,
\* and the requests are the attempts of those and of the batches under way.
OnlyFailures ==
    /\ server = "gateway" /\ (tripped \/ failedInARow < MaxFailures)
    /\ \A b \in Batches : stage[b] = "running" => Len(work[b]) = 1 /\ work[b][1].top
    /\ failedInARow + Cardinality(Running) <= MaxFailures + Concurrency - 1
    /\ sent <= failedInARow * (RetryMax + 1) + Cardinality(Asked)

\* The inductive invariant of the breaker.
GatewayInv == GatewayIsDown => OnlyFailures

\* There are finitely many batches under way, each with RetryMax retries at most.
LEMMA SomeBatches ==
    /\ IsFiniteSet(Running) /\ Cardinality(Running) \in Nat
    /\ IsFiniteSet(Asked) /\ Cardinality(Asked) \in Nat
    /\ Cardinality(Asked) <= Cardinality(Running) * RetryMax
<1>1. IsFiniteSet(Batches) /\ Running \subseteq Batches
  BY FS_Interval, EmbedBatchAssumption DEF Batches, Running
<1>2. IsFiniteSet(Running) /\ Cardinality(Running) \in Nat
  BY <1>1, FS_Subset, FS_CardinalityType
<1>3. IsFiniteSet(1..RetryMax) /\ Cardinality(1..RetryMax) = RetryMax
  BY FS_Interval, EmbedBatchAssumption
<1>4. /\ IsFiniteSet(Running \X (1..RetryMax))
      /\ Cardinality(Running \X (1..RetryMax)) = Cardinality(Running) * RetryMax
  BY <1>2, <1>3, FS_Product
<1>5. Asked \subseteq Running \X (1..RetryMax)
  BY DEF Asked, Running
<1> QED BY <1>2, <1>4, <1>5, FS_Subset, FS_CardinalityType

\* A batch that starts keeps the count: it starts with no request sent.
LEMMA GatewayStart ==
    ASSUME EmbedTypes, WorkIsCut, OnlyFailures, NEW b \in Batches, Start(b)
    PROVE  OnlyFailures'
<1> DEFINE R == Cardinality(Running)  R1 == Cardinality(Running)'
           A == Cardinality(Asked)  A1 == Cardinality(Asked)'
<1>0. /\ stage \in [Batches -> {"queued", "running", "done"}] /\ work \in [Batches -> Seq(BatchParts)]
      /\ failedInARow \in Nat /\ sent \in Nat
  BY DEF EmbedTypes
<1>1. /\ server' = server /\ failedInARow' = failedInARow /\ tripped' = tripped /\ sent' = sent
      /\ stage[b] = "queued" /\ R < Concurrency
  BY DEF Start
<1>2. CASE tripped
  <2>1. stage' = [stage EXCEPT ![b] = "done"] /\ work' = work
    BY <1>2 DEF Start
  <2>2. \A c \in Batches : stage'[c] = "running" <=> stage[c] = "running"
    BY <1>0, <1>1, <2>1
  <2>3. Running' = Running
    BY <2>2 DEF Running, Batches
  <2>4. Asked' = Asked
    BY <2>1, <2>2 DEF Asked, Batches
  <2> QED BY <1>1, <2>1, <2>2, <2>3, <2>4 DEF OnlyFailures, Batches
<1>3. CASE ~ tripped
  <2>1. stage' = [stage EXCEPT ![b] = "running"] /\ work' = [work EXCEPT ![b] = <<Whole(b)>>]
    BY <1>3, StartShape
  <2>2. \A c \in Batches : /\ stage'[c] = "running" <=> stage[c] = "running" \/ c = b
                           /\ c # b => work'[c] = work[c]
    BY <1>0, <2>1
  <2>3. work'[b] = <<Whole(b)>> /\ Len(work'[b]) = 1 /\ work'[b][1].top /\ work'[b][1].attempt = 0
    BY <1>0, <2>1, BatchesHaveTexts
  <2>4. Running' = Running \cup {b} /\ b \notin Running
    BY <1>1, <2>2 DEF Running, Batches
  <2>5. R1 = R + 1 /\ R \in Nat
    BY <2>4, SomeBatches, FS_AddElement
  <2>6. Asked' = Asked
    <3>1. \A p \in Batches \X (1..RetryMax) : p \in Asked <=> p \in Asked'
      BY <1>1, <2>2, <2>3, EmbedBatchAssumption DEF Asked, Batches
    <3> QED BY <3>1 DEF Asked, Batches
  <2>7. failedInARow < MaxFailures
    BY <1>3 DEF OnlyFailures
  <2>8. failedInARow + R1 <= MaxFailures + Concurrency - 1
    BY <1>0, <1>1, <2>5, <2>7, EmbedBatchAssumption
  <2>9. \A c \in Batches : stage'[c] = "running" => Len(work'[c]) = 1 /\ work'[c][1].top
    BY <2>2, <2>3 DEF OnlyFailures
  <2> QED BY <1>1, <2>6, <2>8, <2>9 DEF OnlyFailures, Batches
<1> QED BY <1>2, <1>3

\* A request to a gateway that is down keeps the count: it is a retry of its batch, or
\* its batch ends as one more failure in a row.
LEMMA GatewayRequest ==
    ASSUME EmbedTypes, WorkIsCut, OnlyFailures, NEW b \in Batches, Request(b)
    PROVE  OnlyFailures'
<1> DEFINE k == work[b][1].attempt
           R == Cardinality(Running)  R1 == Cardinality(Running)'
           A == Cardinality(Asked)  A1 == Cardinality(Asked)'
<1>0. /\ stage \in [Batches -> {"queued", "running", "done"}] /\ work \in [Batches -> Seq(BatchParts)]
      /\ failedInARow \in Nat /\ sent \in Nat
  BY DEF EmbedTypes
<1>1. /\ server' = server /\ server = "gateway" /\ stage[b] = "running"
      /\ Handle(b, "gateway") /\ sent' <= sent + 1
  <2>1. server' = server /\ server = "gateway" /\ stage[b] = "running"
    BY DEF Request, OnlyFailures
  <2>2. Handle(b, "gateway")
    BY <2>1 DEF Request, Verdict
  <2>3. sent' <= sent + 1
    BY <1>0, <2>2 DEF Handle
  <2> QED BY <2>1, <2>2, <2>3
<1>2. /\ work[b] # <<>> /\ work[b][1].top /\ Len(work[b]) = 1 /\ work[b][1] \in BatchParts
      /\ Tail(work[b]) = <<>> /\ k \in 0..RetryMax
  <2>1. work[b] # <<>> /\ work[b] \in Seq(BatchParts) /\ work[b][1] \in BatchParts
    BY <1>1, HeadOfTheWork
  <2>2. Len(work[b]) = 1 /\ work[b][1].top
    BY <1>1 DEF OnlyFailures
  <2>3. Tail(work[b]) \in Seq(BatchParts) /\ Len(Tail(work[b])) = 0
    BY <2>1, <2>2, HeadAndRest
  <2>4. Tail(work[b]) = <<>>
    BY <2>3, EmptySeq
  <2>5. k \in 0..RetryMax
    BY <2>1 DEF BatchParts
  <2> QED BY <2>1, <2>2, <2>4, <2>5
<1>3. R \in Nat /\ A \in Nat /\ IsFiniteSet(Running) /\ IsFiniteSet(Asked) /\ b \in Running
  BY <1>1, SomeBatches DEF Running
<1>4. /\ TriedAgain(work[b][1], "gateway") <=> k < RetryMax
      /\ ~ Splittable("gateway")
  BY <1>2 DEF TriedAgain, Retries, Permanent, Splittable
<1>5. CASE k < RetryMax
  <2>1. Replaced(b, <<NextAttempt(work[b][1])>> \o Tail(work[b]))
    BY <1>0, <1>1, <1>4, <1>5, HandleCases DEF AskedAgain, SplitInTwo, Abandoned
  <2>2. <<NextAttempt(work[b][1])>> \o Tail(work[b]) = <<NextAttempt(work[b][1])>>
    <3>1. NextAttempt(work[b][1]) \in BatchParts
      BY <1>2, <1>4, <1>5, AgainIsAPart
    <3>2. <<NextAttempt(work[b][1])>> \in Seq(BatchParts)
      BY <3>1
    <3> QED BY <1>2, <3>2, ConcatEmptySeq
  <2>3. /\ work' = [work EXCEPT ![b] = <<NextAttempt(work[b][1])>>] /\ stage' = stage
        /\ failedInARow' = failedInARow /\ tripped' = tripped
    BY <2>1, <2>2 DEF Replaced
  <2>4. /\ work'[b] = <<NextAttempt(work[b][1])>> /\ \A c \in Batches : c # b => work'[c] = work[c]
    BY <1>0, <2>3
  <2>5. work'[b][1].attempt = k + 1 /\ work'[b][1].top /\ Len(work'[b]) = 1
    BY <1>2, <1>4, <1>5, <2>4, AgainIsAPart
  <2>6. Running' = Running
    BY <2>3 DEF Running, Batches
  <2>7. Asked' = Asked \cup {<<b, k + 1>>}
    <3>0. <<b, k + 1>> \in Batches \X (1..RetryMax)
      BY <1>2, <1>5, EmbedBatchAssumption
    <3>1. \A p \in Batches \X (1..RetryMax) : p \in Asked' <=> p \in Asked \/ p = <<b, k + 1>>
      <4> TAKE p \in Batches \X (1..RetryMax)
      <4>1. /\ p \in Asked' <=> stage[p[1]] = "running" /\ p[2] <= work'[p[1]][1].attempt
            /\ p \in Asked <=> stage[p[1]] = "running" /\ p[2] <= work[p[1]][1].attempt
        BY <2>3 DEF Asked, Batches
      <4>2. CASE p[1] = b
        <5>1. p = <<b, k + 1>> <=> p[2] = k + 1
          BY <4>2
        <5>2. p[2] \in Nat /\ k \in Nat
          BY <1>2, EmbedBatchAssumption
        <5> QED BY <1>1, <2>5, <4>1, <4>2, <5>1, <5>2
      <4>3. CASE p[1] # b
        BY <2>4, <4>1, <4>3
      <4> QED BY <4>2, <4>3
    <3>2. Asked \subseteq Batches \X (1..RetryMax) /\ Asked' \subseteq Batches \X (1..RetryMax)
      BY DEF Asked, Batches
    <3> QED BY <3>0, <3>1, <3>2
  <2>8. <<b, k + 1>> \notin Asked
    BY <1>2, EmbedBatchAssumption DEF Asked
  <2>9. A1 = A + 1
    BY <1>3, <2>7, <2>8, FS_AddElement
  <2>10. sent' <= failedInARow' * (RetryMax + 1) + A1
    <3>1. sent <= failedInARow * (RetryMax + 1) + A
      BY DEF OnlyFailures
    <3>2. failedInARow * (RetryMax + 1) \in Nat /\ sent' \in Nat
      BY <1>0, <1>1, EmbedBatchAssumption DEF Handle
    <3> QED BY <1>0, <1>1, <1>3, <2>3, <2>9, <3>1, <3>2
  <2>11. \A c \in Batches : stage'[c] = "running" => Len(work'[c]) = 1 /\ work'[c][1].top
    BY <2>3, <2>4, <2>5 DEF OnlyFailures
  <2> QED BY <1>1, <2>3, <2>6, <2>10, <2>11 DEF OnlyFailures, Batches
<1>6. CASE ~ (k < RetryMax)
  <2>1. Finished(b, <<>>, FALSE)
    BY <1>0, <1>1, <1>2, <1>4, <1>6, HandleCases DEF AskedAgain, SplitInTwo, Abandoned
  <2>2. /\ work' = [work EXCEPT ![b] = <<>>] /\ stage' = [stage EXCEPT ![b] = "done"]
        /\ Record(FALSE)
    BY <2>1 DEF Finished
  <2>3. failedInARow' = failedInARow + 1
    BY <2>2 DEF Record
  <2>4. tripped' \/ failedInARow' < MaxFailures
    <3>1. CASE failedInARow' < MaxFailures
      BY <3>1
    <3>2. CASE ~ (failedInARow' < MaxFailures)
      <4>1. failedInARow' >= MaxFailures /\ (MaxFailures > 0 \/ MaxFailures = 0)
        BY <1>0, <2>3, <3>2, EmbedBatchAssumption
      <4>2. CASE MaxFailures > 0
        BY <2>2, <4>1, <4>2, Zenon DEF Record
      <4>3. CASE MaxFailures = 0
        <5>1. tripped
          BY <1>0, <4>3 DEF OnlyFailures
        <5> QED BY <5>1, <2>2, Zenon DEF Record
      <4> QED BY <4>1, <4>2, <4>3
    <3> QED BY <3>1, <3>2
  <2>5. \A c \in Batches : IF c = b THEN stage'[c] = "done"
                           ELSE stage'[c] = stage[c] /\ work'[c] = work[c]
    BY <1>0, <2>2
  <2>6. Running' = Running \ {b}
    BY <2>5 DEF Running, Batches
  <2>7. R1 = R - 1 /\ R1 \in Nat
    <3>1. R1 = R - 1
      BY <1>3, <2>6, FS_RemoveElement
    <3>2. IsFiniteSet(Running \ {b})
      BY <1>3, FS_RemoveElement
    <3> QED BY <3>1, <3>2, <2>6, FS_CardinalityType
  <2>8. k = RetryMax
    BY <1>2, <1>6, EmbedBatchAssumption
  <2> DEFINE own == {b} \X (1..RetryMax)
  <2>9. /\ IsFiniteSet(own) /\ Cardinality(own) = RetryMax
    <3>1. IsFiniteSet({b}) /\ Cardinality({b}) = 1
      BY FS_Singleton
    <3>2. IsFiniteSet(1..RetryMax) /\ Cardinality(1..RetryMax) = RetryMax
      BY FS_Interval, EmbedBatchAssumption
    <3> QED BY <3>1, <3>2, FS_Product, EmbedBatchAssumption
  <2>10. Asked = Asked' \cup own /\ Asked' \cap own = {}
    <3>1. own \subseteq Batches \X (1..RetryMax)
      OBVIOUS
    <3>2. \A p \in Batches \X (1..RetryMax) : /\ p \in own => p \in Asked /\ p \notin Asked'
                                              /\ p \notin own => (p \in Asked <=> p \in Asked')
      <4> TAKE p \in Batches \X (1..RetryMax)
      <4>1. /\ p \in Asked' <=> stage'[p[1]] = "running" /\ p[2] <= work'[p[1]][1].attempt
            /\ p \in Asked <=> stage[p[1]] = "running" /\ p[2] <= work[p[1]][1].attempt
        BY DEF Asked, Batches
      <4>2. p \in own <=> p[1] = b
        OBVIOUS
      <4>3. p[2] <= RetryMax
        BY EmbedBatchAssumption
      <4> QED BY <1>1, <2>5, <2>8, <4>1, <4>2, <4>3
    <3>3. Asked \subseteq Batches \X (1..RetryMax) /\ Asked' \subseteq Batches \X (1..RetryMax)
      BY DEF Asked, Batches
    <3> QED BY <3>1, <3>2, <3>3
  <2>11. A = A1 + RetryMax /\ A1 \in Nat
    <3>1. IsFiniteSet(Asked')
      BY <1>3, <2>10, FS_Subset
    <3>2. Cardinality(Asked' \cup own) = A1 + RetryMax - Cardinality(Asked' \cap own) /\ A1 \in Nat
      BY <2>9, <3>1, FS_Union, FS_CardinalityType
    <3> QED BY <3>2, <2>10, FS_EmptySet, EmbedBatchAssumption
  <2>12. sent' <= failedInARow' * (RetryMax + 1) + A1
    <3>1. sent <= failedInARow * (RetryMax + 1) + A
      BY DEF OnlyFailures
    <3>2. /\ failedInARow * (RetryMax + 1) \in Nat /\ sent' \in Nat
          /\ (failedInARow + 1) * (RetryMax + 1) = failedInARow * (RetryMax + 1) + (RetryMax + 1)
      BY <1>0, <1>1, EmbedBatchAssumption DEF Handle
    <3> HIDE DEF A, A1
    <3> QED BY <1>0, <1>1, <2>3, <2>11, <3>1, <3>2, EmbedBatchAssumption
  <2>13. failedInARow' + R1 <= MaxFailures + Concurrency - 1
    <3>1. failedInARow + R <= MaxFailures + Concurrency - 1
      BY DEF OnlyFailures
    <3> HIDE DEF R, R1
    <3> QED BY <1>0, <1>3, <2>3, <2>7, <3>1, EmbedBatchAssumption
  <2>14. \A c \in Batches : stage'[c] = "running" => Len(work'[c]) = 1 /\ work'[c][1].top
    BY <2>5 DEF OnlyFailures
  <2> QED BY <1>1, <2>4, <2>12, <2>13, <2>14 DEF OnlyFailures, Batches
<1> QED BY <1>5, <1>6

\* The inductive invariant of the breaker holds always.
LEMMA GatewayInvariant == EmbedSpec => []GatewayInv
<1>1. EmbedInit => GatewayInv
  <2> SUFFICES ASSUME EmbedInit, GatewayIsDown PROVE OnlyFailures
    BY DEF GatewayInv
  <2> USE DEF EmbedInit
  <2>1. Running = {} /\ Cardinality(Running) = 0
    BY FS_EmptySet DEF Running
  <2>2. /\ failedInARow < MaxFailures /\ failedInARow + 0 <= MaxFailures + Concurrency - 1
        /\ sent <= failedInARow * (RetryMax + 1) + Cardinality(Asked)
    BY SomeBatches, EmbedBatchAssumption DEF GatewayIsDown
  <2>3. \A b \in Batches : stage[b] # "running"
    OBVIOUS
  <2> QED BY <2>1, <2>2, <2>3 DEF OnlyFailures, GatewayIsDown
<1>2. EmbedTypes /\ WorkIsCut /\ GatewayInv /\ [EmbedNext]_embed => GatewayInv'
  <2> SUFFICES ASSUME EmbedTypes, WorkIsCut, GatewayInv, [EmbedNext]_embed, GatewayIsDown'
               PROVE  OnlyFailures'
    BY DEF GatewayInv
  <2>1. upsets' = upsets \/ \E kind : upsets' = Append(upsets, kind) /\ kind \in Errors \cup {"server"}
    BY DEF EmbedNext, Start, Request, ServerChanges, Upset, embed, Errors
  <2>2. upsets \in Seq(Errors \cup {"server"})
    BY DEF EmbedTypes
  <2>3. upsets' = upsets
    BY <2>1, <2>2, AppendProperties DEF GatewayIsDown
  <2>4. ~ ServerChanges
    <3> SUFFICES ASSUME ServerChanges PROVE FALSE
      OBVIOUS
    <3>1. Len(upsets') = Len(upsets) + 1
      BY <2>2, AppendProperties DEF ServerChanges, Upset
    <3> QED BY <2>2, <2>3, <3>1
  <2>5. OnlyFailures
    BY <2>3 DEF GatewayInv, GatewayIsDown, EmbedNext, Start, Request, ServerChanges, embed
  <2>6. CASE UNCHANGED embed
    BY <2>5, <2>6 DEF embed, OnlyFailures, Running, Asked
  <2> QED BY <2>4, <2>5, <2>6, GatewayStart, GatewayRequest DEF EmbedNext
<1>3. EmbedBase /\ MendedSoFar => EmbedTypes /\ WorkIsCut
  BY DEF EmbedBase
<1> QED BY <1>1, <1>2, <1>3, EmbedInvariant, PTL DEF EmbedSpec

\* However many texts there are, a gateway that is down throughout is asked at
\* most as often as the failures that trip the breaker and the other batches
\* under way at that moment can ask, each with all of its retries.
THEOREM TheBreakerStopsTheRequests == EmbedSpec => []DeadGatewayLeftAlone
<1>1. EmbedBase /\ GatewayInv => DeadGatewayLeftAlone
  <2> SUFFICES ASSUME EmbedTypes, OnlyFailures PROVE sent <= MaxSent
    BY DEF DeadGatewayLeftAlone, GatewayInv, GatewayIsDown, EmbedBase
  <2> DEFINE f == failedInARow  R == Cardinality(Running)  A == Cardinality(Asked)
             m == MaxFailures + Concurrency - 1
  <2>1. f \in Nat /\ R \in Nat /\ A \in Nat /\ A <= R * RetryMax /\ m \in Nat /\ sent \in Nat
    BY SomeBatches, EmbedBatchAssumption DEF EmbedTypes
  <2>2. f + R <= m /\ sent <= f * (RetryMax + 1) + A
    BY DEF OnlyFailures
  <2> HIDE DEF f, R, A, m
  <2>3. (f + R) * (RetryMax + 1) <= m * (RetryMax + 1)
    BY <2>1, <2>2, TimesMonotonic, EmbedBatchAssumption
  <2>4. /\ (f + R) * (RetryMax + 1) = f * (RetryMax + 1) + R * RetryMax + R
        /\ f * (RetryMax + 1) \in Nat /\ R * RetryMax \in Nat /\ m * (RetryMax + 1) \in Nat
    BY <2>1, EmbedBatchAssumption
  <2>5. sent <= m * (RetryMax + 1)
    BY <2>1, <2>2, <2>3, <2>4
  <2> QED BY <2>5 DEF MaxSent, m
<1> QED BY <1>1, EmbedInvariant, GatewayInvariant, PTL

-----------------------------------------------------------------------------
(* HttpPool: the connections *)

\* What is owed on a usable connection is the answer to the request that uses
\* it, and a connection that nobody uses owes nothing.  An idle timer runs for
\* connections of the pool only.
SocketsOweOne ==
    /\ \A r \in Requests : request[r].state = "sent" =>
          request[r].socket \in usable /\ asked[request[r].socket] = <<r>>
    /\ \A s \in usable \ InUse : asked[s] = <<>>
    /\ timer \subseteq ToSet(pool)
    /\ InUse \cap ToSet(pool) = {} /\ IsInjective(pool) /\ Len(pool) <= MaxPool

\* Every answer is that of its request, and no request was destroyed.
AnswersFit ==
    \A r \in Requests : /\ request[r].state = "answered" => request[r].answer = r
                        /\ ~ request[r].destroyed

\* The inductive invariant of the pool.
PoolInv == PoolTypeOK /\ SocketsOweOne /\ AnswersFit

-----------------------------------------------------------------------------
\* What is left of a sequence without repetitions: its beginning, all but one
\* element, and all of it with one more.
LEMMA BeginningOfPool ==
    ASSUME NEW S, NEW p \in Seq(S), IsInjective(p), NEW n \in 0..Len(p)
    PROVE  LET q == SubSeq(p, 1, n - 1)
           IN  /\ q \in Seq(S) /\ IsInjective(q) /\ Len(q) <= Len(p)
               /\ ToSet(q) = {p[i] : i \in {i \in DOMAIN p : i < n}}
<1> DEFINE q == SubSeq(p, 1, n - 1)
<1>1. \A i \in 1 .. n - 1 : p[i] \in S
  OBVIOUS
<1>2. /\ q \in Seq(S)
      /\ Len(q) = IF 1 <= n - 1 THEN n - 1 ELSE 0
      /\ \A i \in 1 .. n - 1 : q[i] = p[i]
  <2>1. /\ q \in Seq(S)
        /\ Len(q) = IF 1 <= n - 1 THEN (n - 1) - 1 + 1 ELSE 0
        /\ \A i \in 1 .. (n - 1) - 1 + 1 : q[i] = p[1 + i - 1]
    BY <1>1, SubSeqProperties
  <2> QED BY <2>1
<1>3. DOMAIN q = 1 .. n - 1 /\ DOMAIN p = 1 .. Len(p)
  BY <1>2
<1> HIDE DEF q
<1>4. IsInjective(q)
  BY <1>2, <1>3 DEF IsInjective
<1>5. ToSet(q) = {p[i] : i \in {i \in DOMAIN p : i < n}}
  BY <1>2, <1>3 DEF ToSet
<1> QED BY <1>2, <1>4, <1>5 DEF q

\* What a pool without one of its connections holds.
LEMMA PoolWithoutOne ==
    ASSUME NEW S, NEW p \in Seq(S), IsInjective(p), NEW k \in DOMAIN p
    PROVE  LET q == RemoveAt(p, k)
           IN  /\ q \in Seq(S) /\ IsInjective(q) /\ Len(q) <= Len(p)
               /\ ToSet(q) = ToSet(p) \ {p[k]}
<1> DEFINE a == SubSeq(p, 1, k - 1)
           b == SubSeq(p, k + 1, Len(p))
           q == a \o b
<1>0. k \in 1..Len(p) /\ Len(p) \in Nat /\ DOMAIN p = 1..Len(p)
  OBVIOUS
<1>1. a \in Seq(S) /\ Len(a) = k - 1 /\ \A i \in 1 .. k - 1 : a[i] = p[i]
  <2>1. /\ a \in Seq(S)
        /\ Len(a) = IF 1 <= k - 1 THEN (k - 1) - 1 + 1 ELSE 0
        /\ \A i \in 1 .. (k - 1) - 1 + 1 : a[i] = p[1 + i - 1]
    BY <1>0, SubSeqProperties
  <2> QED BY <2>1, <1>0
<1>2. b \in Seq(S) /\ Len(b) = Len(p) - k /\ \A i \in 1 .. Len(p) - k : b[i] = p[k + i]
  <2>1. /\ b \in Seq(S)
        /\ Len(b) = IF k + 1 <= Len(p) THEN Len(p) - (k + 1) + 1 ELSE 0
        /\ \A i \in 1 .. Len(p) - (k + 1) + 1 : b[i] = p[k + 1 + i - 1]
    BY <1>0, SubSeqProperties
  <2>2. \A i \in 1 .. Len(p) - k : k + 1 + i - 1 = k + i
    BY <1>0
  <2>3. Len(p) - (k + 1) + 1 = Len(p) - k
    BY <1>0
  <2> HIDE DEF b
  <2>4. Len(b) = Len(p) - k
    BY <2>1, <1>0
  <2>5. \A i \in 1 .. Len(p) - k : b[i] = p[k + i]
    BY <2>1, <2>2, <2>3
  <2> QED BY <2>1, <2>4, <2>5
<1> HIDE DEF a, b
<1>3. /\ q \in Seq(S) /\ Len(q) = Len(p) - 1
      /\ \A i \in 1 .. Len(p) - 1 : q[i] = IF i < k THEN p[i] ELSE p[i + 1]
  <2>1. /\ q \in Seq(S) /\ Len(q) = Len(a) + Len(b)
        /\ \A i \in 1 .. Len(a) + Len(b) : q[i] = IF i <= Len(a) THEN a[i] ELSE b[i - Len(a)]
    BY <1>1, <1>2, ConcatProperties
  <2>2. \A i \in 1 .. Len(p) - 1 : i < k => q[i] = p[i]
    BY <2>1, <1>0, <1>1, <1>2
  <2>3. ASSUME NEW i \in 1 .. Len(p) - 1, ~ (i < k) PROVE q[i] = p[i + 1]
    <3>1. q[i] = b[i - (k - 1)] /\ i - (k - 1) \in 1 .. Len(p) - k
      BY <2>1, <2>3, <1>0, <1>1, <1>2, SMTT(30)
    <3>2. k + (i - (k - 1)) = i + 1
      BY <1>0
    <3> QED BY <3>1, <3>2, <1>2
  <2> QED BY <2>1, <2>2, <2>3, <1>0, <1>1, <1>2
<1>4. DOMAIN q = 1 .. Len(p) - 1
  BY <1>3
<1> HIDE DEF q
<1>5. IsInjective(q)
  <2> SUFFICES ASSUME NEW i \in DOMAIN q, NEW j \in DOMAIN q, q[i] = q[j] PROVE i = j
    BY DEF IsInjective
  <2>1. i \in DOMAIN p /\ i + 1 \in DOMAIN p /\ j \in DOMAIN p /\ j + 1 \in DOMAIN p
    BY <1>0, <1>4
  <2>2. /\ q[i] = IF i < k THEN p[i] ELSE p[i + 1]
        /\ q[j] = IF j < k THEN p[j] ELSE p[j + 1]
    BY <1>3, <1>4
  <2>3. (IF i < k THEN i ELSE i + 1) = IF j < k THEN j ELSE j + 1
    BY <2>1, <2>2 DEF IsInjective
  <2> QED BY <1>0, <1>4, <2>3
<1>6. ToSet(q) = ToSet(p) \ {p[k]}
  <2>1. ASSUME NEW i \in DOMAIN q PROVE q[i] \in ToSet(p) \ {p[k]}
    <3>1. \/ q[i] = p[i] /\ i # k /\ i \in DOMAIN p
          \/ q[i] = p[i + 1] /\ i + 1 # k /\ i + 1 \in DOMAIN p
      BY <1>0, <1>3, <1>4
    <3> QED BY <1>0, <3>1 DEF ToSet, IsInjective
  <2>2. ASSUME NEW j \in DOMAIN p, p[j] # p[k] PROVE p[j] \in ToSet(q)
    <3>1. CASE j < k
      BY <3>1, <1>0, <1>3, <1>4 DEF ToSet
    <3>2. CASE j > k
      <4>1. j - 1 \in DOMAIN q /\ q[j - 1] = p[j]
        BY <3>2, <1>0, <1>3, <1>4
      <4> QED BY <4>1 DEF ToSet
    <3> QED BY <2>2, <3>1, <3>2, <1>0
  <2> QED BY <2>1, <2>2 DEF ToSet
<1> QED BY <1>0, <1>3, <1>5, <1>6 DEF q, a, b, RemoveAt

\* What a pool with one more connection holds.
LEMMA PoolWithOneMore ==
    ASSUME NEW S, NEW p \in Seq(S), IsInjective(p), NEW x \in S, x \notin ToSet(p)
    PROVE  /\ Append(p, x) \in Seq(S) /\ IsInjective(Append(p, x))
           /\ Len(Append(p, x)) = Len(p) + 1
           /\ ToSet(Append(p, x)) = ToSet(p) \cup {x}
<1> DEFINE q == Append(p, x)
<1>1. /\ q \in Seq(S) /\ Len(q) = Len(p) + 1 /\ Len(p) \in Nat
      /\ \A i \in 1 .. Len(p) : q[i] = p[i]
      /\ q[Len(p) + 1] = x
  BY AppendProperties
<1>2. DOMAIN q = 1 .. Len(p) + 1 /\ DOMAIN p = 1 .. Len(p)
  BY <1>1
<1> HIDE DEF q
<1>3. IsInjective(q)
  BY <1>1, <1>2 DEF IsInjective, ToSet
<1>4. ToSet(q) = ToSet(p) \cup {x}
  <2>1. ASSUME NEW i \in DOMAIN q PROVE q[i] \in ToSet(p) \cup {x}
    BY <1>1, <1>2 DEF ToSet
  <2>2. ASSUME NEW j \in DOMAIN p PROVE p[j] \in ToSet(q)
    BY <1>1, <1>2 DEF ToSet
  <2>3. x \in ToSet(q)
    BY <1>1, <1>2 DEF ToSet
  <2> QED BY <2>1, <2>2, <2>3 DEF ToSet
<1> QED BY <1>1, <1>3, <1>4 DEF q

-----------------------------------------------------------------------------
\* The pool's invariant holds at the start.
LEMMA PoolInitial == PoolInit => PoolInv
<1> SUFFICES ASSUME PoolInit PROVE PoolInv
  OBVIOUS
<1>1. InUse = {}
  BY DEF PoolInit, InUse
<1>2. PoolTypeOK
  BY DEF PoolInit, PoolTypeOK
<1>3. ToSet(pool) = {} /\ IsInjective(pool) /\ Len(pool) <= MaxPool
  BY HttpPoolAssumption DEF PoolInit, ToSet, IsInjective
<1> QED BY <1>1, <1>2, <1>3 DEF PoolInit, PoolInv, SocketsOweOne, AnswersFit

\* A connection in use is so by one request.
LEMMA OneUser ==
    ASSUME PoolInv, NEW r \in Requests, NEW q \in Requests,
           request[r].state = "sent", request[q].state = "sent",
           request[r].socket = request[q].socket
    PROVE  r = q
BY DEF PoolInv, SocketsOweOne

\* No request, answer, close or timeout breaks it.
LEMMA PoolStep == PoolInv /\ [PoolNext]_http => PoolInv'
<1> SUFFICES ASSUME PoolInv, [PoolNext]_http PROVE PoolInv'
  OBVIOUS
<1> USE DEF PoolInv, PoolTypeOK
<1>0. pool \in Seq(Sockets) /\ IsInjective(pool) /\ Len(pool) <= MaxPool /\ Len(pool) \in Nat
  BY DEF SocketsOweOne
<1>u. \A t : t \in InUse <=> \E q \in Requests : request[q].state = "sent" /\ request[q].socket = t
  BY DEF InUse
<1>v. \A t : t \in InUse' <=> \E q \in Requests : request'[q].state = "sent" /\ request'[q].socket = t
  BY DEF InUse
<1>1. ASSUME NEW r \in Requests, Send(r) PROVE PoolInv'
  <2>n. PICK n \in 0..Len(pool) :
            /\ IsLastUsable(n)
            /\ \E s \in IF n # 0 THEN {pool[n]} ELSE Unopened :
                  /\ request' = [request EXCEPT ![r].state = "sent", ![r].socket = s]
                  /\ asked' = [asked EXCEPT ![s] = Append(@, r)]
            /\ pool' = LeftAfterTaking(n) /\ timer' = TimersAfterTaking(n) /\ UNCHANGED usable
    BY <1>1 DEF Send
  <2>1. PICK s \in IF n # 0 THEN {pool[n]} ELSE Unopened :
            /\ request' = [request EXCEPT ![r].state = "sent", ![r].socket = s]
            /\ asked' = [asked EXCEPT ![s] = Append(@, r)]
    BY <2>n
  <2>2. /\ pool' \in Seq(Sockets) /\ IsInjective(pool') /\ Len(pool') <= MaxPool
        /\ ToSet(pool') = {pool[i] : i \in {i \in DOMAIN pool : i < n}}
    BY <1>0, <2>n, BeginningOfPool, HttpPoolAssumption DEF LeftAfterTaking
  <2>3. s \in usable /\ s \notin InUse /\ s \notin ToSet(pool')
    <3>1. CASE n = 0
      <4>1. DOMAIN pool = 1..Len(pool)
        BY <1>0
      <4>2. ToSet(pool') = {}
        BY <4>1, <3>1, <2>2
      <4> QED BY <4>2, <3>1, <2>1 DEF Unopened
    <3>2. CASE n # 0
      <4>1. n \in DOMAIN pool /\ pool[n] \in usable /\ s = pool[n]
        BY <3>2, <2>n, <2>1 DEF IsLastUsable
      <4>2. s \notin ToSet(pool')
        BY <4>1, <2>2, <1>0 DEF IsInjective
      <4> QED BY <4>1, <4>2 DEF SocketsOweOne, ToSet
    <3> QED BY <3>1, <3>2
  <2>4. asked[s] = <<>>
    BY <2>3 DEF SocketsOweOne
  <2>5. /\ request'[r].state = "sent" /\ request'[r].socket = s
        /\ \A q \in Requests \ {r} : request'[q] = request[q]
        /\ request[r].state = "new"
        /\ request'[r].answer = request[r].answer /\ request'[r].destroyed = request[r].destroyed
    BY <1>1, <2>1 DEF Send
  <2>6. PoolTypeOK'
    <3>1. asked' \in [Sockets -> Seq(Requests)]
      BY <2>1, <2>3, <2>4
    <3>2. timer' \subseteq Sockets
      BY <2>n DEF TimersAfterTaking
    <3>3. s \in Sockets
      BY <2>3
    <3>4. request' \in [Requests -> [state : {"new", "sent", "answered", "failed", "expired"},
                                 socket : Sockets \cup {NoSocket},
                                 answer : Requests \cup {NoAnswer}, destroyed : BOOLEAN]]
      BY <2>1, <3>3, ZenonT(40)
    <3> QED BY <3>1, <3>2, <3>4, <2>n, <2>2
  <2>7. InUse' = InUse \cup {s}
    <3>1. ASSUME NEW t, t \in InUse' PROVE t \in InUse \cup {s}
      <4>1. PICK q \in Requests : request'[q].state = "sent" /\ request'[q].socket = t
        BY <3>1, <1>v
      <4>2. CASE q = r
        BY <4>1, <4>2, <2>5
      <4>3. CASE q # r
        BY <4>1, <4>3, <2>5, <1>u
      <4> QED BY <4>2, <4>3
    <3>2. ASSUME NEW t, t \in InUse PROVE t \in InUse'
      <4>1. PICK q \in Requests : request[q].state = "sent" /\ request[q].socket = t
        BY <3>2, <1>u
      <4> QED BY <4>1, <2>5, <1>v, SMTT(30)
    <3>3. s \in InUse'
      BY <2>5, <1>v
    <3> QED BY <3>1, <3>2, <3>3
  <2>8. SocketsOweOne'
    <3>1. asked'[s] = <<r>> /\ \A t \in Sockets \ {s} : asked'[t] = asked[t]
      BY <2>1, <2>3, <2>4
    <3>2. \A q \in Requests : request'[q].state = "sent" =>
             request'[q].socket \in usable' /\ asked'[request'[q].socket] = <<q>>
      <4>1. ASSUME NEW q \in Requests \ {r}, request'[q].state = "sent"
            PROVE  request'[q].socket \in usable' /\ asked'[request'[q].socket] = <<q>>
        <5>1. request[q].state = "sent" /\ request'[q].socket = request[q].socket
          BY <4>1, <2>5
        <5>2. request[q].socket # s
          BY <5>1, <2>3 DEF InUse
        <5> QED BY <5>1, <5>2, <3>1, <2>n DEF SocketsOweOne
      <4> QED BY <4>1, <2>3, <2>5, <3>1, <2>n
    <3>3. \A t \in usable' \ InUse' : asked'[t] = <<>>
      BY <3>1, <2>7, <2>n DEF SocketsOweOne
    <3>4. timer' \subseteq ToSet(pool')
      <4>1. ASSUME NEW t \in timer' PROVE t \in ToSet(pool')
        <5>1. PICK i \in DOMAIN pool : pool[i] = t
          BY <2>n DEF TimersAfterTaking, SocketsOweOne, ToSet
        <5>2. ~ (i >= n)
          BY <5>1, <2>n DEF TimersAfterTaking
        <5>3. i < n
          BY <5>1, <5>2, <1>0
        <5> QED BY <5>1, <5>3, <2>2
      <4> QED BY <4>1
    <3>5. InUse' \cap ToSet(pool') = {}
      <4>1. ToSet(pool') \subseteq ToSet(pool)
        BY <2>2 DEF ToSet
      <4> QED BY <4>1, <2>3, <2>7 DEF SocketsOweOne
    <3> QED BY <3>2, <3>3, <3>4, <3>5, <2>2 DEF SocketsOweOne
  <2>9. AnswersFit'
    BY <2>5 DEF AnswersFit
  <2> QED BY <2>6, <2>8, <2>9
<1>2. ASSUME NEW r \in Requests, Expire(r) PROVE PoolInv'
  <2>1. /\ request'[r].state = "expired" /\ request[r].state = "sent"
        /\ request'[r].socket = request[r].socket
        /\ request'[r].answer = request[r].answer /\ request'[r].destroyed = request[r].destroyed
        /\ \A q \in Requests \ {r} : request'[q] = request[q]
        /\ usable' = usable \ {request[r].socket} /\ UNCHANGED <<pool, timer, asked>>
    BY <1>2 DEF Expire, Drop
  <2>2. PoolTypeOK'
    BY <1>2, <2>1 DEF Expire
  <2>3. InUse' = InUse \ {request[r].socket}
    <3>1. ASSUME NEW t, t \in InUse' PROVE t \in InUse /\ t # request[r].socket
      <4>1. PICK q \in Requests : request'[q].state = "sent" /\ request'[q].socket = t
        BY <3>1, <1>v
      <4> QED BY <4>1, <2>1, OneUser, <1>u, SMTT(30)
    <3>2. ASSUME NEW t, t \in InUse, t # request[r].socket PROVE t \in InUse'
      <4>1. PICK q \in Requests : request[q].state = "sent" /\ request[q].socket = t
        BY <3>2, <1>u
      <4> QED BY <4>1, <3>2, <2>1, <1>v
    <3> QED BY <3>1, <3>2
  <2>4. SocketsOweOne'
    <3>1. ASSUME NEW q \in Requests, request'[q].state = "sent"
          PROVE  request'[q].socket \in usable' /\ asked'[request'[q].socket] = <<q>>
      BY <2>1, <3>1, OneUser DEF SocketsOweOne
    <3> QED BY <3>1, <2>1, <2>3 DEF SocketsOweOne
  <2>5. AnswersFit'
    BY <2>1 DEF AnswersFit
  <2> QED BY <2>2, <2>4, <2>5
<1>3. ASSUME NEW s \in Sockets, NEW c \in BOOLEAN, Answer(s, c) PROVE PoolInv'
  <2>1. s \in InUse
    BY <1>3 DEF Answer, SocketsOweOne
  <2>2. PICK r \in Requests :
            /\ request[r].state = "sent" /\ request[r].socket = s
            /\ request' = [request EXCEPT ![r].state = "answered", ![r].answer = Head(asked[s])]
            /\ IF c THEN Drop(s) ELSE PutBack(s)
    BY <1>3, <2>1 DEF Answer
  <2>3. s \in usable /\ asked[s] = <<r>> /\ asked' = [asked EXCEPT ![s] = Tail(@)]
    BY <1>3, <2>2 DEF Answer, SocketsOweOne
  <2>4. asked'[s] = <<>> /\ \A t \in Sockets \ {s} : asked'[t] = asked[t]
    BY <2>3
  <2>5. /\ request'[r].state = "answered" /\ request'[r].answer = r
        /\ request'[r].destroyed = request[r].destroyed
        /\ \A q \in Requests \ {r} : request'[q] = request[q]
    BY <2>2, <2>3
  <2>6. s \notin ToSet(pool)
    BY <2>1 DEF SocketsOweOne
  <2>7. /\ pool' \in Seq(Sockets) /\ IsInjective(pool') /\ Len(pool') <= MaxPool
        /\ timer' \subseteq ToSet(pool') /\ ToSet(pool') \subseteq ToSet(pool) \cup {s}
        /\ usable' \subseteq usable /\ usable \ usable' \subseteq {s} /\ timer' \subseteq Sockets
    <3>1. CASE c \/ Len(pool) >= MaxPool
      BY <3>1, <2>2, <2>3, <1>0 DEF Drop, PutBack, SocketsOweOne
    <3>2. CASE ~ c /\ ~ (Len(pool) >= MaxPool)
      <4>1. pool' = Append(pool, s) /\ timer' = timer \cup {s} /\ UNCHANGED usable
        BY <3>2, <2>2, <2>3 DEF PutBack
      <4> QED BY <4>1, <3>2, <2>6, <1>0, PoolWithOneMore, HttpPoolAssumption DEF SocketsOweOne
    <3> QED BY <3>1, <3>2
  <2>8. InUse' = InUse \ {s}
    <3>1. ASSUME NEW t, t \in InUse' PROVE t \in InUse /\ t # s
      <4>1. PICK q \in Requests : request'[q].state = "sent" /\ request'[q].socket = t
        BY <3>1, <1>v
      <4> QED BY <4>1, <2>2, <2>5, OneUser, <1>u
    <3>2. ASSUME NEW t, t \in InUse, t # s PROVE t \in InUse'
      <4>1. PICK q \in Requests : request[q].state = "sent" /\ request[q].socket = t
        BY <3>2, <1>u
      <4> QED BY <4>1, <3>2, <2>2, <2>5, <1>v
    <3> QED BY <3>1, <3>2
  <2>9. PoolTypeOK'
    <3>1. asked' \in [Sockets -> Seq(Requests)]
      BY <2>3
    <3>2. request' \in [Requests -> [state : {"new", "sent", "answered", "failed", "expired"},
                                 socket : Sockets \cup {NoSocket},
                                 answer : Requests \cup {NoAnswer}, destroyed : BOOLEAN]]
      <4>1. request' = [request EXCEPT ![r].state = "answered", ![r].answer = r]
        BY <2>2, <2>3
      <4> QED BY <4>1, ZenonT(40)
    <3> QED BY <3>1, <3>2, <2>7
  <2>10. SocketsOweOne'
    <3>1. ASSUME NEW q \in Requests, request'[q].state = "sent"
          PROVE  request'[q].socket \in usable' /\ asked'[request'[q].socket] = <<q>>
      <4>1. q # r /\ request[q].state = "sent" /\ request'[q].socket = request[q].socket
        BY <3>1, <2>5
      <4>2. request[q].socket # s
        BY <4>1, <2>2, OneUser
      <4> QED BY <4>1, <4>2, <2>4, <2>7 DEF SocketsOweOne
    <3>2. \A t \in usable' \ InUse' : asked'[t] = <<>>
      BY <2>4, <2>7, <2>8 DEF SocketsOweOne
    <3>3. InUse' \cap ToSet(pool') = {}
      BY <2>7, <2>8 DEF SocketsOweOne
    <3> QED BY <3>1, <3>2, <3>3, <2>7 DEF SocketsOweOne
  <2>11. AnswersFit'
    BY <2>5 DEF AnswersFit
  <2> QED BY <2>9, <2>10, <2>11
<1>4. ASSUME NEW s \in Sockets, ServerCloses(s) PROVE PoolInv'
  <2>1. /\ \A q \in Requests : request[q].state = "sent" /\ request[q].socket = s =>
              request'[q] = [request[q] EXCEPT !.state = "failed"]
        /\ \A q \in Requests : ~ (request[q].state = "sent" /\ request[q].socket = s) =>
              request'[q] = request[q]
        /\ usable' = usable \ {s} /\ UNCHANGED <<pool, timer, asked>>
    BY <1>4 DEF ServerCloses
  <2>2. PoolTypeOK'
    BY <1>4, ZenonT(40) DEF ServerCloses
  <2>3. InUse' = InUse \ {s}
    <3>1. ASSUME NEW t, t \in InUse' PROVE t \in InUse /\ t # s
      <4>1. PICK q \in Requests : request'[q].state = "sent" /\ request'[q].socket = t
        BY <3>1, <1>v
      <4>2. ~ (request[q].state = "sent" /\ request[q].socket = s) /\ request'[q] = request[q]
        BY <4>1, <2>1
      <4> QED BY <4>1, <4>2, <1>u
    <3>2. ASSUME NEW t, t \in InUse, t # s PROVE t \in InUse'
      <4>1. PICK q \in Requests : request[q].state = "sent" /\ request[q].socket = t
        BY <3>2, <1>u
      <4> QED BY <4>1, <3>2, <2>1, <1>v
    <3> QED BY <3>1, <3>2
  <2>4. SocketsOweOne'
    <3>1. ASSUME NEW q \in Requests, request'[q].state = "sent"
          PROVE  request'[q].socket \in usable' /\ asked'[request'[q].socket] = <<q>>
      BY <2>1, <3>1, ZenonT(40) DEF SocketsOweOne
    <3> QED BY <3>1, <2>1, <2>3 DEF SocketsOweOne
  <2>5. AnswersFit'
    BY <2>1, ZenonT(40) DEF AnswersFit
  <2> QED BY <2>2, <2>4, <2>5
<1>5. ASSUME NEW s \in Sockets, IdleTimeout(s) PROVE PoolInv'
  <2>1. s \in ToSet(pool) /\ s \notin InUse
    BY <1>5 DEF IdleTimeout, SocketsOweOne
  <2>2. request' = request
    <3>1. \A q \in Requests : ~ (request[q].state = "sent" /\ request[q].socket = s)
      BY <2>1 DEF InUse
    <3> QED BY <3>1, <1>5 DEF IdleTimeout, Destroyed
  <2>3. PICK i \in DOMAIN pool : pool[i] = s /\ pool' = RemoveAt(pool, i)
    BY <1>5, <2>1 DEF IdleTimeout
  <2>4. /\ pool' \in Seq(Sockets) /\ IsInjective(pool') /\ Len(pool') <= MaxPool
        /\ ToSet(pool') = ToSet(pool) \ {s}
    BY <2>3, <1>0, PoolWithoutOne, HttpPoolAssumption
  <2>5. timer' = timer \ {s} /\ usable' = usable \ {s} /\ UNCHANGED asked
    BY <1>5 DEF IdleTimeout
  <2>6. InUse' = InUse
    BY <2>2 DEF InUse
  <2>7. SocketsOweOne'
    <3>1. \A q \in Requests : request'[q].state = "sent" =>
             request'[q].socket \in usable' /\ asked'[request'[q].socket] = <<q>>
      BY <2>1, <2>2, <2>5 DEF SocketsOweOne, InUse
    <3> QED BY <3>1, <2>4, <2>5, <2>6 DEF SocketsOweOne
  <2> QED BY <2>2, <2>4, <2>5, <2>7 DEF AnswersFit
<1>6. CASE DestroyAll
  <2>1. /\ usable' = usable \ ToSet(pool) /\ pool' = <<>> /\ timer' = timer \ ToSet(pool)
        /\ UNCHANGED <<request, asked>>
    BY <1>6 DEF DestroyAll
  <2>2. pool' \in Seq(Sockets) /\ ToSet(pool') = {} /\ IsInjective(pool') /\ Len(pool') <= MaxPool
    BY <2>1, HttpPoolAssumption DEF ToSet, IsInjective
  <2>3. InUse' = InUse
    BY <2>1 DEF InUse
  <2>4. SocketsOweOne'
    <3>1. \A q \in Requests : request'[q].state = "sent" =>
             request'[q].socket \in usable' /\ asked'[request'[q].socket] = <<q>>
      BY <2>1 DEF SocketsOweOne, InUse
    <3> QED BY <3>1, <2>1, <2>2, <2>3 DEF SocketsOweOne
  <2> QED BY <2>1, <2>2, <2>4 DEF AnswersFit
<1>7. CASE UNCHANGED http
  BY <1>7 DEF http, SocketsOweOne, AnswersFit, InUse
<1> QED BY <1>1, <1>2, <1>3, <1>4, <1>5, <1>6, <1>7 DEF PoolNext

\* A connection serves one request at a time and an answer is that of its request.
THEOREM ConnectionsExclude == PoolSpec => []ConnectionsServeOne
<1>1. PoolInv => ConnectionsServeOne
  BY OneUser DEF PoolInv, SocketsOweOne, AnswersFit, ConnectionsServeOne, OneRequestPerSocket
<1> QED BY <1>1, PoolInitial, PoolStep, PTL DEF PoolSpec

-----------------------------------------------------------------------------
(* DescCache: the saves of the descriptions *)

\* What the argument needs of the types.
DescTypes ==
    /\ queue \in Seq(SubBatches \cup {"pass"})
    /\ sub \in [SubBatches -> {"waiting", "describing", "saving", "done"}]
    /\ pass \in {"describing", "described", "storing", "ending", "over"}
    /\ dirty \in BOOLEAN /\ unsaved \in BOOLEAN

\* Nothing is described any more when the stage has ended.  What a save left out
\* was put after its snapshot; a clean cache is on disk but for what the last save
\* left out; and at the end of a pass somebody waits for the save of a dirty one,
\* unless the last write failed.
SavesAreWhole ==
    /\ snapshot # NotWriting => queue # <<>> /\ cache \subseteq snapshot \cup midway
    /\ pass # "describing" => \A b \in SubBatches : sub[b] = "done"
    /\ ~ dirty /\ ~ unsaved => cache \ late \subseteq file
    /\ pass = "ending" /\ dirty => Waits("pass") \/ unsaved
    /\ pass = "over" => ~ dirty \/ unsaved

\* The inductive invariant of the cache.
DescInv == DescTypes /\ SavesAreWhole

\* It holds at the start.
LEMMA DescInitial == DescInit => DescInv
<1> SUFFICES ASSUME DescInit PROVE DescInv
  OBVIOUS
<1>1. queue \in Seq(SubBatches \cup {"pass"})
  BY DEF DescInit
<1>2. DescTypes
  BY <1>1 DEF DescInit, DescTypes
<1>3. SavesAreWhole
  BY DEF DescInit, SavesAreWhole
<1> QED BY <1>2, <1>3 DEF DescInv

\* No description and no save, whoever waits for it, breaks it.
LEMMA DescStep == DescInv /\ [DescNext]_desc => DescInv'
<1> SUFFICES ASSUME DescInv, [DescNext]_desc PROVE DescInv'
  OBVIOUS
<1> USE DEF DescInv, DescTypes, SavesAreWhole
<1>1. ASSUME NEW b \in SubBatches, Describe(b) PROVE DescInv'
  BY <1>1 DEF Describe, Waits
<1>2. ASSUME NEW b \in SubBatches, SetMany(b) PROVE DescInv'
  <2>1. queue' \in Seq(SubBatches \cup {"pass"}) /\ (queue # <<>> => queue' # <<>>)
    BY <1>2, SMTT(30) DEF SetMany
  <2>2. pass = "describing"
    <3>1. sub[b] # "done" BY <1>2 DEF SetMany
    <3> QED BY <3>1
  <2>3. dirty' = TRUE /\ cache' = cache \cup {b} /\ UNCHANGED <<pass, snapshot, unsaved>>
    BY <1>2 DEF SetMany, Marked
  <2>4. snapshot # NotWriting => midway' = midway \cup {b}
    BY <1>2 DEF SetMany
  <2>5. sub' \in [SubBatches -> {"waiting", "describing", "saving", "done"}]
    BY <1>2 DEF SetMany
  <2> QED BY <2>1, <2>2, <2>3, <2>4, <2>5
<1>3. ASSUME NEW b \in SubBatches, Resume(b) PROVE DescInv'
  BY <1>3 DEF Resume, Waits
<1>4. CASE WriteTemporary
  BY <1>4 DEF WriteTemporary, Waits
<1>5. CASE Rename
  <2>1. queue' \in Seq(SubBatches \cup {"pass"}) /\ snapshot' = NotWriting
    BY <1>5 DEF Rename
  <2>2. UNCHANGED <<cache, sub, pass>> /\ snapshot # NotWriting
    BY <1>5 DEF Rename
  <2>3. CASE file' = snapshot /\ dirty' = FALSE /\ late' = midway /\ unsaved' = FALSE
    BY <2>1, <2>2, <2>3
  <2>4. CASE unsaved' = TRUE /\ UNCHANGED dirty
    BY <2>1, <2>2, <2>4
  <2> QED BY <1>5, <2>3, <2>4 DEF Rename
<1>6. CASE EndOfStage
  BY <1>6 DEF EndOfStage
<1>7. CASE EndOfPass
  <2>1. CASE pass = "described" /\ dirty
    <3>1. queue' = Append(queue, "pass") /\ UNCHANGED <<cache, file, dirty, snapshot, sub, midway, late, unsaved>>
          /\ pass' = "ending"
      BY <1>7, <2>1 DEF EndOfPass
    <3>2. queue' \in Seq(SubBatches \cup {"pass"}) /\ queue' # <<>> /\ Len(queue) + 1 \in DOMAIN queue'
          /\ queue'[Len(queue) + 1] = "pass"
      BY <3>1
    <3>3. Waits("pass")'
      BY <3>2 DEF Waits
    <3> QED BY <3>1, <3>2, <3>3, <2>1
  <2>2. CASE pass = "ending" \/ ~ dirty
    BY <1>7, <2>2 DEF EndOfPass
  <2> QED BY <1>7, <2>1, <2>2 DEF EndOfPass
<1>8. CASE CrashAndLoad
  <2>1. queue' \in Seq(SubBatches \cup {"pass"})
    BY <1>8 DEF CrashAndLoad
  <2>2. DescTypes'
    BY <1>8, <2>1 DEF CrashAndLoad
  <2> QED BY <1>8, <2>2 DEF CrashAndLoad
<1>9. CASE UNCHANGED desc
  BY <1>9 DEF desc, Waits
<1> QED BY <1>1, <1>2, <1>3, <1>4, <1>5, <1>6, <1>7, <1>8, <1>9 DEF DescNext

\* When a pass is over, what it described is in the cache file, also what was put
\* while the file was being written, unless it came in between the snapshot and the
\* rename of the last save; or the last write failed.
THEOREM NothingDescribedIsLost == DescSpec => []DescriptionsAreSaved
<1>1. DescInv => DescriptionsAreSaved
  BY DEF DescInv, SavesAreWhole, DescriptionsAreSaved
<1> QED BY <1>1, DescInitial, DescStep, PTL DEF DescSpec
=============================================================================

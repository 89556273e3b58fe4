----------------------------- MODULE Retrieval ------------------------------
(***************************************************************************)
(* A search (retriever/retriever.ts, context-optimizer.ts): the ranking of *)
(* the vector store and that of the keyword index are fused, the first of  *)
(* them may be ranked again by a reranker, and what is found is merged,    *)
(* thinned out and spread over the files.                                  *)
(*                                                                         *)
(* Scores are integers: 480 stands for 1, the weight of the keywords is in *)
(* quarters, the demotion of a role is a half.  K (60 in the code) is      *)
(* small, so that ranks weigh differently.                                 *)
(***************************************************************************)
EXTENDS Ordering, SequencesExt

CONSTANTS
    FileOf, From, To, Words, Role,      \* of the chunks in the index
    VectorRankings, KeywordRankings,    \* what each leg of the search can return
    K,
    Weights,        \* keywordWeight, in quarters
    Gates,          \* minScoreMode and minScore
    TopK,
    Candidates,     \* reranking.candidates
    RerankScores,
    RerankFloors,   \* reranking.minScore, 0 for none
    Gap,            \* adjacentGapThreshold
    MaxPerFile          \* 0 for any number

ASSUME RankingsAssumption ==
    \A s \in VectorRankings \cup KeywordRankings :
        s \in Seq(DOMAIN FileOf) /\ \A i, j \in DOMAIN s : s[i] = s[j] => i = j
ASSUME RangesAssumption ==
    From \in [DOMAIN FileOf -> Int] /\ To \in [DOMAIN FileOf -> Int]
ASSUME SearchAssumption ==
    /\ K \in Nat /\ TopK \in Nat /\ Candidates \in Nat /\ Gap \in Nat /\ MaxPerFile \in Nat
    /\ Weights \subseteq 0..4 /\ RerankScores \subseteq Int /\ RerankFloors \subseteq Int

VARIABLES
    query,          \* both legs' rankings, the weight and the gate
    searched,
    hits,           \* results in order: passage and score
    answer

search == <<query, searched, hits, answer>>

Unit == 480
Similarity(rank) == Unit - 100 * (rank - 1)
RankIn(s, x) == CHOOSE i \in DOMAIN s : s[i] = x
FirstOf(s, n) == SubSeq(s, 1, IF Len(s) < n THEN Len(s) ELSE n)

ByScore(s) == {e \in (DOMAIN s) \X (DOMAIN s) :
                  \/ s[e[1]].score > s[e[2]].score
                  \/ s[e[1]].score = s[e[2]].score /\ e[1] < e[2]}

RetrievalInit ==
    /\ query \in [vector : VectorRankings, keyword : KeywordRankings,
                  weight : Weights, gate : Gates]
    /\ searched = "asked" /\ hits = <<>> /\ answer = <<>>

-----------------------------------------------------------------------------
(* retrieve: reciprocal rank fusion. *)

Leg(s, p) == IF p \in ToSet(s) THEN (60 * (K + 1)) \div (K + RankIn(s, p)) ELSE 0
Demotion(p) == IF Role[p] = "code" THEN 2 ELSE 1

Fused(p) == (4 - query.weight) * 2 * Leg(query.vector, p)
                + query.weight * Demotion(p) * Leg(query.keyword, p)

\* In quarters; a hit of one leg cannot reach more than the weight of that leg.
MaxReachable(p) == (IF p \in ToSet(query.vector) THEN 4 - query.weight ELSE 0)
                       + (IF p \in ToSet(query.keyword) THEN query.weight ELSE 0)

FusedScore(p) ==
    IF query.gate.mode = "normalized" /\ MaxReachable(p) > 0 THEN (Fused(p) * 4) \div MaxReachable(p) ELSE Fused(p)

\* Without a keyword hit the scores are those of the vector store.
Score(p) == IF query.keyword = <<>> THEN Similarity(RankIn(query.vector, p)) ELSE FusedScore(p)

Found ==
    LET more == {i \in DOMAIN query.keyword : query.keyword[i] \notin ToSet(query.vector)}
    IN  query.vector \o Arranged(query.keyword, more, InPlace(query.keyword))
Scored == [i \in DOMAIN Found |-> [passage |-> Found[i], score |-> Score(Found[i])]]
AtLeast(s, minScore) == {i \in DOMAIN s : s[i].score >= minScore}

Combined ==
    Arranged(Scored, AtLeast(Scored, query.gate.minScore),
             IF query.keyword = <<>> THEN InPlace(Scored) ELSE ByScore(Scored))

Retrieve ==
    /\ searched = "asked" /\ searched' = "fused"
    /\ hits' = Combined
    /\ UNCHANGED <<query, answer>>

\* An embedder or a store that fails leaves nothing.
RetrieveFails ==
    /\ searched = "asked" /\ searched' = "ranked"
    /\ UNCHANGED <<query, hits, answer>>

\* No reranker, one that cools down, or one that fails.
NotReranked ==
    /\ searched = "fused" /\ searched' = "ranked"
    /\ hits' = FirstOf(hits, TopK)
    /\ UNCHANGED <<query, answer>>

PoolSize == IF TopK > Candidates THEN TopK ELSE Candidates

\* The pool takes the scores of the reranker, and its order; the tail keeps both.
Pool == FirstOf(hits, PoolSize)
Rescored(scores) == [i \in DOMAIN Pool |-> [Pool[i] EXCEPT !.score = scores[i]]]
Reranked(scores, floor) ==
    LET passed == IF floor <= 0 THEN DOMAIN Pool ELSE AtLeast(Rescored(scores), floor)
    IN  Arranged(Rescored(scores), passed, ByScore(Rescored(scores)))
            \o SubSeq(hits, Len(Pool) + 1, Len(hits))

Rerank(scores, floor) ==
    /\ searched = "fused" /\ searched' = "ranked"
    /\ hits # <<>>
    /\ hits' = FirstOf(Reranked(scores, floor), TopK)
    /\ UNCHANGED <<query, answer>>

-----------------------------------------------------------------------------
(* optimizeContext. *)

Item(r) == [of |-> {r.passage}, file |-> FileOf[r.passage], from |-> From[r.passage],
            to |-> To[r.passage], words |-> Words[r.passage], score |-> r.score]

Items == Tuple([i \in DOMAIN hits |-> Item(hits[i])])

\* File by file as they were found, in the order of the lines.
FirstSeen(s, i) == Least({j \in DOMAIN s : s[j].file = s[i].file})
ByLines(s) ==
    {e \in (DOMAIN s) \X (DOMAIN s) :
        \/ FirstSeen(s, e[1]) < FirstSeen(s, e[2])
        \/ /\ FirstSeen(s, e[1]) = FirstSeen(s, e[2])
           /\ \/ s[e[1]].from < s[e[2]].from
              \/ s[e[1]].from = s[e[2]].from /\ e[1] < e[2]}

\* A chunk is merged into what it follows closely: a run of chunks becomes one result.
Starts(s) ==
    {k \in DOMAIN s : k = 1 \/ s[k - 1].file # s[k].file \/ s[k].from > s[k - 1].to + Gap + 1}
Run(s, k) == {i \in DOMAIN s : k <= i /\ \A j \in k + 1 .. i : j \notin Starts(s)}

\* (mutant) a merged result keeps the score of its first chunk
FirstScore(s, run) == s[Least(run)].score

BestScore(s, run) == s[CHOOSE i \in run : \A j \in run : s[i].score >= s[j].score].score

Merged(s, run) ==
    [of |-> UNION {s[i].of : i \in run}, file |-> s[Least(run)].file,
     from |-> s[Least(run)].from, to |-> s[Greatest(run)].to,
     words |-> UNION {s[i].words : i \in run}, score |-> BestScore(s, run)]
MergeAdjacent(s) ==
    Arranged([k \in DOMAIN s |-> Merged(s, Run(s, k))], Starts(s), InPlace(s))

\* The Jaccard similarity of their words is over 0.8.
Similar(r, s) ==
    LET union == Cardinality(r.words \cup s.words)
    IN  r.file = s.file
        /\ (union = 0 \/ 10 * Cardinality(r.words \cap s.words) > 8 * union)

\* Of the first two that are similar the one with the lower score goes.
Thinned(s, kept) ==
    LET like(i) == {j \in kept : i < j /\ Similar(s[i], s[j])}
        i == Least({i \in kept : like(i) # {}})
        j == Least(like(i))
    IN  IF \A k \in kept : like(k) = {} THEN kept
        ELSE kept \ {IF s[i].score >= s[j].score THEN j ELSE i}

Rounds(s) ==
    LET kept[n \in 0..Cardinality(DOMAIN s)] ==
            IF n = 0 THEN DOMAIN s ELSE Thinned(s, kept[n - 1])
    IN  kept
DedupeSimilar(s) == Rounds(s)[Cardinality(DOMAIN s)]

\* No more of a file than MaxPerFile, and the best of them.
Ahead(s, kept, i) == {j \in kept : s[j].file = s[i].file /\ <<j, i>> \in ByScore(s)}
Selected(s, kept) ==
    {i \in kept : MaxPerFile = 0 \/ Cardinality(Ahead(s, kept, i)) < MaxPerFile}

OptimizeContext ==
    LET merged == MergeAdjacent(Arranged(Items, DOMAIN Items, ByLines(Items)))
    IN  /\ searched = "ranked" /\ searched' = "answered"
        /\ answer' = FirstOf(Arranged(merged, Selected(merged, DedupeSimilar(merged)), ByScore(merged)),
                             TopK)
        /\ UNCHANGED <<query, hits>>

RetrievalNext ==
    \/ Retrieve \/ RetrieveFails \/ NotReranked \/ OptimizeContext
    \/ \E scores \in [1..PoolSize -> RerankScores], floor \in RerankFloors : Rerank(scores, floor)
RetrievalSpec == RetrievalInit /\ [][RetrievalNext]_search

-----------------------------------------------------------------------------
Unnested(S) == \A p, q \in S : From[p] <= From[q] => To[p] <= To[q]

\* No file that was found loses its best hit to a weaker one: whatever is merged,
\* thinned out and capped, the answer has a result of its file with at least that
\* score, and in no other order than the scores'.  A result has the range of the
\* chunks it was merged from, if none of them begins no later than another and ends
\* after it, and no chunk is in two results.
BestHitsServed ==
    searched = "answered" =>
        /\ \A i \in DOMAIN hits : \E r \in ToSet(answer) :
              r.file = FileOf[hits[i].passage] /\ r.score >= hits[i].score
        /\ \A i, j \in DOMAIN answer : i < j =>
              answer[i].score >= answer[j].score /\ answer[i].of \cap answer[j].of = {}
        /\ \A r \in ToSet(answer) : \A p \in r.of :
              r.from <= From[p] /\ (Unnested(r.of) => To[p] <= r.to)
        /\ MaxPerFile > 0 => \A i \in DOMAIN answer :
              Cardinality({j \in DOMAIN answer : answer[j].file = answer[i].file}) <= MaxPerFile

=============================================================================

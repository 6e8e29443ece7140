------------------------------- MODULE Ranking -------------------------------
(***************************************************************************)
(* How a query is answered: by one engine over the whole corpus, and by    *)
(* the coordinator over engines that hold a part of it each.               *)
(*                                                                         *)
(* Document ids are integers, for their order.  A query is the sequence of *)
(* terms that analyze() leaves of it.  Scores are integers: BM25 without   *)
(* the logarithm, a similarity that is a product, reciprocal ranks over a  *)
(* common denominator.  Two scores that are equal as numbers are equal     *)
(* here, whatever floating point makes of sums that differ only in order.  *)
(***************************************************************************)
EXTENDS InvertedIndex, SequencesExt

CONSTANTS
    Queries,            \* analysed queries
    Embed,              \* Embedder.embed_documents, for one text
    EmbedQuery,         \* Embedder.embed_query
    RrfK,               \* FusionConfig.rrf_k
    Multiplier,         \* FusionConfig.candidate_multiplier
    MaxDepth            \* FusionConfig.max_candidate_depth, and the largest limit

ASSUME RankingAssumption ==
    /\ Docs \subseteq Int
    /\ Queries \subseteq Seq(Terms)
    /\ Embed \in [Texts -> Int]
    /\ EmbedQuery \in [Queries -> Int]
    /\ {RrfK, Multiplier, MaxDepth} \subseteq Nat \ {0}

Limits == 1..MaxDepth
Least(m, n) == IF m < n THEN m ELSE n
TermSet(query) == {query[i] : i \in DOMAIN query}
NoResults == [total |-> 0, results |-> << >>]

\* The sort key of every ranking: descending score, then ascending id.
HitBefore(x, y) == x.score > y.score \/ (x.score = y.score /\ x.doc < y.doc)

\* Where sorting puts a hit: behind those that sort before it.
Place(hits, hit) == 1 + Cardinality({h \in hits : HitBefore(h, hit)})

\* The first `limit' hits, best first.
Best(hits, limit) ==
    [n \in 1..Least(limit, Cardinality(hits)) |-> CHOOSE hit \in hits : Place(hits, hit) = n]

-----------------------------------------------------------------------------
(* One engine *)

\* What an engine scores from: the postings and the lengths of its documents.
OwnIndex == [postings |-> postings, lengths |-> lengths,
             stats |-> CorpusStats(Terms)]

\* The same for a shard that holds the documents `held' (IndexIsDerived says
\* that it depends on nothing else).
IndexOf(held) ==
    [postings |-> [t \in {u \in Terms : Containing(u) \cap held # {}} |->
                      [d \in Containing(t) \cap held |-> corpus[d][t]]],
     lengths |-> [d \in held |-> Length(corpus[d])],
     stats |-> [documents |-> Cardinality(held),
                length |-> SumFunction([d \in held |-> Length(corpus[d])]),
                frequency |-> [t \in Terms |-> Cardinality(Containing(t) \cap held)]]]

Postings(index, t) == IF t \in DOMAIN index.postings THEN index.postings[t] ELSE EmptyMap

\* BM25Scorer.inverse_document_frequency: the argument of the logarithm.
Idf(df, documents) == (1000 * (2 * documents + 2)) \div (2 * df + 1)

\* The contribution of a term to a document, with k1 = 1.2 and b = 0.75.
Contribution(tf, len, df, stats) ==
    (Idf(df, stats.documents) * 22 * tf * stats.length)
        \div (stats.length * (10 * tf + 3) + 9 * len * stats.documents)

\* What one document scores: the sum over the query's terms, repeated or not.
DocumentScore(index, d, query, stats) ==
    SumFunction([i \in DOMAIN query |->
        LET own == Postings(index, query[i])
        IN  IF d \in DOMAIN own
            THEN Contribution(own[d], index.lengths[d], stats.frequency[query[i]], stats)
            ELSE 0])

\* A shard that scores with its own statistics.
ScoreLocally(index, query, stats) ==
    IF index.stats.documents = 0 \/ index.stats.length = 0 THEN {}
    ELSE {[doc |-> d, score |-> DocumentScore(index, d, query, index.stats)] :
             d \in UNION {DOMAIN Postings(index, t) : t \in TermSet(query)}}

\* BM25Scorer.score_query: every document with at least one of the terms; a
\* corpus without a single token has nothing to score.
ScoreQuery(index, query, stats) ==
    IF stats.documents = 0 \/ stats.length = 0 THEN {}
    ELSE {[doc |-> d, score |-> DocumentScore(index, d, query, stats)] :
             d \in UNION {DOMAIN Postings(index, t) : t \in TermSet(query)}}

\* SearchEngine.search.
Search(index, query, limit, stats) ==
    LET hits == ScoreQuery(index, query, stats)
    IN  IF query = << >> THEN NoResults
        ELSE [total |-> Cardinality(hits), results |-> Best(hits, limit)]

\* SearchEngine.semantic_search: every document has a similarity.
SemanticSearch(held, query, limit) ==
    LET hits == {[doc |-> d, score |-> Embed[corpus[d]] * EmbedQuery[query]] : d \in held}
    IN  [total |-> Cardinality(held), results |-> Best(hits, limit)]

-----------------------------------------------------------------------------
(* Fusion *)

CandidateDepth(limit) == Least(limit * Multiplier, MaxDepth)

\* Reciprocal ranks, times a number that all of them divide.
Denominator ==
    LET product[r \in 0..MaxDepth] == IF r = 0 THEN 1 ELSE product[r - 1] * (RrfK + r)
    IN  product[MaxDepth]
Ids(list) == {list[i].doc : i \in DOMAIN list}
Rank(list, d) == CHOOSE i \in DOMAIN list : list[i].doc = d
Reciprocal(list, d) ==
    IF d \in Ids(list) THEN Denominator \div (RrfK + Rank(list, d)) ELSE 0

\* A document of both lists that keeps only its first contribution.
FirstContribution(lexical, semantic, d) ==
    IF d \in Ids(lexical) THEN Reciprocal(lexical, d) ELSE Reciprocal(semantic, d)

\* A document of both lists has both contributions; there is no penalty for the
\* list that a document is not in.
FusionScore(lexical, semantic, d) == Reciprocal(lexical, d) + Reciprocal(semantic, d)

\* reciprocal_rank_fusion
Fuse(lexical, semantic, limit) ==
    LET candidates == Ids(lexical.results) \cup Ids(semantic.results)
        hits == {[doc |-> d,
                  score |-> FusionScore(lexical.results, semantic.results, d)] :
                     d \in candidates}
    IN  [total |-> Cardinality(candidates), results |-> Best(hits, limit)]

\* SearchEngine.hybrid_search
HybridSearch(query, limit) ==
    LET depth == CandidateDepth(limit)
    IN  IF query = << >> THEN NoResults
        ELSE Fuse(Search(OwnIndex, query, depth, CorpusStats(Terms)),
                  SemanticSearch(DOMAIN corpus, query, depth), limit)

-----------------------------------------------------------------------------
(* The coordinator *)

\* A merge that takes the shards one after the other.
MergeInShardOrder(parts, limit) ==
    LET all == FlattenSeq(SetToSeq({parts[s].results : s \in Shards}))
    IN  [total |-> SumFunction([s \in Shards |-> parts[s].total]),
         results |-> SubSeq(all, 1, Least(limit, Len(all)))]

\* Coordinator._merge: the best of the candidates of all shards.
Merge(parts, limit) ==
    [total |-> SumFunction([s \in Shards |-> parts[s].total]),
     results |-> Best(UNION {ToSet(parts[s].results) : s \in Shards}, limit)]

Held(route, s) == {d \in DOMAIN corpus : route[d] = s}

\* Coordinator.search: statistics from every shard, then candidates from every
\* shard, scored with the sum of the statistics.
DistributedSearch(route, query, limit) ==
    LET index == [s \in Shards |-> IndexOf(Held(route, s))]
        stats == MergeCorpusStats([s \in Shards |-> index[s].stats])
    IN  IF query = << >> \/ stats.documents = 0 THEN NoResults
        ELSE Merge([s \in Shards |-> Search(index[s], query, limit, stats)], limit)

\* Coordinator.semantic_search: one round.
DistributedSemanticSearch(route, query, limit) ==
    Merge([s \in Shards |-> SemanticSearch(Held(route, s), query, limit)], limit)

\* Coordinator.hybrid_search
DistributedHybridSearch(route, query, limit) ==
    LET depth == CandidateDepth(limit)
    IN  IF query = << >> THEN NoResults
        ELSE Fuse(DistributedSearch(route, query, depth),
                  DistributedSemanticSearch(route, query, depth), limit)

-----------------------------------------------------------------------------
(* Properties *)

\* A search does not depend on how many shards there are or where a document
\* lives: for every routing, query and limit the coordinator returns the
\* documents, the order, the scores and the total of one engine that holds
\* everything, in a lexical search as in a semantic one.
SearchIsSingleNode ==
    \A route \in [DOMAIN corpus -> Shards], query \in Queries, limit \in Limits :
        /\ DistributedSearch(route, query, limit)
              = Search(OwnIndex, query, limit, CorpusStats(Terms))
        /\ DistributedSemanticSearch(route, query, limit)
              = SemanticSearch(DOMAIN corpus, query, limit)

\* The same for hybrid search, although fusion looks at ranks and both of its
\* lists are cut off: a list of the best candidates of the shards' best
\* candidates is cut off where the list of one engine is.
HybridIsSingleNode ==
    \A route \in [DOMAIN corpus -> Shards], query \in Queries, limit \in Limits :
        DistributedHybridSearch(route, query, limit) = HybridSearch(query, limit)

\* No worse in any list: whatever list e is in, d is in and before it.
Dominates(list, d, e) == e \in Ids(list) => d \in Ids(list) /\ Rank(list, d) < Rank(list, e)

\* Fusion never overrules an agreement: a candidate that neither list puts
\* behind another one comes before it, or the other one is not in the answer.
\* Nobody appears twice, and the total counts the candidates, of which there
\* are at most twice as many as the candidate depth.
FusionKeepsAgreement ==
    \A query \in Queries \ {<< >>}, limit \in Limits :
        LET depth == CandidateDepth(limit)
            lexical == Search(OwnIndex, query, depth, CorpusStats(Terms)).results
            semantic == SemanticSearch(DOMAIN corpus, query, depth).results
            answer == HybridSearch(query, limit)
            candidates == Ids(lexical) \cup Ids(semantic)
        IN  /\ answer.total = Cardinality(candidates)
            /\ answer.total <= 2 * depth
            /\ Cardinality(Ids(answer.results)) = Least(limit, answer.total)
            /\ \A d \in candidates, e \in Ids(answer.results) :
                  d # e /\ Dominates(lexical, d, e) /\ Dominates(semantic, d, e)
                      => /\ d \in Ids(answer.results)
                         /\ Rank(answer.results, d) < Rank(answer.results, e)

=============================================================================

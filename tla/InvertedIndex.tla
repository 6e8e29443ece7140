---------------------------- MODULE InvertedIndex ----------------------------
(***************************************************************************)
(* InvertedIndex: postings, the terms and the length of every document,    *)
(* and the total length, all maintained incrementally.                     *)
(*                                                                         *)
(* A text is what analyze() leaves of it that the index can tell apart:    *)
(* how often each term occurs (Counter(tokens)).                           *)
(***************************************************************************)
EXTENDS Integers, Functions, FiniteSets

CONSTANTS
    Docs,       \* document ids
    Terms,      \* the vocabulary
    Texts,      \* analysed texts
    Shards      \* indexes the corpus may be spread over

ASSUME TextAssumption ==
    /\ Texts \subseteq [Terms -> Nat]
    /\ IsFiniteSet(Terms)
    /\ IsFiniteSet(Shards) /\ Shards # {}

VARIABLES
    postings,       \* _postings: term -> (document id -> term frequency)
    documentTerms,  \* _document_terms: document id -> set of terms
    lengths,        \* _document_lengths: document id -> number of tokens
    total,          \* _total_length
    corpus          \* auxiliary: the documents that are in, and their texts

vars == <<postings, documentTerms, lengths, total, corpus>>

\* Counter(tokens): only terms that occur are counted; len(tokens).
TermsOf(text) == {t \in Terms : text[t] > 0}
Length(text) == SumFunction(text)

EmptyMap == [x \in {} |-> 0]
Put(map, key, value) == [k \in DOMAIN map \cup {key} |->
                            IF k = key THEN value ELSE map[k]]
Drop(map, key) == [k \in DOMAIN map \ {key} |-> map[k]]
PostingMap(t) == IF t \in DOMAIN postings THEN postings[t] ELSE EmptyMap

Init ==
    /\ postings = EmptyMap
    /\ documentTerms = EmptyMap
    /\ lengths = EmptyMap
    /\ total = 0
    /\ corpus = EmptyMap

-----------------------------------------------------------------------------
\* The postings without document d: a term that nobody else contains leaves
\* the vocabulary.
PostingsWithout(d) ==
    LET emptied == {t \in documentTerms[d] : DOMAIN postings[t] = {d}} IN
    [t \in DOMAIN postings \ emptied |->
        IF t \in documentTerms[d] THEN Drop(postings[t], d) ELSE postings[t]]

\* `before' with a posting of document d for every term of the text.
WithPostings(before, d, text) ==
    [t \in DOMAIN before \cup TermsOf(text) |->
        IF t \notin TermsOf(text) THEN before[t]
        ELSE Put(IF t \in DOMAIN before THEN before[t] ELSE EmptyMap, d, text[t])]

\* A replacement that forgets to take the old text out first.
AddWithoutRemoval(d, text) ==
    /\ postings' = WithPostings(postings, d, text)
    /\ documentTerms' = Put(documentTerms, d, TermsOf(text))
    /\ lengths' = Put(lengths, d, Length(text))
    /\ total' = total + Length(text)
    /\ corpus' = Put(corpus, d, text)

\* add_document: a document that is in is removed first.
AddDocument(d, text) ==
    LET known == d \in DOMAIN lengths
    IN  /\ postings' = WithPostings(IF known THEN PostingsWithout(d) ELSE postings,
                                    d, text)
        /\ documentTerms' = Put(documentTerms, d, TermsOf(text))
        /\ lengths' = Put(lengths, d, Length(text))
        /\ total' = total - (IF known THEN lengths[d] ELSE 0) + Length(text)
        /\ corpus' = Put(corpus, d, text)

\* A removal that forgets the document's set of terms.
RemoveKeepsTerms(d) ==
    /\ d \in DOMAIN lengths
    /\ postings' = PostingsWithout(d)
    /\ lengths' = Drop(lengths, d)
    /\ total' = total - lengths[d]
    /\ corpus' = Drop(corpus, d)
    /\ UNCHANGED documentTerms

\* remove_document; an unknown document is a KeyError and changes nothing.
RemoveDocument(d) ==
    /\ d \in DOMAIN lengths
    /\ postings' = PostingsWithout(d)
    /\ documentTerms' = Drop(documentTerms, d)
    /\ lengths' = Drop(lengths, d)
    /\ total' = total - lengths[d]
    /\ corpus' = Drop(corpus, d)

Next ==
    \/ \E d \in Docs, text \in Texts : AddDocument(d, text)
    \/ \E d \in Docs : RemoveDocument(d)

Spec == Init /\ [][Next]_vars

-----------------------------------------------------------------------------
(* Statistics: what ranking reads, and what shards send to the coordinator *)

DocumentFrequency(t) == Cardinality(DOMAIN PostingMap(t))

\* corpus_stats: the inputs of BM25, read from the incremental structures.
CorpusStats(terms) ==
    [documents |-> Cardinality(DOMAIN lengths),
     length |-> total,
     frequency |-> [t \in terms |-> DocumentFrequency(t)]]

\* Merging in which the last shard's document frequencies win.
MergeOverwriting(parts) ==
    [documents |-> SumFunction([s \in Shards |-> parts[s].documents]),
     length |-> SumFunction([s \in Shards |-> parts[s].length]),
     frequency |-> parts[CHOOSE s \in Shards : TRUE].frequency]

\* merge_corpus_stats: parts[s] is what shard s answered; a query's terms are
\* the same on every shard.
MergeCorpusStats(parts) ==
    [documents |-> SumFunction([s \in Shards |-> parts[s].documents]),
     length |-> SumFunction([s \in Shards |-> parts[s].length]),
     frequency |-> [t \in UNION {DOMAIN parts[s].frequency : s \in Shards} |->
                       SumFunction([s \in Shards |-> parts[s].frequency[t]])]]

\* average_document_length, in thousandths; an empty corpus has 0.
Average(length, documents) == IF documents = 0 THEN 0 ELSE (1000 * length) \div documents

\* stats: what one index reports of itself.
IndexStats ==
    [documents |-> Cardinality(DOMAIN lengths),
     vocabulary |-> Cardinality(DOMAIN postings),
     length |-> total,
     average |-> Average(total, Cardinality(DOMAIN lengths))]

\* Coordinator.index_stats with a mean of the shards' means.
ClusterStatsUnweighted(parts) ==
    [documents |-> SumFunction([s \in Shards |-> parts[s].documents]),
     average |-> SumFunction([s \in Shards |-> parts[s].average]) \div Cardinality(Shards),
     shards |-> [s \in Shards |-> [documents |-> parts[s].documents,
                                   vocabulary |-> parts[s].vocabulary,
                                   average |-> parts[s].average]]]

\* Coordinator.index_stats: the average is weighted by the shards' documents;
\* nothing is said of the cluster's vocabulary, which shards share.
ClusterStats(parts) ==
    LET documents == SumFunction([s \in Shards |-> parts[s].documents])
    IN  [documents |-> documents,
         average |-> Average(SumFunction([s \in Shards |-> parts[s].length]), documents),
         shards |-> [s \in Shards |-> [documents |-> parts[s].documents,
                                       vocabulary |-> parts[s].vocabulary,
                                       average |-> parts[s].average]]]

-----------------------------------------------------------------------------
(* validate(), which a rebuild calls before it puts an index in place *)

Itself == [postings |-> postings, terms |-> documentTerms, lengths |-> lengths, total |-> total]

\* The length of document d that its postings add up to.
Summed(index, d) == SumFunction([t \in index.terms[d] |-> index.postings[t][d]])

\* A validation that looks from documents to postings only, and so does not see
\* a posting that its document knows nothing of.
ValidForward(index) ==
    /\ DOMAIN index.terms = DOMAIN index.lengths
    /\ index.total = SumFunction(index.lengths)
    /\ \A d \in DOMAIN index.terms :
          /\ \A t \in index.terms[d] : t \in DOMAIN index.postings /\ d \in DOMAIN index.postings[t]
          /\ index.lengths[d] = Summed(index, d)

\* validate raises no IndexInvariantError: the totals, every posting list, then
\* every document's terms against the posting lists.
Valid(index) ==
    /\ DOMAIN index.terms = DOMAIN index.lengths
    /\ index.total = SumFunction(index.lengths)
    /\ \A d \in DOMAIN index.lengths : index.lengths[d] >= 0
    /\ \A t \in DOMAIN index.postings :
          /\ DOMAIN index.postings[t] # {}
          /\ \A d \in DOMAIN index.postings[t] :
                d \in DOMAIN index.lengths /\ index.postings[t][d] >= 1 /\ t \in index.terms[d]
    /\ \A d \in DOMAIN index.terms :
          /\ \A t \in index.terms[d] : t \in DOMAIN index.postings /\ d \in DOMAIN index.postings[t]
          /\ index.lengths[d] = Summed(index, d)

-----------------------------------------------------------------------------
(* Properties *)

Containing(t) == {d \in DOMAIN corpus : corpus[d][t] > 0}

\* The types of the variables.
TypeOK ==
    /\ DOMAIN corpus \subseteq Docs
    /\ corpus \in [DOMAIN corpus -> Texts]
    /\ DOMAIN postings \subseteq Terms
    /\ \A t \in DOMAIN postings : /\ DOMAIN postings[t] \subseteq DOMAIN corpus
                                  /\ postings[t] \in [DOMAIN postings[t] -> Nat \ {0}]
    /\ documentTerms \in [DOMAIN corpus -> SUBSET Terms]
    /\ lengths \in [DOMAIN corpus -> Nat]
    /\ total \in Nat

\* The three maps, as functions of the corpus.
MapsAreDerived ==
    /\ postings = [t \in {u \in Terms : Containing(u) # {}} |->
                      [d \in Containing(t) |-> corpus[d][t]]]
    /\ documentTerms = [d \in DOMAIN corpus |-> TermsOf(corpus[d])]
    /\ lengths = [d \in DOMAIN corpus |-> Length(corpus[d])]

\* The index is an exact function of the corpus, whatever sequence of
\* additions, replacements and removals produced it: the same index that a
\* rebuild from storage would build.  No term of a superseded text is left, and
\* the total, which only ever has lengths added and subtracted, has not drifted.
IndexIsDerived ==
    /\ MapsAreDerived
    /\ total = SumFunction([d \in DOMAIN corpus |-> Length(corpus[d])])

\* One entry of one structure is wrong: the total, the length or the terms of a
\* document, or a posting is another one, is lost, or should not be there.
Damaged ==
    LET near(n) == {n - 1, n + 1}
        damagedMaps(m, keys, values(_)) ==
            {Drop(m, k) : k \in DOMAIN m} \cup UNION {{Put(m, k, v) : v \in values(k)} : k \in keys}
        otherLengths(d) == IF d \in DOMAIN lengths THEN near(lengths[d]) ELSE {0, 1}
        otherLists(t) ==
            LET others(d) == IF d \in DOMAIN PostingMap(t) THEN near(PostingMap(t)[d]) ELSE {0, 1}
            IN  damagedMaps(PostingMap(t), Docs, others) \cup {EmptyMap}
    IN  {[Itself EXCEPT !.total = n] : n \in near(total)}
        \cup {[Itself EXCEPT !.lengths = m] : m \in damagedMaps(lengths, Docs, otherLengths)}
        \cup {[Itself EXCEPT !.terms = m] : m \in damagedMaps(documentTerms, Docs, LAMBDA d : SUBSET Terms)}
        \cup {[Itself EXCEPT !.postings = m] : m \in damagedMaps(postings, Terms, otherLists)}

\* Whatever additions, replacements and removals came before, validate accepts
\* the index (the total has not drifted from the lengths, nor a length from the
\* postings, so a rebuild never refuses to serve), and there is no wrong entry
\* in any of the four structures that it would let pass.
ValidateSeesDamage == Valid(Itself) /\ \A index \in Damaged \ {Itself} : ~Valid(index)

\* Statistics gathered shard by shard are exact: however the documents are
\* routed, merging what the shards count gives what one index over the whole
\* corpus has counted, for ranking (so scores do not depend on the number of
\* shards) and for the cluster's reported statistics.
StatsMergeExactly ==
    \A route \in [DOMAIN corpus -> Shards] :
        LET on(s) == {d \in DOMAIN corpus : route[d] = s}
            tokens(s) == SumFunction([d \in on(s) |-> Length(corpus[d])])
            part(s) == [documents |-> Cardinality(on(s)), length |-> tokens(s),
                        frequency |-> [t \in Terms |-> Cardinality(on(s) \cap Containing(t))]]
            stats(s) == [documents |-> Cardinality(on(s)), length |-> tokens(s),
                         vocabulary |-> Cardinality({t \in Terms : on(s) \cap Containing(t) # {}}),
                         average |-> Average(tokens(s), Cardinality(on(s)))]
            cluster == ClusterStats([s \in Shards |-> stats(s)])
        IN  /\ MergeCorpusStats([s \in Shards |-> part(s)]) = CorpusStats(Terms)
            /\ cluster.documents = IndexStats.documents
            /\ cluster.average = IndexStats.average

=============================================================================

---------------------------- MODULE RankingProofs ----------------------------
(***************************************************************************)
(* For any corpus, routing, query and limit: what the coordinator makes of *)
(* the shards' answers is the answer of one engine that holds everything,  *)
(* and fusion keeps what its two lists agree on.                           *)
(***************************************************************************)
EXTENDS Ranking, InvertedIndexProofs

\* Hits, and their order as a set of pairs.
AreHits(hits) == \A h \in hits : h.doc \in Int /\ h.score \in Int /\ h = [doc |-> h.doc, score |-> h.score]
HitOrder(hits) == {p \in hits \X hits : HitBefore(p[1], p[2])}

\* The sort key orders hits strictly.
LEMMA HitsAreOrdered ==
    ASSUME NEW hits, AreHits(hits)
    PROVE  /\ StrictOrder(hits, HitOrder(hits))
           /\ \A h \in hits : Place(hits, h) = 1 + Cardinality(Ahead(hits, HitOrder(hits), h))
  <1>1. \A x, y \in hits : <<x, y>> \in HitOrder(hits) <=> HitBefore(x, y)
    BY DEF HitOrder
  <1>2. \A x \in hits : ~HitBefore(x, x)
    BY DEF HitBefore, AreHits
  <1>3. \A x, y, z \in hits : HitBefore(x, y) /\ HitBefore(y, z) => HitBefore(x, z)
    BY DEF HitBefore, AreHits
  <1>4. \A x, y \in hits : x # y => HitBefore(x, y) \/ HitBefore(y, x)
    BY DEF HitBefore, AreHits
  <1>5. \A h \in hits : {g \in hits : HitBefore(g, h)} = Ahead(hits, HitOrder(hits), h)
    BY <1>1 DEF Ahead
  <1> QED BY <1>1, <1>2, <1>3, <1>4, <1>5 DEF StrictOrder, Place

\* Sorted and cut off: the n-th of the best hits has place n, and every hit with
\* one of the first `limit' places is there.
LEMMA BestFacts ==
    ASSUME NEW hits, IsFiniteSet(hits), AreHits(hits), NEW limit \in Nat
    PROVE  /\ Cardinality(hits) \in Nat
           /\ DOMAIN Best(hits, limit) = 1..Least(limit, Cardinality(hits))
           /\ \A n \in DOMAIN Best(hits, limit) : /\ Best(hits, limit)[n] \in hits
                                                  /\ Place(hits, Best(hits, limit)[n]) = n
           /\ \A h \in hits : /\ Place(hits, h) \in 1..Cardinality(hits)
                              /\ Place(hits, h) <= limit =>
                                    /\ Place(hits, h) \in DOMAIN Best(hits, limit)
                                    /\ Best(hits, limit)[Place(hits, h)] = h
           /\ \A g, h \in hits : Place(hits, g) = Place(hits, h) => g = h
           /\ \A g, h \in hits : HitBefore(g, h) => Place(hits, g) < Place(hits, h)
  <1> DEFINE R == HitOrder(hits)
             N == Cardinality(hits)
             At(h) == Cardinality(Ahead(hits, R, h))
             best == Best(hits, limit)
  <1>1. StrictOrder(hits, R) /\ \A h \in hits : Place(hits, h) = 1 + At(h)
    BY HitsAreOrdered
  <1>2. /\ N \in Nat
        /\ \A h \in hits : At(h) \in Nat /\ At(h) < N
        /\ \A g, h \in hits : <<g, h>> \in R => At(g) < At(h)
        /\ \A g, h \in hits : At(g) = At(h) => g = h
        /\ \A n \in Nat : n < N => \E h \in hits : At(h) = n
    <2> HIDE DEF R
    <2> QED BY <1>1, PlacesInOrder
  <1>3. \A g, h \in hits : HitBefore(g, h) => <<g, h>> \in R
    BY DEF HitOrder
  <1>4. best = [n \in 1..Least(limit, N) |-> CHOOSE h \in hits : Place(hits, h) = n]
    BY DEF Best
  <1> HIDE DEF R, N, At, best
  <1>5. /\ \A h \in hits : Place(hits, h) \in 1..N
        /\ \A g, h \in hits : Place(hits, g) = Place(hits, h) => g = h
        /\ \A g, h \in hits : HitBefore(g, h) => Place(hits, g) < Place(hits, h)
        /\ \A n \in 1..N : \E h \in hits : Place(hits, h) = n
    <2>1. \A h \in hits : Place(hits, h) \in 1..N
      BY <1>1, <1>2
    <2>2. \A g, h \in hits : Place(hits, g) = Place(hits, h) => g = h
      BY <1>1, <1>2
    <2>3. ASSUME NEW g \in hits, NEW h \in hits, HitBefore(g, h)
          PROVE  Place(hits, g) < Place(hits, h)
      <3>1. At(g) < At(h) /\ At(g) \in Nat /\ At(h) \in Nat
        BY <1>2, <1>3, <2>3
      <3>2. Place(hits, g) = 1 + At(g) /\ Place(hits, h) = 1 + At(h)
        BY <1>1
      <3> QED BY <3>1, <3>2
    <2>4. ASSUME NEW n \in 1..N PROVE \E h \in hits : Place(hits, h) = n
      <3>1. n - 1 \in Nat /\ n - 1 < N
        BY <1>2
      <3>2. PICK h \in hits : At(h) = n - 1
        BY <1>2, <3>1
      <3> QED BY <1>1, <3>2
    <2> QED BY <2>1, <2>2, <2>3, <2>4
  <1>6. DOMAIN best = 1..Least(limit, N) /\ 1..Least(limit, N) \subseteq 1..N
    BY <1>2, <1>4 DEF Least
  <1>7. \A n \in DOMAIN best : best[n] \in hits /\ Place(hits, best[n]) = n
    BY <1>4, <1>5, <1>6
  <1>8. ASSUME NEW h \in hits, Place(hits, h) <= limit
        PROVE  Place(hits, h) \in DOMAIN best /\ best[Place(hits, h)] = h
    <2>1. Place(hits, h) \in DOMAIN best
      BY <1>2, <1>5, <1>6, <1>8 DEF Least
    <2> QED BY <1>5, <1>7, <2>1
  <1> QED BY <1>2, <1>5, <1>6, <1>7, <1>8 DEF N, best

\* Hits that include the best of all have the same best ones.
LEMMA BestOfMost ==
    ASSUME NEW hits, IsFiniteSet(hits), AreHits(hits), NEW limit \in Nat, NEW some \in SUBSET hits,
           \A h \in hits : Place(hits, h) <= limit => h \in some
    PROVE  Best(some, limit) = Best(hits, limit)
  <1> DEFINE R == HitOrder(hits)
             At(h) == Cardinality(Ahead(hits, R, h))
             In(h) == Cardinality(Ahead(some, R, h))
  <1>1. StrictOrder(hits, R) /\ \A h \in hits : Place(hits, h) = 1 + At(h)
    BY HitsAreOrdered
  <1>2. \A h \in some : Place(some, h) = 1 + In(h)
    <2>1. \A h \in some : {g \in some : HitBefore(g, h)} = Ahead(some, R, h)
      BY DEF Ahead, HitOrder
    <2> QED BY <2>1 DEF Place
  <1>3. \A h \in hits : At(h) \in Nat
    <2> HIDE DEF R
    <2> QED BY <1>1, PlacesInOrder
  <1>4. \A h \in hits : At(h) < limit => h \in some
    <2> HIDE DEF At
    <2> QED BY <1>1, <1>3
  <1>5. /\ IsFiniteSet(some) /\ StrictOrder(some, R)
        /\ \A n \in Nat : n < limit => (n < Cardinality(some) <=> n < Cardinality(hits))
        /\ \A h \in some, n \in Nat : n < limit => (In(h) = n <=> At(h) = n)
    <2> HIDE DEF R
    <2> QED BY <1>1, <1>4, FirstPlacesAgree
  <1>6. /\ Cardinality(hits) \in Nat /\ Cardinality(some) \in Nat
        /\ \A n \in Nat : n < Cardinality(hits) => \E h \in hits : At(h) = n
        /\ \A h \in some : In(h) \in Nat
    <2> HIDE DEF R
    <2> QED BY <1>1, <1>5, PlacesInOrder
  <1>7. Least(limit, Cardinality(some)) = Least(limit, Cardinality(hits))
    <2> DEFINE a == Cardinality(some)
               b == Cardinality(hits)
    <2>1. a \in Nat /\ b \in Nat /\ \A n \in Nat : n < limit => (n < a <=> n < b)
      BY <1>5, <1>6
    <2> HIDE DEF a, b
    <2>2. CASE a < limit
      <3>1. ~(a < b)
        BY <2>1, <2>2
      <3>2. CASE b < a
        <4>1. b < limit
          BY <2>1, <2>2, <3>2
        <4> QED BY <2>1, <3>2, <4>1
      <3> QED BY <2>1, <3>1, <3>2 DEF a, b
    <2>3. CASE ~(a < limit) /\ b < limit
      <3>1. b < a
        BY <2>1, <2>3
      <3> QED BY <2>1, <2>3, <3>1
    <2>4. CASE ~(a < limit) /\ ~(b < limit)
      BY <2>1, <2>4 DEF Least, a, b
    <2> QED BY <2>2, <2>3, <2>4
  <1>8. ASSUME NEW n \in 1..Least(limit, Cardinality(hits))
        PROVE  (CHOOSE h \in some : Place(some, h) = n) = (CHOOSE h \in hits : Place(hits, h) = n)
    <2>1. n - 1 \in Nat /\ n - 1 < limit /\ n - 1 < Cardinality(hits) /\ n \in Nat
      BY <1>6 DEF Least
    <2>2. PICK h \in hits : At(h) = n - 1
      BY <1>6, <2>1
    <2>3. \A g \in hits : Place(hits, g) = n <=> g = h
      <3>1. \A g \in hits : At(g) = n - 1 <=> g = h
        <4>1. \A g, f \in hits : At(g) = At(f) => g = f
          <5> HIDE DEF R
          <5> QED BY <1>1, PlacesInOrder
        <4> HIDE DEF At
        <4> QED BY <2>2, <4>1
      <3> HIDE DEF At
      <3> QED BY <1>1, <1>3, <2>1, <3>1
    <2>4. h \in some /\ \A g \in some : Place(some, g) = n <=> g = h
      <3>1. h \in some
        BY <1>4, <2>1, <2>2
      <3>2. \A g \in some : In(g) = n - 1 <=> At(g) = n - 1
        BY <1>5, <2>1
      <3>3. \A g \in hits : At(g) = n - 1 <=> Place(hits, g) = n
        <4> HIDE DEF At
        <4> QED BY <1>1, <1>3, <2>1
      <3>4. \A g \in some : In(g) = n - 1 <=> Place(some, g) = n
        <4> HIDE DEF In
        <4> QED BY <1>2, <1>6, <2>1
      <3> HIDE DEF At, In
      <3> QED BY <2>3, <3>1, <3>2, <3>3, <3>4
    <2> QED BY <2>3, <2>4
  <1> QED BY <1>7, <1>8 DEF Best

\* The best of the parts' best are the best of all.
LEMMA BestOfParts ==
    ASSUME NEW hits, IsFiniteSet(hits), AreHits(hits), NEW limit \in Nat, NEW part,
           \A s \in Shards : part[s] \subseteq hits,
           \A h \in hits : \E s \in Shards : h \in part[s]
    PROVE  Best(UNION {ToSet(Best(part[s], limit)) : s \in Shards}, limit) = Best(hits, limit)
  <1> DEFINE some == UNION {ToSet(Best(part[s], limit)) : s \in Shards}
  <1>1. ASSUME NEW s \in Shards
        PROVE  /\ IsFiniteSet(part[s]) /\ AreHits(part[s])
               /\ ToSet(Best(part[s], limit)) \subseteq part[s]
               /\ \A h \in part[s] : Place(part[s], h) <= limit => h \in ToSet(Best(part[s], limit))
    <2>1. IsFiniteSet(part[s]) /\ AreHits(part[s])
      BY FS_Subset DEF AreHits
    <2> QED BY <2>1, BestFacts DEF ToSet
  <1>2. some \in SUBSET hits
    BY <1>1
  <1>3. ASSUME NEW h \in hits, Place(hits, h) <= limit
        PROVE  h \in some
    <2>1. PICK s \in Shards : h \in part[s]
      OBVIOUS
    <2>2. Place(part[s], h) <= Place(hits, h) /\ Place(part[s], h) \in Nat /\ Place(hits, h) \in Nat
      <3> DEFINE A == {g \in part[s] : HitBefore(g, h)}
                 B == {g \in hits : HitBefore(g, h)}
      <3>1. A \in SUBSET B /\ B \in SUBSET hits
        OBVIOUS
      <3>2. IsFiniteSet(B)
        BY <3>1, FS_Subset
      <3>3. IsFiniteSet(A) /\ Cardinality(A) <= Cardinality(B)
        <4> HIDE DEF A, B
        <4> QED BY <3>1, <3>2, FS_Subset
      <3>4. Cardinality(A) \in Nat /\ Cardinality(B) \in Nat
        BY <3>2, <3>3, FS_CardinalityType
      <3>5. Place(part[s], h) = 1 + Cardinality(A) /\ Place(hits, h) = 1 + Cardinality(B)
        BY DEF Place
      <3> HIDE DEF A, B
      <3> QED BY <3>3, <3>4, <3>5
    <2>3. Place(part[s], h) <= limit
      BY <1>3, <2>2
    <2> QED BY <1>1, <2>1, <2>3
  <1> HIDE DEF some
  <1>4. Best(some, limit) = Best(hits, limit)
    BY <1>2, <1>3, BestOfMost
  <1> QED BY <1>4 DEF some

-----------------------------------------------------------------------------
(* Scores *)

\* What an engine that holds the documents `held' scores document d from is what
\* one engine that holds all of them scores it from.
LEMMA PostingsAgree ==
    ASSUME DerivedInv, NEW held \in SUBSET DOMAIN corpus, NEW t \in Terms
    PROVE  /\ DOMAIN Postings(OwnIndex, t) = Containing(t)
           /\ DOMAIN Postings(IndexOf(held), t) = Containing(t) \cap held
           /\ \A d \in Containing(t) : Postings(OwnIndex, t)[d] = corpus[d][t]
           /\ \A d \in Containing(t) \cap held : Postings(IndexOf(held), t)[d] = corpus[d][t]
           /\ \A d \in DOMAIN corpus : OwnIndex.lengths[d] = Length(corpus[d])
           /\ \A d \in held : IndexOf(held).lengths[d] = Length(corpus[d])
  <1>1. OwnIndex.postings = postings /\ OwnIndex.lengths = lengths
    BY DEF OwnIndex
  <1>2. /\ postings = [u \in {v \in Terms : Containing(v) # {}} |->
                          [d \in Containing(u) |-> corpus[d][u]]]
        /\ lengths = [d \in DOMAIN corpus |-> Length(corpus[d])]
    BY DEF DerivedInv, MapsAreDerived
  <1>3. /\ IndexOf(held).postings = [u \in {v \in Terms : Containing(v) \cap held # {}} |->
                                        [d \in Containing(u) \cap held |-> corpus[d][u]]]
        /\ IndexOf(held).lengths = [d \in held |-> Length(corpus[d])]
    BY DEF IndexOf
  <1>4. /\ DOMAIN Postings(OwnIndex, t) = Containing(t)
        /\ \A d \in Containing(t) : Postings(OwnIndex, t)[d] = corpus[d][t]
    <2>1. CASE Containing(t) # {}
      BY <1>1, <1>2, <2>1 DEF Postings
    <2>2. CASE Containing(t) = {}
      BY <1>1, <1>2, <2>2 DEF Postings, EmptyMap
    <2> QED BY <2>1, <2>2
  <1>5. /\ DOMAIN Postings(IndexOf(held), t) = Containing(t) \cap held
        /\ \A d \in Containing(t) \cap held : Postings(IndexOf(held), t)[d] = corpus[d][t]
    <2>1. CASE Containing(t) \cap held # {}
      BY <1>3, <2>1 DEF Postings
    <2>2. CASE Containing(t) \cap held = {}
      BY <1>3, <2>2 DEF Postings, EmptyMap
    <2> QED BY <2>1, <2>2
  <1> QED BY <1>1, <1>2, <1>3, <1>4, <1>5

\* A document scores the same wherever it lives, with the same statistics.
LEMMA ScoresAgree ==
    ASSUME DerivedInv, NEW held \in SUBSET DOMAIN corpus, NEW query \in Seq(Terms), NEW stats,
           NEW d \in held
    PROVE  DocumentScore(IndexOf(held), d, query, stats) = DocumentScore(OwnIndex, d, query, stats)
  <1> DEFINE term(index, i) ==
                 IF d \in DOMAIN Postings(index, query[i])
                 THEN Contribution(Postings(index, query[i])[d], index.lengths[d],
                                   stats.frequency[query[i]], stats)
                 ELSE 0
  <1>1. \A index : DocumentScore(index, d, query, stats)
                      = SumFunction([i \in DOMAIN query |-> term(index, i)])
    BY DEF DocumentScore
  <1>2. ASSUME NEW i \in DOMAIN query
        PROVE  term(IndexOf(held), i) = term(OwnIndex, i)
    <2>1. query[i] \in Terms
      OBVIOUS
    <2> DEFINE all == Postings(OwnIndex, query[i])
               own == Postings(IndexOf(held), query[i])
    <2>2. /\ d \in DOMAIN own <=> d \in DOMAIN all
          /\ d \in DOMAIN own => own[d] = all[d]
          /\ IndexOf(held).lengths[d] = OwnIndex.lengths[d]
      <3>1. /\ DOMAIN all = Containing(query[i]) /\ DOMAIN own = Containing(query[i]) \cap held
            /\ \A e \in Containing(query[i]) : all[e] = corpus[e][query[i]]
            /\ \A e \in Containing(query[i]) \cap held : own[e] = corpus[e][query[i]]
            /\ \A e \in DOMAIN corpus : OwnIndex.lengths[e] = Length(corpus[e])
            /\ \A e \in held : IndexOf(held).lengths[e] = Length(corpus[e])
        BY <2>1, PostingsAgree
      <3> HIDE DEF all, own
      <3> QED BY <3>1
    <2>3. CASE d \in DOMAIN own
      BY <2>2, <2>3
    <2>4. CASE d \notin DOMAIN own
      BY <2>2, <2>4
    <2> QED BY <2>3, <2>4
  <1> HIDE DEF term
  <1>3. [i \in DOMAIN query |-> term(IndexOf(held), i)] = [i \in DOMAIN query |-> term(OwnIndex, i)]
    BY <1>2
  <1> QED BY <1>1, <1>3

\* The documents that a query matches.
Matching(query) == UNION {Containing(t) : t \in TermSet(query)}

LEMMA CandidatesAgree ==
    ASSUME DerivedInv, NEW held \in SUBSET DOMAIN corpus, NEW query \in Seq(Terms)
    PROVE  /\ UNION {DOMAIN Postings(OwnIndex, t) : t \in TermSet(query)} = Matching(query)
           /\ UNION {DOMAIN Postings(IndexOf(held), t) : t \in TermSet(query)}
                 = Matching(query) \cap held
           /\ Matching(query) \subseteq DOMAIN corpus
  <1>1. \A t \in TermSet(query) : t \in Terms
    BY DEF TermSet
  <1>2. \A t \in TermSet(query) : /\ DOMAIN Postings(OwnIndex, t) = Containing(t)
                                  /\ DOMAIN Postings(IndexOf(held), t) = Containing(t) \cap held
    BY <1>1, PostingsAgree
  <1>3. \A t : Containing(t) \subseteq DOMAIN corpus
    BY DEF Containing
  <1> QED BY <1>2, <1>3, ZenonT(40) DEF Matching


LEMMA ProductsAreNatural == \A m, n \in Nat : m * n \in Nat
  OBVIOUS

LEMMA QuotientsAreNatural == \A m \in Nat, n \in Nat \ {0} : m \div n \in Nat
  OBVIOUS

\* Scores are numbers, so that any two of them can be compared.
LEMMA ContributionIsNatural ==
    ASSUME NEW tf \in Nat, NEW len \in Nat, NEW df \in Nat, NEW stats,
           stats.documents \in Nat, stats.length \in Nat \ {0}
    PROVE  Contribution(tf, len, df, stats) \in Nat
  <1> DEFINE n == stats.documents
             l == stats.length
             idf == Idf(df, n)
             bottom == l * (10 * tf + 3) + 9 * len * n
  <1>1. idf \in Nat
    <2>1. 1000 * (2 * n + 2) \in Nat /\ 2 * df + 1 \in Nat \ {0}
      OBVIOUS
    <2> QED BY <2>1, QuotientsAreNatural DEF Idf
  <1>2. bottom \in Nat \ {0}
    <2>1. l \in Nat /\ 10 * tf + 2 \in Nat /\ 9 * len \in Nat
      OBVIOUS
    <2>2. l * (10 * tf + 2) \in Nat /\ (9 * len) * n \in Nat
      BY <2>1, ProductsAreNatural
    <2>3. l * (10 * tf + 3) = l * (10 * tf + 2) + l
      BY <2>1
    <2>4. \A a, b \in Nat : \A c \in Nat \ {0} : a + c + b \in Nat \ {0}
      OBVIOUS
    <2>5. bottom = l * (10 * tf + 2) + l + (9 * len) * n
      BY <2>3
    <2> HIDE DEF bottom
    <2> QED BY <2>2, <2>4, <2>5
  <1>3. idf * 22 * tf * l \in Nat
    <2>1. idf * 22 \in Nat /\ l \in Nat
      BY <1>1
    <2> HIDE DEF idf, l
    <2>2. (idf * 22) * tf \in Nat
      BY <2>1, ProductsAreNatural
    <2> QED BY <2>1, <2>2, ProductsAreNatural
  <1>4. Contribution(tf, len, df, stats) = (idf * 22 * tf * l) \div bottom
    BY DEF Contribution
  <1> HIDE DEF idf, bottom, l
  <1> QED BY <1>2, <1>3, <1>4, QuotientsAreNatural

\* The statistics of the whole corpus are numbers.
LEMMA StatsAreNatural ==
    ASSUME CountInv
    PROVE  /\ CorpusStats(Terms).documents \in Nat
           /\ CorpusStats(Terms).length \in Nat
           /\ \A t \in Terms : CorpusStats(Terms).frequency[t] \in Nat
  <1>1. /\ DOMAIN lengths = DOMAIN corpus /\ IsFiniteSet(DOMAIN corpus)
        /\ \A d \in DOMAIN corpus : lengths[d] \in Nat
        /\ total = SumFunctionOnSet(lengths, DOMAIN lengths)
    BY LengthsTyped DEF CountInv, SumFunction
  <1>2. Cardinality(DOMAIN lengths) \in Nat
    BY <1>1, FS_CardinalityType
  <1>3. total \in Nat
    BY <1>1, SumNatural
  <1>4. \A t \in Terms : DocumentFrequency(t) \in Nat
    BY FrequencyFacts, FS_CardinalityType
  <1> QED BY <1>2, <1>3, <1>4 DEF CorpusStats

\* So are the scores of a corpus that has a token.
LEMMA ScoreIsNatural ==
    ASSUME CountInv, NEW query \in Seq(Terms), NEW d \in DOMAIN corpus,
           CorpusStats(Terms).length # 0
    PROVE  DocumentScore(OwnIndex, d, query, CorpusStats(Terms)) \in Nat
  <1> DEFINE stats == CorpusStats(Terms)
             f == [i \in DOMAIN query |->
                     LET own == Postings(OwnIndex, query[i])
                     IN  IF d \in DOMAIN own
                         THEN Contribution(own[d], OwnIndex.lengths[d],
                                           stats.frequency[query[i]], stats)
                         ELSE 0]
  <1>1. DocumentScore(OwnIndex, d, query, stats) = SumFunction(f)
    BY DEF DocumentScore
  <1>2. /\ stats.documents \in Nat /\ stats.length \in Nat \ {0}
        /\ \A t \in Terms : stats.frequency[t] \in Nat
    BY StatsAreNatural
  <1> HIDE DEF stats
  <1>3. ASSUME NEW i \in DOMAIN query
        PROVE  f[i] \in Nat
    <2> DEFINE own == Postings(OwnIndex, query[i])
    <2>1. query[i] \in Terms
      OBVIOUS
    <2>2. corpus[d] \in Texts /\ corpus[d] \in [Terms -> Nat] /\ Length(corpus[d]) \in Nat
      BY LengthsTyped, LengthFacts DEF CountInv
    <2>3. /\ d \in DOMAIN own => own[d] = corpus[d][query[i]]
          /\ OwnIndex.lengths[d] = Length(corpus[d])
      BY <2>1, PostingsAgree DEF CountInv
    <2>4. CASE d \in DOMAIN own
      <3>1. own[d] \in Nat /\ OwnIndex.lengths[d] \in Nat /\ stats.frequency[query[i]] \in Nat
        BY <1>2, <2>1, <2>2, <2>3, <2>4
      <3> HIDE DEF own
      <3>2. Contribution(own[d], OwnIndex.lengths[d], stats.frequency[query[i]], stats) \in Nat
        BY <1>2, <3>1, ContributionIsNatural
      <3> QED BY <2>4, <3>2 DEF own
    <2>5. CASE d \notin DOMAIN own
      BY <2>5
    <2> QED BY <2>4, <2>5
  <1>4. DOMAIN f = DOMAIN query /\ IsFiniteSet(DOMAIN query)
    <2>1. DOMAIN query = 1..Len(query) /\ 1 \in Int /\ Len(query) \in Int
      OBVIOUS
    <2> QED BY <2>1, FS_Interval
  <1> HIDE DEF f
  <1>5. SumFunctionOnSet(f, DOMAIN f) \in Nat
    BY <1>3, <1>4, SumNatural
  <1> QED BY <1>1, <1>5 DEF SumFunction, stats


-----------------------------------------------------------------------------
(* One engine and many *)

\* The statistics that the coordinator gathers are those of the whole corpus.
LEMMA StatsAgree ==
    ASSUME CountInv, NEW route \in [DOMAIN corpus -> Shards]
    PROVE  MergeCorpusStats([s \in Shards |-> IndexOf(Held(route, s)).stats]) = CorpusStats(Terms)
  <1> DEFINE on(s) == {d \in DOMAIN corpus : route[d] = s}
             part(s) == [documents |-> Cardinality(on(s)),
                         length |-> SumFunction([d \in on(s) |-> Length(corpus[d])]),
                         frequency |-> [t \in Terms |-> Cardinality(on(s) \cap Containing(t))]]
  <1>1. MergeCorpusStats([s \in Shards |-> part(s)]) = CorpusStats(Terms)
    BY CountsMerge DEF StatsMergeExactly
  <1>2. ASSUME NEW s \in Shards
        PROVE  IndexOf(Held(route, s)).stats = part(s)
    <2>1. \A t \in Terms : Containing(t) \cap Held(route, s) = on(s) \cap Containing(t)
      BY DEF Held
    <2>2. IndexOf(Held(route, s)).stats =
             [documents |-> Cardinality(Held(route, s)),
              length |-> SumFunction([d \in Held(route, s) |-> Length(corpus[d])]),
              frequency |-> [t \in Terms |-> Cardinality(Containing(t) \cap Held(route, s))]]
      BY DEF IndexOf
    <2>3. Held(route, s) = on(s)
      BY DEF Held
    <2>4. [t \in Terms |-> Cardinality(Containing(t) \cap Held(route, s))]
             = [t \in Terms |-> Cardinality(on(s) \cap Containing(t))]
      BY <2>1
    <2> QED BY <2>2, <2>3, <2>4
  <1> HIDE DEF part
  <1>3. [s \in Shards |-> IndexOf(Held(route, s)).stats] = [s \in Shards |-> part(s)]
    BY <1>2
  <1> QED BY <1>1, <1>3

\* One hit per document, made by the function f.
LEMMA HitsOfDocuments ==
    ASSUME CountInv, NEW docs \in SUBSET DOMAIN corpus, NEW score, \A d \in docs : score[d] \in Int,
           NEW hits, hits = {[doc |-> d, score |-> score[d]] : d \in docs}
    PROVE  IsFiniteSet(hits) /\ AreHits(hits) /\ Cardinality(hits) = Cardinality(docs)
  <1> DEFINE f == [d \in docs |-> [doc |-> d, score |-> score[d]]]
  <1>1. IsFiniteSet(docs)
    BY FS_Subset DEF CountInv
  <1>2. f \in [docs -> hits] /\ (\A h \in hits : \E d \in docs : f[d] = h)
    OBVIOUS
  <1>3. \A d, e \in docs : f[d] = f[e] => d = e
    <2>1. \A d \in docs : f[d].doc = d
      OBVIOUS
    <2> HIDE DEF f
    <2> QED BY <2>1
  <1>4. AreHits(hits)
    <2>1. \A d \in docs : d \in Int
      BY RankingAssumption DEF CountInv, DerivedInv, CorpusType
    <2> QED BY <2>1 DEF AreHits
  <1> HIDE DEF f
  <1>5. f \in Surjection(docs, hits)
    BY <1>2 DEF Surjection
  <1>6. f \in Injection(docs, hits)
    BY <1>2, <1>3 DEF Injection, IsInjective
  <1> QED BY <1>1, <1>4, <1>5, <1>6, FS_Surjection

\* The hits of a query are of documents of the corpus.
LEMMA QueryHits ==
    ASSUME CountInv, NEW query \in Seq(Terms), NEW hits,
           hits = ScoreQuery(OwnIndex, query, CorpusStats(Terms))
    PROVE  IsFiniteSet(hits) /\ AreHits(hits) /\ \A h \in hits : h.doc \in DOMAIN corpus
  <1> DEFINE stats == CorpusStats(Terms)
             score == [d \in DOMAIN corpus |-> DocumentScore(OwnIndex, d, query, stats)]
  <1>1. CASE stats.documents = 0 \/ stats.length = 0
    <2>1. hits = {}
      BY <1>1 DEF ScoreQuery
    <2> QED BY <2>1, FS_EmptySet DEF AreHits
  <1>2. CASE ~(stats.documents = 0 \/ stats.length = 0)
    <2>1. /\ UNION {DOMAIN Postings(OwnIndex, t) : t \in TermSet(query)} = Matching(query)
          /\ Matching(query) \in SUBSET DOMAIN corpus
      BY CandidatesAgree DEF CountInv
    <2>2. \A d \in DOMAIN corpus : score[d] \in Int
      BY <1>2, ScoreIsNatural
    <2>3. hits = {[doc |-> d, score |-> DocumentScore(OwnIndex, d, query, stats)] : d \in Matching(query)}
      BY <1>2, <2>1 DEF ScoreQuery
    <2>4. hits = {[doc |-> d, score |-> score[d]] : d \in Matching(query)}
      BY <2>1, <2>3
    <2> HIDE DEF score
    <2>5. IsFiniteSet(hits) /\ AreHits(hits)
      BY <2>1, <2>2, <2>4, HitsOfDocuments
    <2>6. \A h \in hits : h.doc \in DOMAIN corpus
      BY <2>1, <2>4
    <2> QED BY <2>5, <2>6
  <1> QED BY <1>1, <1>2

\* A shard's hits are those of its documents.
LEMMA ShardHits ==
    ASSUME CountInv, NEW route \in [DOMAIN corpus -> Shards], NEW query \in Seq(Terms),
           NEW s \in Shards
    PROVE  ScoreQuery(IndexOf(Held(route, s)), query, CorpusStats(Terms))
              = {h \in ScoreQuery(OwnIndex, query, CorpusStats(Terms)) : route[h.doc] = s}
  <1> DEFINE stats == CorpusStats(Terms)
             held == Held(route, s)
             hit(d) == [doc |-> d, score |-> DocumentScore(OwnIndex, d, query, stats)]
  <1>1. CASE stats.documents = 0 \/ stats.length = 0
    BY <1>1 DEF ScoreQuery
  <1>2. CASE ~(stats.documents = 0 \/ stats.length = 0)
    <2>1. held \in SUBSET DOMAIN corpus /\ held = {d \in DOMAIN corpus : route[d] = s}
      BY DEF Held
    <2> HIDE DEF held, stats
    <2>2. /\ UNION {DOMAIN Postings(OwnIndex, t) : t \in TermSet(query)} = Matching(query)
          /\ UNION {DOMAIN Postings(IndexOf(held), t) : t \in TermSet(query)}
                = Matching(query) \cap held
          /\ Matching(query) \subseteq DOMAIN corpus
      BY <2>1, CandidatesAgree DEF CountInv
    <2>3. ScoreQuery(OwnIndex, query, stats) = {hit(d) : d \in Matching(query)}
      BY <1>2, <2>2 DEF ScoreQuery
    <2>4. ScoreQuery(IndexOf(held), query, stats) =
             {[doc |-> d, score |-> DocumentScore(IndexOf(held), d, query, stats)] :
                 d \in Matching(query) \cap held}
      BY <1>2, <2>2 DEF ScoreQuery
    <2>5. \A d \in held : DocumentScore(IndexOf(held), d, query, stats)
                             = DocumentScore(OwnIndex, d, query, stats)
      BY <2>1, ScoresAgree DEF CountInv
    <2>6. ScoreQuery(IndexOf(held), query, stats) = {hit(d) : d \in Matching(query) \cap held}
      BY <2>4, <2>5
    <2>7. \A d : hit(d).doc = d
      OBVIOUS
    <2> HIDE DEF hit
    <2>8. {hit(d) : d \in Matching(query) \cap held}
             = {h \in {hit(d) : d \in Matching(query)} : route[h.doc] = s}
      BY <2>1, <2>2, <2>7
    <2> QED BY <2>3, <2>6, <2>8 DEF held, stats
  <1> QED BY <1>1, <1>2


\* Merging the shards' best hits gives the best of all, and their number.
LEMMA MergeIsBest ==
    ASSUME NEW hits, IsFiniteSet(hits), AreHits(hits), NEW limit \in Nat, NEW route,
           \A h \in hits : route[h.doc] \in Shards,
           NEW part, DOMAIN part = Shards, \A s \in Shards : part[s] = {h \in hits : route[h.doc] = s},
           NEW answer, DOMAIN answer = Shards,
           \A s \in Shards : answer[s].results = Best(part[s], limit),
           \A s \in Shards : answer[s].total = Cardinality(part[s])
    PROVE  Merge(answer, limit) = [total |-> Cardinality(hits), results |-> Best(hits, limit)]
  <1> DEFINE count == [s \in Shards |-> answer[s].total]
             shardOf == [h \in hits |-> route[h.doc]]
  <1>1. SumFunction(count) = Cardinality(hits)
    <2>1. DOMAIN count = Shards /\ IsFiniteSet(Shards) /\ \A h \in hits : shardOf[h] \in Shards
      BY TextAssumption
    <2>2. \A s \in Shards : count[s] = Cardinality({h \in hits : shardOf[h] = s})
      <3>1. \A s \in Shards : {h \in hits : shardOf[h] = s} = part[s]
        OBVIOUS
      <3> QED BY <3>1
    <2> HIDE DEF count, shardOf
    <2> QED BY <2>1, <2>2, CountParts
  <1>2. UNION {ToSet(answer[s].results) : s \in Shards}
           = UNION {ToSet(Best(part[s], limit)) : s \in Shards}
    OBVIOUS
  <1>3. Best(UNION {ToSet(Best(part[s], limit)) : s \in Shards}, limit) = Best(hits, limit)
    <2>1. \A s \in Shards : part[s] \subseteq hits
      OBVIOUS
    <2>2. \A h \in hits : \E s \in Shards : h \in part[s]
      OBVIOUS
    <2> QED BY <2>1, <2>2, BestOfParts
  <1> HIDE DEF count
  <1> QED BY <1>1, <1>2, <1>3 DEF Merge, count

\* No hits, no results.
LEMMA NoHits == \A limit \in Nat : [total |-> Cardinality({}), results |-> Best({}, limit)] = NoResults
  <1> SUFFICES ASSUME NEW limit \in Nat PROVE Cardinality({}) = 0 /\ Best({}, limit) = << >>
    BY DEF NoResults
  <1>1. Cardinality({}) = 0
    BY FS_EmptySet
  <1>2. 1..Least(limit, Cardinality({})) = {}
    BY <1>1 DEF Least
  <1> QED BY <1>1, <1>2 DEF Best

\* Coordinator.search answers what one engine answers.
LEMMA SearchAgrees ==
    ASSUME CountInv, NEW route \in [DOMAIN corpus -> Shards], NEW query \in Seq(Terms),
           NEW limit \in Nat
    PROVE  DistributedSearch(route, query, limit)
              = Search(OwnIndex, query, limit, CorpusStats(Terms))
  <1> DEFINE stats == CorpusStats(Terms)
             index == [s \in Shards |-> IndexOf(Held(route, s))]
             hits == ScoreQuery(OwnIndex, query, stats)
             part == [s \in Shards |-> ScoreQuery(index[s], query, stats)]
             answer == [s \in Shards |-> Search(index[s], query, limit, stats)]
  <1>1. MergeCorpusStats([s \in Shards |-> index[s].stats]) = stats
    <2>1. [s \in Shards |-> index[s].stats] = [s \in Shards |-> IndexOf(Held(route, s)).stats]
      OBVIOUS
    <2> QED BY <2>1, StatsAgree
  <1>2. DistributedSearch(route, query, limit)
           = IF query = << >> \/ stats.documents = 0 THEN NoResults ELSE Merge(answer, limit)
    <2> HIDE DEF stats
    <2> QED BY <1>1 DEF DistributedSearch
  <1>3. Search(OwnIndex, query, limit, stats)
           = IF query = << >> THEN NoResults
             ELSE [total |-> Cardinality(hits), results |-> Best(hits, limit)]
    BY DEF Search
  <1>4. CASE query = << >>
    BY <1>2, <1>3, <1>4
  <1>5. CASE query # << >> /\ stats.documents = 0
    <2>1. hits = {}
      BY <1>5 DEF ScoreQuery
    <2> HIDE DEF hits, stats
    <2> QED BY <1>2, <1>3, <1>5, <2>1, NoHits DEF stats
  <1>6. CASE query # << >> /\ stats.documents # 0
    <2>1. /\ IsFiniteSet(hits) /\ AreHits(hits)
          /\ \A h \in hits : route[h.doc] \in Shards
      BY QueryHits
    <2>2. DOMAIN part = Shards /\ \A s \in Shards : part[s] = {h \in hits : route[h.doc] = s}
      BY ShardHits
    <2>3. DOMAIN answer = Shards /\ \A s \in Shards : /\ answer[s].results = Best(part[s], limit)
                                                      /\ answer[s].total = Cardinality(part[s])
      BY <1>6 DEF Search
    <2> HIDE DEF hits, part, answer, stats
    <2>4. Merge(answer, limit) = [total |-> Cardinality(hits), results |-> Best(hits, limit)]
      BY <2>1, <2>2, <2>3, MergeIsBest
    <2> QED BY <1>2, <1>3, <1>6, <2>4 DEF stats
  <1> QED BY <1>4, <1>5, <1>6

\* Coordinator.semantic_search answers what one engine answers.
LEMMA SemanticAgrees ==
    ASSUME CountInv, NEW route \in [DOMAIN corpus -> Shards], NEW query \in Queries,
           NEW limit \in Nat
    PROVE  DistributedSemanticSearch(route, query, limit)
              = SemanticSearch(DOMAIN corpus, query, limit)
  <1> DEFINE score == [d \in DOMAIN corpus |-> Embed[corpus[d]] * EmbedQuery[query]]
             hitsOf(held) == {[doc |-> d, score |-> Embed[corpus[d]] * EmbedQuery[query]] : d \in held}
             hits == hitsOf(DOMAIN corpus)
             part == [s \in Shards |-> hitsOf(Held(route, s))]
             answer == [s \in Shards |-> SemanticSearch(Held(route, s), query, limit)]
  <1>1. \A d \in DOMAIN corpus : score[d] \in Int
    <2>1. \A d \in DOMAIN corpus : corpus[d] \in Texts
      BY LengthsTyped DEF CountInv
    <2> QED BY <2>1, RankingAssumption
  <1>2. ASSUME NEW held \in SUBSET DOMAIN corpus
        PROVE  /\ IsFiniteSet(hitsOf(held)) /\ AreHits(hitsOf(held))
               /\ Cardinality(hitsOf(held)) = Cardinality(held)
    <2>1. hitsOf(held) = {[doc |-> d, score |-> score[d]] : d \in held}
      OBVIOUS
    <2> HIDE DEF score, hitsOf
    <2> QED BY <1>1, <2>1, HitsOfDocuments
  <1>3. \A s \in Shards : Held(route, s) \in SUBSET DOMAIN corpus
    BY DEF Held
  <1>4. DOMAIN part = Shards /\ \A s \in Shards : part[s] = {h \in hits : route[h.doc] = s}
    BY DEF Held
  <1>5. \A h \in hits : route[h.doc] \in Shards
    OBVIOUS
  <1>6. \A held : SemanticSearch(held, query, limit)
                     = [total |-> Cardinality(held), results |-> Best(hitsOf(held), limit)]
    BY DEF SemanticSearch
  <1>7. DOMAIN answer = Shards /\ \A s \in Shards : /\ answer[s].results = Best(part[s], limit)
                                                    /\ answer[s].total = Cardinality(part[s])
    <2> HIDE DEF hitsOf
    <2> QED BY <1>2, <1>3, <1>6
  <1>8. /\ IsFiniteSet(hits) /\ AreHits(hits) /\ Cardinality(hits) = Cardinality(DOMAIN corpus)
    BY <1>2
  <1>9. DistributedSemanticSearch(route, query, limit) = Merge(answer, limit)
    BY DEF DistributedSemanticSearch
  <1>10. SemanticSearch(DOMAIN corpus, query, limit)
            = [total |-> Cardinality(hits), results |-> Best(hits, limit)]
    BY <1>6, <1>8
  <1> HIDE DEF hits, part, answer
  <1> QED BY <1>4, <1>5, <1>7, <1>8, <1>9, <1>10, MergeIsBest, SMTT(20)

LEMMA DepthIsNatural == \A limit \in Limits : limit \in Nat /\ CandidateDepth(limit) \in Limits
  <1> SUFFICES ASSUME NEW limit \in Limits PROVE limit \in Nat /\ CandidateDepth(limit) \in Limits
    OBVIOUS
  <1>1. MaxDepth \in Nat \ {0} /\ Multiplier \in Nat \ {0} /\ limit \in Nat \ {0}
    BY RankingAssumption DEF Limits
  <1>2. limit * Multiplier \in Nat \ {0}
    BY <1>1
  <1> QED BY <1>1, <1>2 DEF CandidateDepth, Limits, Least

\* Coordinator.search and Coordinator.semantic_search return the documents, the
\* order, the scores and the total of one engine that holds the whole corpus,
\* however documents are routed and whatever has been added, replaced and removed
\* before.
THEOREM SearchIsAlwaysSingleNode == Spec => []SearchIsSingleNode
  <1>1. CountInv => SearchIsSingleNode
    <2> SUFFICES ASSUME CountInv, NEW route \in [DOMAIN corpus -> Shards],
                        NEW query \in Queries, NEW limit \in Limits
                 PROVE  /\ DistributedSearch(route, query, limit)
                              = Search(OwnIndex, query, limit, CorpusStats(Terms))
                        /\ DistributedSemanticSearch(route, query, limit)
                              = SemanticSearch(DOMAIN corpus, query, limit)
      BY DEF SearchIsSingleNode
    <2>1. limit \in Nat /\ query \in Seq(Terms)
      BY DepthIsNatural, RankingAssumption
    <2>2. DistributedSearch(route, query, limit) = Search(OwnIndex, query, limit, CorpusStats(Terms))
      BY <2>1, SearchAgrees
    <2>3. DistributedSemanticSearch(route, query, limit) = SemanticSearch(DOMAIN corpus, query, limit)
      BY <2>1, SemanticAgrees
    <2> QED BY <2>2, <2>3
  <1> QED BY <1>1, CountAlways, PTL

\* So does Coordinator.hybrid_search: both of the lists it fuses are cut off
\* where those of one engine are.
THEOREM HybridIsAlwaysSingleNode == Spec => []HybridIsSingleNode
  <1>1. CountInv => HybridIsSingleNode
    <2> SUFFICES ASSUME CountInv, NEW route \in [DOMAIN corpus -> Shards],
                        NEW query \in Queries, NEW limit \in Limits
                 PROVE  DistributedHybridSearch(route, query, limit) = HybridSearch(query, limit)
      BY DEF HybridIsSingleNode
    <2> DEFINE depth == CandidateDepth(limit)
    <2>1. depth \in Nat /\ query \in Seq(Terms)
      BY DepthIsNatural, RankingAssumption
    <2> HIDE DEF depth
    <2>2. DistributedSearch(route, query, depth) = Search(OwnIndex, query, depth, CorpusStats(Terms))
      BY <2>1, SearchAgrees
    <2>3. DistributedSemanticSearch(route, query, depth) = SemanticSearch(DOMAIN corpus, query, depth)
      BY <2>1, SemanticAgrees
    <2> QED BY <2>2, <2>3 DEF DistributedHybridSearch, HybridSearch, depth
  <1> QED BY <1>1, CountAlways, PTL


-----------------------------------------------------------------------------
(* Fusion *)

\* The step of the product that reciprocal ranks are taken of.
Multiplied(product, r) == IF r = 0 THEN 1 ELSE product[r - 1] * (RrfK + r)

\* The denominator is such a product, of positive numbers.
LEMMA DenominatorDefined ==
    \E product \in [0..MaxDepth -> Nat \ {0}] :
        /\ \A r \in 0..MaxDepth : product[r] = Multiplied(product, r)
        /\ Denominator = product[MaxDepth]
  <1> DEFINE Positive == Nat \ {0}
             Products(m) == {p \in [0..m -> Positive] : \A r \in 0..m : p[r] = Multiplied(p, r)}
             good == {m \in 0..MaxDepth : Products(m) # {}}
  <1>1. MaxDepth \in Nat /\ RrfK \in Nat
    BY RankingAssumption
  <1>2. 0 \in good
    <2>1. [r \in 0..0 |-> 1] \in Products(0)
      BY DEF Multiplied
    <2> HIDE DEF Products
    <2> QED BY <1>1, <2>1
  <1>3. ASSUME NEW m \in 1..MaxDepth, m - 1 \in good
        PROVE  m \in good
    <2>1. PICK p : p \in Products(m - 1)
      BY <1>3
    <2> DEFINE more == [r \in 0..m |-> IF r = m THEN Multiplied(p, m) ELSE p[r]]
    <2>2. Multiplied(p, m) \in Positive
      <3>1. p[m - 1] \in Positive /\ RrfK + m \in Positive /\ m # 0
        BY <1>1, <2>1
      <3>2. \A a, b \in Positive : a * b \in Positive
        OBVIOUS
      <3> HIDE DEF Positive, Products
      <3> QED BY <3>1, <3>2 DEF Multiplied
    <2>3. more \in [0..m -> Positive]
      <3>1. \A r \in 0..m : r # m => p[r] \in Positive
        BY <1>1, <2>1
      <3> HIDE DEF Positive, Products
      <3> QED BY <2>2, <3>1
    <2>4. ASSUME NEW r \in 0..m
          PROVE  more[r] = Multiplied(more, r)
      <3>1. r # 0 => more[r - 1] = p[r - 1]
        BY <1>1
      <3>2. Multiplied(more, r) = Multiplied(p, r)
        BY <3>1 DEF Multiplied
      <3>3. r # m => p[r] = Multiplied(p, r)
        BY <1>1, <2>1
      <3> QED BY <3>2, <3>3
    <2>5. more \in Products(m)
      BY <2>3, <2>4
    <2> HIDE DEF Products, more
    <2> QED BY <1>1, <2>5
  <1>4. MaxDepth \in good
    <2> HIDE DEF good
    <2>1. \A r \in 0..MaxDepth : r \in good
      BY <1>1, <1>2, <1>3, UpTo
    <2> QED BY <1>1, <2>1
  <1>5. PICK p : p \in Products(MaxDepth)
    BY <1>4
  <1> DEFINE Full(q) == q = [r \in 0..MaxDepth |-> IF r = 0 THEN 1 ELSE q[r - 1] * (RrfK + r)]
             all == CHOOSE q : Full(q)
  <1>6. Full(p)
    BY <1>5 DEF Multiplied
  <1>7. Full(all)
    <2> HIDE DEF Full
    <2> QED BY <1>6
  <1>8. Denominator = all[MaxDepth]
    BY DEF Denominator
  <1>9. \A r \in 0..MaxDepth : all[r] = Multiplied(all, r)
    <2> HIDE DEF all
    <2> QED BY <1>7 DEF Multiplied
  <1>10. all \in [0..MaxDepth -> Positive]
    <2> DEFINE same == {r \in 0..MaxDepth : all[r] = p[r]}
    <2> HIDE DEF all
    <2>1. \A r \in 0..MaxDepth : p[r] = Multiplied(p, r)
      BY <1>5
    <2>2. 0 \in same
      BY <1>1, <1>9, <2>1 DEF Multiplied
    <2>3. ASSUME NEW r \in 1..MaxDepth, r - 1 \in same PROVE r \in same
      <3>1. r # 0 /\ r \in 0..MaxDepth /\ all[r - 1] = p[r - 1]
        BY <1>1, <2>3
      <3> QED BY <1>9, <2>1, <3>1 DEF Multiplied
    <2>4. \A r \in 0..MaxDepth : r \in same
      <3> HIDE DEF same
      <3> QED BY <1>1, <2>2, <2>3, UpTo
    <2>5. all = [r \in 0..MaxDepth |-> all[r]]
      BY <1>7
    <2>6. \A r \in 0..MaxDepth : p[r] \in Positive
      BY <1>5
    <2> HIDE DEF Positive
    <2> QED BY <2>4, <2>5, <2>6
  <1> HIDE DEF all
  <1> QED BY <1>8, <1>9, <1>10

\* Every rank divides it.
LEMMA RanksDivide ==
    ASSUME NEW r \in 1..MaxDepth
    PROVE  \E q \in Nat \ {0} : Denominator = q * (RrfK + r)
  <1>1. PICK product \in [0..MaxDepth -> Nat \ {0}] :
           /\ \A i \in 0..MaxDepth : product[i] = Multiplied(product, i)
           /\ Denominator = product[MaxDepth]
    BY DenominatorDefined
  <1> DEFINE Positive == Nat \ {0}
             good == {i \in 0..MaxDepth : r <= i => \E q \in Positive : product[i] = q * (RrfK + r)}
  <1>2. MaxDepth \in Nat /\ RrfK \in Nat /\ r \in Nat /\ r # 0 /\ r <= MaxDepth
    BY RankingAssumption
  <1>3. 0 \in good
    BY <1>2
  <1>4. ASSUME NEW i \in 1..MaxDepth, i - 1 \in good
        PROVE  i \in good
    <2> SUFFICES ASSUME r <= i PROVE \E q \in Positive : product[i] = q * (RrfK + r)
      BY <1>2
    <2>1. product[i] = product[i - 1] * (RrfK + i)
      BY <1>1, <1>2 DEF Multiplied
    <2>2. product[i - 1] \in Positive /\ RrfK + i \in Positive
      BY <1>1, <1>2
    <2>3. CASE r = i
      BY <2>1, <2>2, <2>3
    <2>4. CASE r # i
      <3>1. r <= i - 1
        BY <1>2, <2>4
      <3>2. PICK q \in Positive : product[i - 1] = q * (RrfK + r)
        BY <1>4, <3>1
      <3>3. \A a, b \in Positive : a * b \in Positive
        OBVIOUS
      <3>4. q * (RrfK + i) \in Positive
        <4> HIDE DEF Positive
        <4> QED BY <2>2, <3>3
      <3>5. \A a, b, c \in Nat : (a * b) * c = (a * c) * b
        OBVIOUS
      <3>6. (q * (RrfK + r)) * (RrfK + i) = (q * (RrfK + i)) * (RrfK + r)
        <4>1. q \in Nat /\ RrfK + r \in Nat /\ RrfK + i \in Nat
          BY <1>2
        <4> QED BY <3>5, <4>1
      <3>7. product[i] = (q * (RrfK + i)) * (RrfK + r)
        BY <2>1, <3>2, <3>6
      <3> QED BY <3>4, <3>7
    <2> QED BY <2>3, <2>4
  <1>5. MaxDepth \in good
    <2> HIDE DEF good
    <2>1. \A i \in 0..MaxDepth : i \in good
      BY <1>2, <1>3, <1>4, UpTo
    <2> QED BY <1>2, <2>1
  <1> QED BY <1>1, <1>2, <1>5

\* A better rank is worth strictly more, with nothing lost in the division.
LEMMA ReciprocalsFall ==
    ASSUME NEW i \in 1..MaxDepth, NEW j \in 1..MaxDepth
    PROVE  /\ Denominator \div (RrfK + i) \in Nat \ {0}
           /\ i < j => Denominator \div (RrfK + j) < Denominator \div (RrfK + i)
  <1>1. RrfK \in Nat /\ i \in Nat \ {0} /\ j \in Nat \ {0}
    BY RankingAssumption
  <1>2. \A q \in Nat, n \in Nat \ {0} : (q * n) \div n = q
    OBVIOUS
  <1>3. PICK p \in Nat \ {0} : Denominator = p * (RrfK + i)
    BY RanksDivide
  <1>4. PICK q \in Nat \ {0} : Denominator = q * (RrfK + j)
    BY RanksDivide
  <1>5. Denominator \div (RrfK + i) = p /\ Denominator \div (RrfK + j) = q
    <2>1. RrfK + i \in Nat \ {0} /\ RrfK + j \in Nat \ {0}
      BY <1>1
    <2> QED BY <1>2, <1>3, <1>4, <2>1
  <1>6. ASSUME i < j PROVE q < p
    <2> DEFINE a == RrfK + i
               b == RrfK + j
    <2>1. a \in Nat \ {0} /\ b \in Nat \ {0} /\ a < b /\ p * a = q * b
      BY <1>1, <1>3, <1>4, <1>6
    <2> HIDE DEF a, b
    <2>2. \A x, y, z \in Nat : x <= y => x * z <= y * z
      OBVIOUS
    <2>3. \A x \in Nat \ {0} : \A y, z \in Nat : y < z => x * y < x * z
      OBVIOUS
    <2>4. CASE p <= q
      <3>1. p * a <= q * a
        BY <2>1, <2>2, <2>4
      <3>2. q * a < q * b
        BY <2>1, <2>3
      <3>3. p * a \in Nat /\ q * a \in Nat /\ q * b \in Nat
        BY <2>1, ProductsAreNatural
      <3> QED BY <2>1, <3>1, <3>2, <3>3
    <2> QED BY <2>4
  <1> QED BY <1>5, <1>6


OnePerDocument(hits) == \A g, h \in hits : g.doc = h.doc => g = h

\* The ids of a ranking: each has one rank, and there are as many as places.
LEMMA RankingFacts ==
    ASSUME NEW hits, IsFiniteSet(hits), AreHits(hits), OnePerDocument(hits), NEW limit \in Nat,
           NEW list, list = Best(hits, limit)
    PROVE  /\ DOMAIN list = 1..Least(limit, Cardinality(hits))
           /\ \A i \in DOMAIN list : Rank(list, list[i].doc) = i
           /\ \A d \in Ids(list) : Rank(list, d) \in DOMAIN list /\ list[Rank(list, d)].doc = d
           /\ IsFiniteSet(Ids(list)) /\ Cardinality(Ids(list)) = Least(limit, Cardinality(hits))
           /\ Least(limit, Cardinality(hits)) \in Nat
  <1> DEFINE N == Least(limit, Cardinality(hits))
             f == [i \in 1..N |-> list[i].doc]
  <1>1. /\ N \in Nat /\ DOMAIN list = 1..N
        /\ \A i \in 1..N : list[i] \in hits /\ Place(hits, list[i]) = i
    <2>1. /\ Cardinality(hits) \in Nat /\ DOMAIN list = 1..N
          /\ \A i \in 1..N : list[i] \in hits /\ Place(hits, list[i]) = i
      <3>1. /\ Cardinality(hits) \in Nat /\ DOMAIN Best(hits, limit) = 1..N
            /\ \A i \in DOMAIN Best(hits, limit) : /\ Best(hits, limit)[i] \in hits
                                                   /\ Place(hits, Best(hits, limit)[i]) = i
        BY BestFacts
      <3> HIDE DEF N
      <3> QED BY <3>1
    <2> QED BY <2>1 DEF Least
  <1> HIDE DEF N
  <1>2. \A i, j \in 1..N : list[i].doc = list[j].doc => i = j
    BY <1>1 DEF OnePerDocument
  <1>3. \A d \in Ids(list) : Rank(list, d) \in DOMAIN list /\ list[Rank(list, d)].doc = d
    BY DEF Ids, Rank
  <1>4. \A i \in DOMAIN list : Rank(list, list[i].doc) = i
    <2>1. \A i \in DOMAIN list : list[i].doc \in Ids(list)
      BY DEF Ids
    <2> QED BY <1>1, <1>2, <1>3, <2>1
  <1>5. IsFiniteSet(1..N) /\ Cardinality(1..N) = N
    <2>1. 1 \in Int /\ N \in Int
      BY <1>1
    <2>2. IsFiniteSet(1..N) /\ Cardinality(1..N) = IF 1 > N THEN 0 ELSE N - 1 + 1
      BY <2>1, FS_Interval
    <2> QED BY <1>1, <2>2
  <1>6. f \in [1..N -> Ids(list)] /\ \A d \in Ids(list) : \E i \in 1..N : f[i] = d
    BY <1>1 DEF Ids
  <1>7. \A i, j \in 1..N : f[i] = f[j] => i = j
    BY <1>2
  <1> HIDE DEF f
  <1>8. f \in Surjection(1..N, Ids(list)) /\ f \in Injection(1..N, Ids(list))
    BY <1>6, <1>7 DEF Surjection, Injection, IsInjective
  <1>9. IsFiniteSet(Ids(list)) /\ Cardinality(Ids(list)) = N
    BY <1>5, <1>8, FS_Surjection
  <1> QED BY <1>1, <1>3, <1>4, <1>9 DEF N

\* What a list contributes to a score is a number.
LEMMA ReciprocalIsNatural ==
    ASSUME NEW list, DOMAIN list \subseteq 1..MaxDepth,
           \A d \in Ids(list) : Rank(list, d) \in DOMAIN list,
           NEW x
    PROVE  Reciprocal(list, x) \in Nat
  <1>1. CASE x \in Ids(list)
    <2>1. Rank(list, x) \in 1..MaxDepth
      BY <1>1
    <2>2. Denominator \div (RrfK + Rank(list, x)) \in Nat
      BY <2>1, ReciprocalsFall
    <2> QED BY <1>1, <2>2 DEF Reciprocal
  <1>2. CASE x \notin Ids(list)
    BY <1>2 DEF Reciprocal
  <1> QED BY <1>1, <1>2

\* What a list contributes to the score of a document that it does not put behind
\* another one is no less than what it contributes to the other's, and is more if
\* it has the other one.
LEMMA DominatingIsWorthMore ==
    ASSUME NEW list, DOMAIN list \subseteq 1..MaxDepth,
           \A d \in Ids(list) : Rank(list, d) \in DOMAIN list,
           NEW d, NEW e, Dominates(list, d, e)
    PROVE  /\ Reciprocal(list, d) \in Nat /\ Reciprocal(list, e) \in Nat
           /\ Reciprocal(list, e) <= Reciprocal(list, d)
           /\ e \in Ids(list) => Reciprocal(list, e) < Reciprocal(list, d)
  <1>1. Reciprocal(list, d) \in Nat /\ Reciprocal(list, e) \in Nat
    BY ReciprocalIsNatural
  <1>2. CASE e \in Ids(list)
    <2>1. d \in Ids(list) /\ Rank(list, d) < Rank(list, e)
      BY <1>2 DEF Dominates
    <2>2. Rank(list, d) \in 1..MaxDepth /\ Rank(list, e) \in 1..MaxDepth
      BY <1>2, <2>1
    <2>3. Denominator \div (RrfK + Rank(list, e)) < Denominator \div (RrfK + Rank(list, d))
      BY <2>1, <2>2, ReciprocalsFall
    <2>4. Reciprocal(list, e) < Reciprocal(list, d)
      BY <1>2, <2>1, <2>3 DEF Reciprocal
    <2>5. Reciprocal(list, d) \in Nat /\ Reciprocal(list, e) \in Nat
      BY <1>1
    <2> QED BY <2>4, <2>5
  <1>3. CASE e \notin Ids(list)
    <2>1. Reciprocal(list, e) = 0
      BY <1>3 DEF Reciprocal
    <2>2. Reciprocal(list, d) \in Nat
      BY <1>1
    <2> QED BY <1>3, <2>1, <2>2
  <1> QED BY <1>2, <1>3

\* Both lists that are fused are rankings of documents of the corpus.
LEMMA FusedLists ==
    ASSUME CountInv, NEW query \in Queries, query # << >>, NEW depth \in Limits, NEW list,
           \/ list = Search(OwnIndex, query, depth, CorpusStats(Terms)).results
           \/ list = SemanticSearch(DOMAIN corpus, query, depth).results
    PROVE  /\ DOMAIN list \subseteq 1..MaxDepth
           /\ \A d \in Ids(list) : Rank(list, d) \in DOMAIN list
           /\ Ids(list) \subseteq DOMAIN corpus
           /\ IsFiniteSet(Ids(list)) /\ Cardinality(Ids(list)) \in Nat
           /\ Cardinality(Ids(list)) <= depth
  <1>1. /\ depth \in Nat /\ depth <= MaxDepth /\ MaxDepth \in Nat /\ query \in Seq(Terms)
    BY RankingAssumption DEF Limits
  <1>2. ASSUME NEW hits, IsFiniteSet(hits), AreHits(hits), OnePerDocument(hits),
               \A h \in hits : h.doc \in DOMAIN corpus, list = Best(hits, depth)
        PROVE  /\ DOMAIN list \subseteq 1..MaxDepth
               /\ \A d \in Ids(list) : Rank(list, d) \in DOMAIN list
               /\ Ids(list) \subseteq DOMAIN corpus
               /\ IsFiniteSet(Ids(list)) /\ Cardinality(Ids(list)) \in Nat
               /\ Cardinality(Ids(list)) <= depth
    <2> DEFINE N == Least(depth, Cardinality(hits))
    <2>1. /\ DOMAIN list = 1..N
          /\ \A d \in Ids(list) : Rank(list, d) \in DOMAIN list
          /\ IsFiniteSet(Ids(list)) /\ Cardinality(Ids(list)) = N /\ N \in Nat
      BY <1>1, <1>2, RankingFacts
    <2>2. \A i \in DOMAIN list : list[i] \in hits
      BY <1>1, <1>2, BestFacts
    <2>3. Ids(list) \subseteq DOMAIN corpus
      BY <1>2, <2>2 DEF Ids
    <2>4. N <= depth
      <3>1. Cardinality(hits) \in Nat
        BY <1>2, FS_CardinalityType
      <3> QED BY <1>1, <3>1 DEF Least
    <2> HIDE DEF N
    <2> QED BY <1>1, <2>1, <2>3, <2>4
  <1>3. CASE list = Search(OwnIndex, query, depth, CorpusStats(Terms)).results
    <2> DEFINE stats == CorpusStats(Terms)
               hits == ScoreQuery(OwnIndex, query, stats)
    <2>1. list = Best(hits, depth)
      BY <1>3 DEF Search
    <2>2. IsFiniteSet(hits) /\ AreHits(hits) /\ \A h \in hits : h.doc \in DOMAIN corpus
      BY <1>1, QueryHits
    <2>3. OnePerDocument(hits)
      BY DEF OnePerDocument, ScoreQuery
    <2> HIDE DEF hits
    <2> QED BY <1>2, <2>1, <2>2, <2>3
  <1>4. CASE list = SemanticSearch(DOMAIN corpus, query, depth).results
    <2> DEFINE score == [d \in DOMAIN corpus |-> Embed[corpus[d]] * EmbedQuery[query]]
               hits == {[doc |-> d, score |-> Embed[corpus[d]] * EmbedQuery[query]] :
                           d \in DOMAIN corpus}
    <2>1. list = Best(hits, depth)
      BY <1>4 DEF SemanticSearch
    <2>2. hits = {[doc |-> d, score |-> score[d]] : d \in DOMAIN corpus}
      OBVIOUS
    <2>3. \A d \in DOMAIN corpus : score[d] \in Int
      <3>1. \A d \in DOMAIN corpus : corpus[d] \in Texts
        BY LengthsTyped DEF CountInv
      <3> QED BY <3>1, RankingAssumption
    <2>4. OnePerDocument(hits) /\ \A h \in hits : h.doc \in DOMAIN corpus
      BY DEF OnePerDocument
    <2> HIDE DEF hits, score
    <2>5. IsFiniteSet(hits) /\ AreHits(hits)
      BY <2>2, <2>3, HitsOfDocuments
    <2> QED BY <1>2, <2>1, <2>4, <2>5
  <1> QED BY <1>3, <1>4

\* Reciprocal rank fusion never overrules an agreement of its two lists: a
\* candidate that neither puts behind another one comes before it, or the other
\* one is not in the answer; nobody appears twice, and the total counts the
\* candidates, of which there are at most twice as many as the candidate depth.
THEOREM FusionAlwaysKeepsAgreement == Spec => []FusionKeepsAgreement
  <1>1. CountInv => FusionKeepsAgreement
    <2> SUFFICES ASSUME CountInv, NEW query \in Queries \ {<< >>}, NEW limit \in Limits
                 PROVE  LET depth == CandidateDepth(limit)
                            lexical == Search(OwnIndex, query, depth, CorpusStats(Terms)).results
                            semantic == SemanticSearch(DOMAIN corpus, query, depth).results
                            answer == HybridSearch(query, limit)
                            candidates == Ids(lexical) \cup Ids(semantic)
                        IN  /\ answer.total = Cardinality(candidates)
                            /\ answer.total <= 2 * depth
                            /\ Cardinality(Ids(answer.results)) = Least(limit, answer.total)
                            /\ \A d \in candidates, e \in Ids(answer.results) :
                                  d # e /\ Dominates(lexical, d, e) /\ Dominates(semantic, d, e)
                                      => /\ d \in Ids(answer.results)
                                         /\ Rank(answer.results, d) < Rank(answer.results, e)
      BY DEF FusionKeepsAgreement
    <2> DEFINE depth == CandidateDepth(limit)
               lexical == Search(OwnIndex, query, depth, CorpusStats(Terms)).results
               semantic == SemanticSearch(DOMAIN corpus, query, depth).results
               candidates == Ids(lexical) \cup Ids(semantic)
               score == [d \in candidates |-> FusionScore(lexical, semantic, d)]
               hit(d) == [doc |-> d, score |-> score[d]]
               hits == {hit(d) : d \in candidates}
               results == Best(hits, limit)
    <2>1. HybridSearch(query, limit) = [total |-> Cardinality(candidates), results |-> results]
      <3>1. {[doc |-> d, score |-> FusionScore(lexical, semantic, d)] : d \in candidates} = hits
        OBVIOUS
      <3>2. HybridSearch(query, limit) =
               [total |-> Cardinality(candidates),
                results |-> Best({[doc |-> d, score |-> FusionScore(lexical, semantic, d)] :
                                     d \in candidates}, limit)]
        BY DEF HybridSearch, Fuse
      <3> QED BY <3>1, <3>2
    <2>2. depth \in Limits /\ depth \in Nat /\ limit \in Nat /\ query \in Queries /\ query # << >>
      BY DepthIsNatural DEF Limits
    <2> HIDE DEF depth
    <2>3. ASSUME NEW list \in {lexical, semantic}
          PROVE  /\ DOMAIN list \subseteq 1..MaxDepth
                 /\ \A d \in Ids(list) : Rank(list, d) \in DOMAIN list
                 /\ Ids(list) \subseteq DOMAIN corpus
                 /\ IsFiniteSet(Ids(list)) /\ Cardinality(Ids(list)) \in Nat
                 /\ Cardinality(Ids(list)) <= depth
      BY <2>2, FusedLists
    <2> HIDE DEF lexical, semantic
    <2>4. /\ candidates \in SUBSET DOMAIN corpus /\ IsFiniteSet(candidates)
          /\ Cardinality(candidates) \in Nat /\ Cardinality(candidates) <= 2 * depth
      <3> DEFINE a == Cardinality(Ids(lexical))
                 b == Cardinality(Ids(semantic))
                 c == Cardinality(Ids(lexical) \cap Ids(semantic))
      <3>1. /\ Ids(lexical) \subseteq DOMAIN corpus /\ Ids(semantic) \subseteq DOMAIN corpus
            /\ IsFiniteSet(Ids(lexical)) /\ IsFiniteSet(Ids(semantic))
            /\ a \in Nat /\ b \in Nat /\ a <= depth /\ b <= depth
        BY <2>3
      <3>2. IsFiniteSet(candidates) /\ Cardinality(candidates) = a + b - c
        BY <3>1, FS_Union
      <3>3. c \in Nat
        <4>1. IsFiniteSet(Ids(lexical) \cap Ids(semantic))
          BY <3>1, FS_Intersection
        <4> QED BY <4>1, FS_CardinalityType
      <3>4. Cardinality(candidates) \in Nat
        BY <3>2, FS_CardinalityType
      <3>5. candidates \in SUBSET DOMAIN corpus
        BY <3>1
      <3> HIDE DEF a, b, c, candidates
      <3> QED BY <2>2, <3>1, <3>2, <3>3, <3>4, <3>5
    <2>5. ASSUME NEW d
          PROVE  Reciprocal(lexical, d) \in Nat /\ Reciprocal(semantic, d) \in Nat
      BY <2>3, ReciprocalIsNatural
    <2>6. \A d \in candidates : score[d] \in Int
      BY <2>5 DEF FusionScore
    <2>7. /\ IsFiniteSet(hits) /\ AreHits(hits) /\ Cardinality(hits) = Cardinality(candidates)
      <3>1. hits = {[doc |-> d, score |-> score[d]] : d \in candidates}
        OBVIOUS
      <3> HIDE DEF hits, score, candidates
      <3> QED BY <2>4, <2>6, <3>1, HitsOfDocuments
    <2>8. OnePerDocument(hits) /\ \A d : hit(d).doc = d /\ hit(d).score = score[d]
      <3> HIDE DEF score, candidates
      <3> QED BY DEF OnePerDocument
    <2>9. /\ \A i \in DOMAIN results : Rank(results, results[i].doc) = i
          /\ \A d \in Ids(results) : Rank(results, d) \in DOMAIN results /\ results[Rank(results, d)].doc = d
          /\ Cardinality(Ids(results)) = Least(limit, Cardinality(candidates))
      <3> HIDE DEF hits, candidates, hit
      <3> QED BY <2>2, <2>7, <2>8, RankingFacts
    <2>10. ASSUME NEW d \in candidates, NEW e \in Ids(results), d # e,
                  Dominates(lexical, d, e), Dominates(semantic, d, e)
           PROVE  d \in Ids(results) /\ Rank(results, d) < Rank(results, e)
      <3> DEFINE i == Rank(results, e)
      <3> HIDE DEF score, candidates
      <3>1. /\ \A n \in DOMAIN results : results[n] \in hits /\ Place(hits, results[n]) = n
            /\ DOMAIN results = 1..Least(limit, Cardinality(hits)) /\ Cardinality(hits) \in Nat
            /\ \A h \in hits : /\ Place(hits, h) \in 1..Cardinality(hits)
                               /\ Place(hits, h) <= limit =>
                                     /\ Place(hits, h) \in DOMAIN results
                                     /\ results[Place(hits, h)] = h
            /\ \A g, h \in hits : HitBefore(g, h) => Place(hits, g) < Place(hits, h)
        <4> HIDE DEF hits
        <4> QED BY <2>2, <2>7, BestFacts
      <3>2. i \in DOMAIN results /\ results[i].doc = e
        <4> HIDE DEF results
        <4> QED BY <2>9
      <3>3. results[i] \in hits /\ Place(hits, results[i]) = i
        <4> HIDE DEF results, hits
        <4> QED BY <3>1, <3>2
      <3>4. e \in candidates /\ results[i] = hit(e)
        <4>1. PICK x \in candidates : results[i] = hit(x)
          <5> HIDE DEF results
          <5> QED BY <3>3
        <4>2. x = e
          <5> HIDE DEF results, hits, hit
          <5> QED BY <2>8, <3>2, <4>1
        <4> HIDE DEF results, hits, hit
        <4> QED BY <4>1, <4>2
      <3>5. score[e] < score[d] /\ score[e] \in Int /\ score[d] \in Int
        <4>1. /\ Reciprocal(lexical, d) \in Nat /\ Reciprocal(lexical, e) \in Nat
              /\ Reciprocal(lexical, e) <= Reciprocal(lexical, d)
              /\ e \in Ids(lexical) => Reciprocal(lexical, e) < Reciprocal(lexical, d)
          BY <2>3, <2>10, DominatingIsWorthMore
        <4>2. /\ Reciprocal(semantic, d) \in Nat /\ Reciprocal(semantic, e) \in Nat
              /\ Reciprocal(semantic, e) <= Reciprocal(semantic, d)
              /\ e \in Ids(semantic) => Reciprocal(semantic, e) < Reciprocal(semantic, d)
          BY <2>3, <2>10, DominatingIsWorthMore
        <4>3. e \in Ids(lexical) \/ e \in Ids(semantic)
          BY <3>4 DEF candidates
        <4>4. /\ score[d] = Reciprocal(lexical, d) + Reciprocal(semantic, d)
              /\ score[e] = Reciprocal(lexical, e) + Reciprocal(semantic, e)
          BY <3>4 DEF score, FusionScore
        <4> QED BY <4>1, <4>2, <4>3, <4>4
      <3>6. HitBefore(hit(d), hit(e)) /\ hit(d) \in hits /\ hit(e) \in hits
        BY <3>4, <3>5 DEF HitBefore
      <3> DEFINE j == Place(hits, hit(d))
      <3>7. j < i /\ j \in 1..Cardinality(hits) /\ i \in 1..Least(limit, Cardinality(hits))
        <4> HIDE DEF hits, hit, results
        <4> QED BY <3>1, <3>2, <3>3, <3>4, <3>6
      <3>8. j <= limit
        <4> HIDE DEF hits, hit, results, i, j
        <4> QED BY <2>2, <3>1, <3>7 DEF Least
      <3>9. j \in DOMAIN results /\ results[j] = hit(d)
        <4> HIDE DEF hits, hit, results
        <4> QED BY <3>1, <3>6, <3>8
      <3>10. results[j].doc = d
        <4> HIDE DEF hits, hit, results, j
        <4> QED BY <2>8, <3>9
      <3>11. d \in Ids(results)
        <4> HIDE DEF hits, hit, results, j
        <4> QED BY <3>9, <3>10 DEF Ids
      <3>12. Rank(results, d) = j
        <4> HIDE DEF hits, hit, results, j
        <4> QED BY <2>9, <3>9, <3>10
      <3> QED BY <3>7, <3>11, <3>12
    <2> HIDE DEF candidates, results
    <2> QED BY <2>1, <2>4, <2>9, <2>10 DEF depth, lexical, semantic, candidates
  <1> QED BY <1>1, CountAlways, PTL

=============================================================================

------------------------- MODULE InvertedIndexProofs -------------------------
(***************************************************************************)
(* For any documents, vocabulary and texts: the incrementally maintained   *)
(* index is the one that a rebuild from the same corpus would produce.     *)
(***************************************************************************)
EXTENDS InvertedIndex, FiniteSetLemmas

CorpusType == DOMAIN corpus \subseteq Docs /\ corpus \in [DOMAIN corpus -> Texts]

\* The posting lists of the corpus, and the vocabulary they are for.
Vocabulary == {t \in Terms : Containing(t) # {}}
PostingsOf(t) == [d \in Containing(t) |-> corpus[d][t]]

DerivedInv == CorpusType /\ MapsAreDerived

\* The postings without d are those of the corpus without d.
LEMMA PostingsWithoutDerived ==
    ASSUME DerivedInv, NEW d \in DOMAIN corpus
    PROVE  PostingsWithout(d) =
              [t \in {u \in Terms : Containing(u) \ {d} # {}} |->
                  [e \in Containing(t) \ {d} |-> corpus[e][t]]]
<1>1. /\ DOMAIN postings = Vocabulary
      /\ \A t \in Vocabulary : postings[t] = PostingsOf(t)
      /\ documentTerms[d] = TermsOf(corpus[d])
  BY DEF DerivedInv, MapsAreDerived, Vocabulary, PostingsOf
<1>2. \A t \in Terms : t \in TermsOf(corpus[d]) <=> d \in Containing(t)
  BY DEF TermsOf, Containing
<1>3. TermsOf(corpus[d]) \subseteq Vocabulary
  BY <1>2 DEF Vocabulary, TermsOf
<1> DEFINE emptied == {t \in documentTerms[d] : DOMAIN postings[t] = {d}}
           rest == {u \in Terms : Containing(u) \ {d} # {}}
<1>4. emptied = {t \in TermsOf(corpus[d]) : Containing(t) = {d}}
  BY <1>1, <1>3 DEF PostingsOf
<1>5. DOMAIN postings \ emptied = rest
  BY <1>1, <1>2, <1>4 DEF Vocabulary, TermsOf
<1>6. ASSUME NEW t \in rest
      PROVE  (IF t \in documentTerms[d] THEN Drop(postings[t], d) ELSE postings[t])
                = [e \in Containing(t) \ {d} |-> corpus[e][t]]
  <2>1. t \in Vocabulary /\ postings[t] = PostingsOf(t)
    BY <1>1 DEF Vocabulary
  <2>2. CASE t \in documentTerms[d]
    BY <2>1, <2>2 DEF Drop, PostingsOf
  <2>3. CASE t \notin documentTerms[d]
    <3>1. Containing(t) \ {d} = Containing(t)
      BY <1>1, <1>2, <2>1, <2>3 DEF Vocabulary
    <3> QED
      BY <2>1, <2>3, <3>1 DEF PostingsOf
  <2> QED
    BY <2>2, <2>3
<1>7. PostingsWithout(d) =
        [t \in rest |-> IF t \in documentTerms[d] THEN Drop(postings[t], d) ELSE postings[t]]
  BY <1>5 DEF PostingsWithout
<1> HIDE DEF rest
<1> QED
  <2>1. PostingsWithout(d) = [t \in rest |-> [e \in Containing(t) \ {d} |-> corpus[e][t]]]
    BY <1>6, <1>7
  <2> QED
    BY <2>1 DEF rest

\* When d is not in the corpus the same holds of the postings themselves.
LEMMA PostingsAbsent ==
    ASSUME DerivedInv, NEW d, d \notin DOMAIN corpus
    PROVE  postings =
              [t \in {u \in Terms : Containing(u) \ {d} # {}} |->
                  [e \in Containing(t) \ {d} |-> corpus[e][t]]]
<1>1. \A t \in Terms : Containing(t) \ {d} = Containing(t)
  BY DEF Containing
<1>2. {u \in Terms : Containing(u) \ {d} # {}} = Vocabulary
  BY <1>1 DEF Vocabulary
<1>3. postings = [t \in Vocabulary |-> PostingsOf(t)]
  BY DEF DerivedInv, MapsAreDerived, Vocabulary, PostingsOf
<1>4. \A t \in Vocabulary : PostingsOf(t) = [e \in Containing(t) \ {d} |-> corpus[e][t]]
  BY <1>1 DEF Vocabulary, PostingsOf
<1>5. postings = [t \in Vocabulary |-> [e \in Containing(t) \ {d} |-> corpus[e][t]]]
  BY <1>3, <1>4
<1> QED
  BY <1>2, <1>5

\* remove_document keeps the index derived.
LEMMA RemoveKeepsDerived ==
    ASSUME DerivedInv, NEW d \in Docs, RemoveDocument(d)
    PROVE  DerivedInv'
<1>1. d \in DOMAIN corpus /\ DOMAIN lengths = DOMAIN corpus
  BY DEF DerivedInv, MapsAreDerived, RemoveDocument
<1>2. corpus' = Drop(corpus, d)
  BY DEF RemoveDocument
<1>3. /\ DOMAIN corpus' = DOMAIN corpus \ {d}
      /\ \A e \in DOMAIN corpus' : corpus'[e] = corpus[e]
  BY <1>2 DEF Drop
<1>4. CorpusType'
  BY <1>2, <1>3 DEF CorpusType, DerivedInv, Drop
<1>5. \A t \in Terms : Containing(t)' = Containing(t) \ {d}
  BY <1>3 DEF Containing
<1>6. postings' = [t \in {u \in Terms : Containing(u) \ {d} # {}} |->
                      [e \in Containing(t) \ {d} |-> corpus[e][t]]]
  BY <1>1, PostingsWithoutDerived DEF RemoveDocument
<1>7. {u \in Terms : Containing(u)' # {}} = {u \in Terms : Containing(u) \ {d} # {}}
  BY <1>5
<1>8. \A t \in Terms : [e \in Containing(t)' |-> corpus'[e][t]]
                         = [e \in Containing(t) \ {d} |-> corpus[e][t]]
  <2>1. \A t \in Terms : \A e \in Containing(t) \ {d} : corpus'[e] = corpus[e]
    BY <1>3 DEF Containing
  <2> QED
    BY <1>5, <2>1
<1>9. postings' = [t \in {u \in Terms : Containing(u)' # {}} |->
                      [e \in Containing(t)' |-> corpus'[e][t]]]
  BY <1>6, <1>7, <1>8
<1>10. documentTerms' = [e \in DOMAIN corpus' |-> TermsOf(corpus'[e])]
  <2>1. documentTerms = [e \in DOMAIN corpus |-> TermsOf(corpus[e])]
    BY DEF DerivedInv, MapsAreDerived
  <2>2. documentTerms' = [e \in DOMAIN corpus' |-> documentTerms[e]]
    BY <1>3, <2>1 DEF RemoveDocument, Drop
  <2> QED
    BY <1>3, <2>1, <2>2
<1>11. lengths' = [e \in DOMAIN corpus' |-> Length(corpus'[e])]
  <2>1. lengths = [e \in DOMAIN corpus |-> Length(corpus[e])]
    BY DEF DerivedInv, MapsAreDerived
  <2>2. lengths' = [e \in DOMAIN corpus' |-> lengths[e]]
    BY <1>3, <2>1 DEF RemoveDocument, Drop
  <2> QED
    BY <1>3, <2>1, <2>2
<1> QED
  BY <1>4, <1>9, <1>10, <1>11 DEF DerivedInv, MapsAreDerived

\* add_document keeps the index derived, be the document new or replaced.
LEMMA AddKeepsDerived ==
    ASSUME DerivedInv, NEW d \in Docs, NEW text \in Texts, AddDocument(d, text)
    PROVE  DerivedInv'
<1> DEFINE rest == {u \in Terms : Containing(u) \ {d} # {}}
           base == [t \in rest |-> [e \in Containing(t) \ {d} |-> corpus[e][t]]]
<1>1. DOMAIN lengths = DOMAIN corpus
  BY DEF DerivedInv, MapsAreDerived
<1>2. postings' = WithPostings(base, d, text)
  <2>1. CASE d \in DOMAIN corpus
    BY <1>1, <2>1, PostingsWithoutDerived DEF AddDocument
  <2>2. CASE d \notin DOMAIN corpus
    BY <1>1, <2>2, PostingsAbsent DEF AddDocument
  <2> QED
    BY <2>1, <2>2
<1>3. corpus' = Put(corpus, d, text)
  BY DEF AddDocument
<1>4. /\ DOMAIN corpus' = DOMAIN corpus \cup {d}
      /\ corpus'[d] = text
      /\ \A e \in DOMAIN corpus : e # d => corpus'[e] = corpus[e]
  BY <1>3 DEF Put
<1>5. CorpusType'
  BY <1>3, <1>4 DEF CorpusType, DerivedInv, Put
<1>6. \A t \in Terms : Containing(t)' = IF t \in TermsOf(text)
                                        THEN (Containing(t) \ {d}) \cup {d}
                                        ELSE Containing(t) \ {d}
  BY <1>4 DEF Containing, TermsOf
<1>7. {u \in Terms : Containing(u)' # {}} = rest \cup TermsOf(text)
  BY <1>6 DEF TermsOf
<1>8. ASSUME NEW t \in rest \cup TermsOf(text)
      PROVE  (IF t \notin TermsOf(text) THEN base[t]
              ELSE Put(IF t \in DOMAIN base THEN base[t] ELSE EmptyMap, d, text[t]))
             = [e \in Containing(t)' |-> corpus'[e][t]]
  <2>1. t \in Terms
    BY DEF TermsOf
  <2>2. \A e \in Containing(t) \ {d} : corpus'[e] = corpus[e]
    BY <1>4 DEF Containing
  <2>3. CASE t \notin TermsOf(text)
    <3>1. t \in rest /\ base[t] = [e \in Containing(t) \ {d} |-> corpus[e][t]]
      BY <2>3
    <3>2. Containing(t)' = Containing(t) \ {d}
      BY <1>6, <2>1, <2>3
    <3> QED
      BY <2>2, <2>3, <3>1, <3>2
  <2>4. CASE t \in TermsOf(text)
    <3> DEFINE old == IF t \in DOMAIN base THEN base[t] ELSE EmptyMap
    <3>1. Containing(t)' = (Containing(t) \ {d}) \cup {d}
      BY <1>6, <2>1, <2>4
    <3>2. /\ DOMAIN old = Containing(t) \ {d}
          /\ \A e \in Containing(t) \ {d} : old[e] = corpus[e][t]
      <4>1. CASE t \in rest
        BY <4>1
      <4>2. CASE t \notin rest
        BY <2>1, <4>2 DEF EmptyMap
      <4> QED
        BY <4>1, <4>2
    <3> HIDE DEF old
    <3>3. Put(old, d, text[t]) =
            [e \in Containing(t)' |-> IF e = d THEN text[t] ELSE old[e]]
      BY <3>1, <3>2 DEF Put
    <3>4. \A e \in Containing(t)' : (IF e = d THEN text[t] ELSE old[e]) = corpus'[e][t]
      BY <1>4, <2>2, <3>1, <3>2
    <3>5. Put(old, d, text[t]) = [e \in Containing(t)' |-> corpus'[e][t]]
      BY <3>3, <3>4
    <3> QED
      BY <2>4, <3>5 DEF old
  <2> QED
    BY <2>3, <2>4
<1>9. postings' = [t \in rest \cup TermsOf(text) |-> [e \in Containing(t)' |-> corpus'[e][t]]]
  <2>1. DOMAIN base = rest
    OBVIOUS
  <2>2. postings' = [t \in rest \cup TermsOf(text) |->
                       IF t \notin TermsOf(text) THEN base[t]
                       ELSE Put(IF t \in DOMAIN base THEN base[t] ELSE EmptyMap, d, text[t])]
    BY <1>2, <2>1 DEF WithPostings
  <2> HIDE DEF base, rest
  <2> QED
    BY <1>8, <2>2
<1>10. postings' = [t \in {u \in Terms : Containing(u)' # {}} |->
                      [e \in Containing(t)' |-> corpus'[e][t]]]
  BY <1>7, <1>9
<1>11. documentTerms' = [e \in DOMAIN corpus' |-> TermsOf(corpus'[e])]
  <2>1. documentTerms = [e \in DOMAIN corpus |-> TermsOf(corpus[e])]
    BY DEF DerivedInv, MapsAreDerived
  <2>2. documentTerms' = [e \in DOMAIN corpus' |->
                            IF e = d THEN TermsOf(text) ELSE documentTerms[e]]
    BY <1>4, <2>1 DEF AddDocument, Put
  <2> QED
    BY <1>4, <2>1, <2>2
<1>12. lengths' = [e \in DOMAIN corpus' |-> Length(corpus'[e])]
  <2>1. lengths = [e \in DOMAIN corpus |-> Length(corpus[e])]
    BY DEF DerivedInv, MapsAreDerived
  <2>2. lengths' = [e \in DOMAIN corpus' |-> IF e = d THEN Length(text) ELSE lengths[e]]
    BY <1>4, <2>1 DEF AddDocument, Put
  <2> QED
    BY <1>4, <2>1, <2>2
<1> QED
  BY <1>5, <1>10, <1>11, <1>12 DEF DerivedInv, MapsAreDerived

\* An empty index is derived.
LEMMA InitDerived == Init => DerivedInv
<1> SUFFICES ASSUME Init PROVE DerivedInv
  OBVIOUS
<1>1. DOMAIN corpus = {} /\ corpus = [x \in {} |-> 0]
  BY DEF Init, EmptyMap
<1>2. \A t \in Terms : Containing(t) = {}
  BY <1>1 DEF Containing
<1>3. {u \in Terms : Containing(u) # {}} = {}
  BY <1>2
<1> QED
  BY <1>1, <1>3 DEF Init, EmptyMap, DerivedInv, CorpusType, MapsAreDerived

-----------------------------------------------------------------------------
(* Lengths *)

\* The sum of a map after one key has been taken out, or given a value.
LEMMA SumOfMap ==
    ASSUME NEW map, IsFiniteSet(DOMAIN map), \A k \in DOMAIN map : map[k] \in Int, NEW key
    PROVE  /\ SumFunction(map) \in Int
           /\ SumFunctionOnSet(map, DOMAIN map \ {key}) \in Int
           /\ key \in DOMAIN map =>
                 SumFunction(map) = map[key] + SumFunctionOnSet(map, DOMAIN map \ {key})
           /\ key \notin DOMAIN map =>
                 SumFunction(map) = SumFunctionOnSet(map, DOMAIN map \ {key})
           /\ SumFunction(Drop(map, key)) = SumFunctionOnSet(map, DOMAIN map \ {key})
           /\ \A value \in Int : SumFunction(Put(map, key, value))
                                   = value + SumFunctionOnSet(map, DOMAIN map \ {key})
  <1> DEFINE rest == DOMAIN map \ {key}
  <1>1. /\ IsFiniteSet(rest) /\ \A k \in rest : map[k] \in Int
    BY FS_Subset
  <1>2. SumFunctionOnSet(map, rest) \in Int
    <2> HIDE DEF rest
    <2> QED BY <1>1, SumFacts
  <1>3. /\ SumFunction(map) \in Int
        /\ key \in DOMAIN map => SumFunction(map) = map[key] + SumFunctionOnSet(map, rest)
    BY SumFacts DEF SumFunction
  <1>4. key \notin DOMAIN map => SumFunction(map) = SumFunctionOnSet(map, rest)
    <2>1. key \notin DOMAIN map => rest = DOMAIN map
      OBVIOUS
    <2> HIDE DEF rest
    <2> QED BY <2>1 DEF SumFunction
  <1>5. SumFunction(Drop(map, key)) = SumFunctionOnSet(map, rest)
    <2> DEFINE m == Drop(map, key)
    <2>1. DOMAIN m = rest /\ \A k \in rest : map[k] = m[k]
      BY DEF Drop
    <2> HIDE DEF m, rest
    <2>2. SumFunctionOnSet(map, rest) = SumFunctionOnSet(m, rest)
      BY <1>1, <2>1, SumSame
    <2> QED BY <2>1, <2>2 DEF SumFunction, m
  <1>6. ASSUME NEW value \in Int
        PROVE  SumFunction(Put(map, key, value)) = value + SumFunctionOnSet(map, rest)
    <2> DEFINE m == Put(map, key, value)
    <2>1. /\ DOMAIN m = DOMAIN map \cup {key} /\ DOMAIN m \ {key} = rest
          /\ key \in DOMAIN m /\ m[key] = value
          /\ \A k \in rest : map[k] = m[k]
      BY DEF Put
    <2>2. IsFiniteSet(DOMAIN m) /\ \A k \in DOMAIN m : m[k] \in Int
      <3>1. IsFiniteSet(DOMAIN map \cup {key})
        BY FS_AddElement
      <3>2. \A k \in DOMAIN m : k = key \/ k \in rest
        BY <2>1
      <3> HIDE DEF m, rest
      <3> QED BY <1>1, <2>1, <3>1, <3>2
    <2> HIDE DEF m, rest
    <2>3. SumFunctionOnSet(m, DOMAIN m) = m[key] + SumFunctionOnSet(m, DOMAIN m \ {key})
      BY <2>1, <2>2, SumFacts
    <2>4. SumFunctionOnSet(map, rest) = SumFunctionOnSet(m, rest)
      BY <1>1, <2>1, SumSame
    <2> QED BY <2>1, <2>3, <2>4 DEF SumFunction, m
  <1> QED BY <1>2, <1>3, <1>4, <1>5, <1>6

\* The length of a text is the number of its tokens: a sum over its terms.
LEMMA LengthFacts ==
    ASSUME NEW text \in Texts
    PROVE  /\ text \in [Terms -> Nat] /\ Length(text) \in Nat
           /\ IsFiniteSet(TermsOf(text))
           /\ Length(text) = SumFunctionOnSet(text, TermsOf(text))
  <1>1. /\ text \in [Terms -> Nat] /\ IsFiniteSet(Terms) /\ DOMAIN text = Terms
        /\ \A t \in Terms : text[t] \in Nat /\ text[t] \in Int
    BY TextAssumption
  <1> DEFINE A == TermsOf(text)
             B == Terms \ A
  <1>2. A \cup B = Terms /\ A \cap B = {} /\ \A t \in B : text[t] = 0
    BY <1>1 DEF TermsOf
  <1>3. IsFiniteSet(A) /\ IsFiniteSet(B)
    BY <1>1, <1>2, FS_Subset
  <1> HIDE DEF A, B
  <1>4. SumFunctionOnSet(text, A \cup B) = SumFunctionOnSet(text, A) + SumFunctionOnSet(text, B)
    BY <1>1, <1>2, <1>3, SumUnion
  <1>5. SumFunctionOnSet(text, B) = 0
    BY <1>1, <1>2, <1>3, SumNatural
  <1>6. SumFunctionOnSet(text, A) \in Nat
    BY <1>1, <1>2, <1>3, SumNatural
  <1>7. Length(text) = SumFunctionOnSet(text, Terms)
    BY <1>1 DEF Length, SumFunction
  <1>8. SumFunctionOnSet(text, A) = SumFunctionOnSet(text, A) + 0
    BY <1>6
  <1>9. Length(text) = SumFunctionOnSet(text, A)
    BY <1>2, <1>4, <1>5, <1>7, <1>8
  <1> QED BY <1>1, <1>3, <1>6, <1>9 DEF A

-----------------------------------------------------------------------------
(* The total length *)

\* Besides, the corpus is finite and the total is the sum of the lengths.
CountInv ==
    /\ DerivedInv
    /\ IsFiniteSet(DOMAIN corpus)
    /\ total = SumFunction(lengths)

\* The lengths are those of the documents.
LEMMA LengthsTyped ==
    ASSUME DerivedInv
    PROVE  /\ DOMAIN lengths = DOMAIN corpus
           /\ \A d \in DOMAIN corpus : /\ corpus[d] \in Texts
                                       /\ lengths[d] = Length(corpus[d])
                                       /\ lengths[d] \in Nat /\ lengths[d] \in Int
  <1>1. /\ DOMAIN lengths = DOMAIN corpus
        /\ \A d \in DOMAIN corpus : corpus[d] \in Texts /\ lengths[d] = Length(corpus[d])
    BY DEF DerivedInv, MapsAreDerived, CorpusType
  <1>2. \A d \in DOMAIN corpus : Length(corpus[d]) \in Nat
    BY <1>1, LengthFacts
  <1> QED BY <1>1, <1>2

\* Every step keeps the index derived and the total exact.
LEMMA CountInductive == CountInv /\ [Next]_vars => CountInv'
  <1> SUFFICES ASSUME CountInv, [Next]_vars PROVE CountInv'
    OBVIOUS
  <1>1. /\ DerivedInv /\ IsFiniteSet(DOMAIN corpus) /\ total = SumFunction(lengths)
        /\ DOMAIN lengths = DOMAIN corpus /\ IsFiniteSet(DOMAIN lengths)
        /\ \A d \in DOMAIN lengths : lengths[d] \in Int
    BY LengthsTyped DEF CountInv
  <1>2. ASSUME NEW d \in Docs, NEW text \in Texts, AddDocument(d, text)
        PROVE  CountInv'
    <2>1. DerivedInv'
      BY <1>1, <1>2, AddKeepsDerived
    <2>2. IsFiniteSet(DOMAIN corpus')
      <3>1. DOMAIN corpus' = DOMAIN corpus \cup {d}
        BY <1>2 DEF AddDocument, Put
      <3> QED BY <1>1, <3>1, FS_AddElement
    <2>3. total' = SumFunction(lengths')
      <3> DEFINE rest == SumFunctionOnSet(lengths, DOMAIN lengths \ {d})
      <3>1. Length(text) \in Int
        BY LengthFacts
      <3>2. /\ SumFunction(Put(lengths, d, Length(text))) = Length(text) + rest
            /\ rest \in Int
            /\ d \in DOMAIN lengths => total = lengths[d] + rest
            /\ d \notin DOMAIN lengths => total = rest
        BY <1>1, <3>1, SumOfMap
      <3>3. /\ lengths' = Put(lengths, d, Length(text))
            /\ total' = total - (IF d \in DOMAIN lengths THEN lengths[d] ELSE 0) + Length(text)
        BY <1>2 DEF AddDocument
      <3> HIDE DEF rest
      <3>4. CASE d \in DOMAIN lengths
        <4>1. lengths[d] \in Int
          BY <1>1, <3>4
        <4>2. total' = (lengths[d] + rest) - lengths[d] + Length(text)
          <5>1. total' = total - lengths[d] + Length(text)
            BY <3>3, <3>4
          <5>2. total = lengths[d] + rest
            BY <3>2, <3>4
          <5> QED BY <5>1, <5>2
        <4>3. total' = Length(text) + rest
          BY <3>1, <3>2, <4>1, <4>2
        <4> QED BY <3>2, <3>3, <4>3
      <3>5. CASE d \notin DOMAIN lengths
        <4>1. total' = rest - 0 + Length(text)
          BY <3>2, <3>3, <3>5
        <4>2. total' = Length(text) + rest
          BY <3>1, <3>2, <4>1
        <4> QED BY <3>2, <3>3, <4>2
      <3> QED BY <3>4, <3>5
    <2> QED BY <2>1, <2>2, <2>3 DEF CountInv
  <1>3. ASSUME NEW d \in Docs, RemoveDocument(d)
        PROVE  CountInv'
    <2>1. DerivedInv'
      BY <1>1, <1>3, RemoveKeepsDerived
    <2>2. IsFiniteSet(DOMAIN corpus')
      <3>1. DOMAIN corpus' = DOMAIN corpus \ {d}
        BY <1>3 DEF RemoveDocument, Drop
      <3> QED BY <1>1, <3>1, FS_RemoveElement
    <2>3. total' = SumFunction(lengths')
      <3> DEFINE rest == SumFunctionOnSet(lengths, DOMAIN lengths \ {d})
      <3>1. /\ d \in DOMAIN lengths /\ lengths' = Drop(lengths, d)
            /\ total' = total - lengths[d] /\ lengths[d] \in Int
        BY <1>1, <1>3 DEF RemoveDocument
      <3>2. SumFunction(Drop(lengths, d)) = rest /\ rest \in Int /\ total = lengths[d] + rest
        BY <1>1, <3>1, SumOfMap
      <3> HIDE DEF rest
      <3> QED BY <3>1, <3>2
    <2> QED BY <2>1, <2>2, <2>3 DEF CountInv
  <1>4. CASE UNCHANGED vars
    BY <1>4 DEF vars, CountInv, DerivedInv, CorpusType, MapsAreDerived, Containing
  <1> QED BY <1>2, <1>3, <1>4 DEF Next

\* The index is derived and the total exact, always.
THEOREM CountAlways == Spec => []CountInv
  <1>1. Init => CountInv
    <2> SUFFICES ASSUME Init PROVE CountInv
      OBVIOUS
    <2>1. DerivedInv
      BY InitDerived
    <2>2. DOMAIN corpus = {} /\ DOMAIN lengths = {} /\ total = 0
      BY DEF Init, EmptyMap
    <2>3. IsFiniteSet({})
      BY FS_EmptySet
    <2>4. SumFunctionOnSet(lengths, DOMAIN lengths) = 0
      BY <2>2, <2>3, SumFacts
    <2> QED BY <2>1, <2>2, <2>3, <2>4 DEF CountInv, SumFunction
  <1>2. CountInv /\ [Next]_vars => CountInv'
    BY CountInductive
  <1> QED BY <1>1, <1>2, PTL DEF Spec

\* An index that has been added to, replaced in and removed from in any order
\* equals the index built afresh from the documents that remain, the total of the
\* lengths included.
THEOREM IndexAlwaysDerived == Spec => []IndexIsDerived
  <1>1. CountInv => IndexIsDerived
    <2> SUFFICES ASSUME CountInv PROVE IndexIsDerived
      OBVIOUS
    <2>1. MapsAreDerived /\ total = SumFunction(lengths)
      BY DEF CountInv, DerivedInv
    <2>2. lengths = [d \in DOMAIN corpus |-> Length(corpus[d])]
      BY <2>1 DEF MapsAreDerived
    <2> QED BY <2>1, <2>2 DEF IndexIsDerived
  <1> QED BY <1>1, CountAlways, PTL

\* The types of the variables: postings hold positive frequencies, lengths and
\* their total are natural numbers although they are added and subtracted.
THEOREM InvertedIndexTypes == Spec => []TypeOK
  <1>1. CountInv => TypeOK
    <2> SUFFICES ASSUME CountInv PROVE TypeOK
      OBVIOUS
    <2>1. /\ DOMAIN corpus \subseteq Docs /\ corpus \in [DOMAIN corpus -> Texts]
          /\ DOMAIN postings \subseteq Terms
          /\ \A t \in DOMAIN postings : postings[t] = [d \in Containing(t) |-> corpus[d][t]]
          /\ documentTerms = [d \in DOMAIN corpus |-> TermsOf(corpus[d])]
          /\ lengths = [d \in DOMAIN corpus |-> Length(corpus[d])]
      BY DEF CountInv, DerivedInv, CorpusType, MapsAreDerived
    <2>2. documentTerms \in [DOMAIN corpus -> SUBSET Terms]
      BY <2>1 DEF TermsOf
    <2>3. ASSUME NEW t \in DOMAIN postings
          PROVE  /\ DOMAIN postings[t] \subseteq DOMAIN corpus
                 /\ postings[t] \in [DOMAIN postings[t] -> Nat \ {0}]
      <3>1. t \in Terms /\ postings[t] = [d \in Containing(t) |-> corpus[d][t]]
        BY <2>1
      <3>2. \A d \in Containing(t) : d \in DOMAIN corpus /\ corpus[d][t] \in Nat \ {0}
        <4> TAKE d \in Containing(t)
        <4>1. d \in DOMAIN corpus /\ corpus[d][t] > 0
          BY DEF Containing
        <4>2. corpus[d] \in [Terms -> Nat]
          BY <2>1, <4>1, TextAssumption
        <4> QED BY <3>1, <4>1, <4>2
      <3> QED BY <3>1, <3>2
    <2>4. /\ IsFiniteSet(DOMAIN lengths) /\ DOMAIN lengths = DOMAIN corpus
          /\ \A d \in DOMAIN lengths : lengths[d] \in Nat
      BY LengthsTyped DEF CountInv
    <2>5. lengths \in [DOMAIN corpus -> Nat]
      BY <2>1, <2>4
    <2>6. total \in Nat
      <3>1. SumFunctionOnSet(lengths, DOMAIN lengths) \in Nat
        BY <2>4, SumNatural
      <3> QED BY <3>1 DEF CountInv, SumFunction
    <2> QED BY <2>1, <2>2, <2>3, <2>5, <2>6 DEF TypeOK
  <1> QED BY <1>1, CountAlways, PTL

-----------------------------------------------------------------------------
(* Statistics of shards *)

\* Adding up the tokens shard by shard gives the total.
LEMMA TokenParts ==
    ASSUME CountInv, NEW route \in [DOMAIN corpus -> Shards], NEW tokens, DOMAIN tokens = Shards,
           \A s \in Shards :
              tokens[s] = SumFunction([d \in {e \in DOMAIN corpus : route[e] = s} |->
                                          Length(corpus[d])])
    PROVE  SumFunction(tokens) = total
  <1>1. /\ IsFiniteSet(DOMAIN corpus) /\ DOMAIN lengths = DOMAIN corpus
        /\ \A d \in DOMAIN corpus : lengths[d] = Length(corpus[d]) /\ lengths[d] \in Int
        /\ total = SumFunctionOnSet(lengths, DOMAIN corpus)
        /\ IsFiniteSet(Shards)
    BY LengthsTyped, TextAssumption DEF CountInv, SumFunction
  <1>2. ASSUME NEW s \in Shards
        PROVE  tokens[s] = SumFunctionOnSet(lengths, {d \in DOMAIN corpus : route[d] = s})
    <2> DEFINE here == {d \in DOMAIN corpus : route[d] = s}
               f == [d \in here |-> Length(corpus[d])]
    <2>1. tokens[s] = SumFunction(f)
      OBVIOUS
    <2>2. IsFiniteSet(here)
      BY <1>1, FS_Subset
    <2>3. DOMAIN f = here /\ \A d \in here : lengths[d] \in Int /\ lengths[d] = f[d]
      BY <1>1
    <2> HIDE DEF here, f
    <2>4. SumFunctionOnSet(lengths, here) = SumFunctionOnSet(f, here)
      BY <2>2, <2>3, SumSame
    <2> QED BY <2>1, <2>3, <2>4 DEF SumFunction, here
  <1>3. SumFunctionOnSet(tokens, Shards) = SumFunctionOnSet(lengths, DOMAIN corpus)
    BY <1>1, <1>2, SumParts
  <1> QED BY <1>1, <1>3 DEF SumFunction

\* The document frequency that the postings give is that of the corpus.
LEMMA FrequencyFacts ==
    ASSUME CountInv, NEW t \in Terms
    PROVE  DocumentFrequency(t) = Cardinality(Containing(t)) /\ IsFiniteSet(Containing(t))
  <1>1. IsFiniteSet(Containing(t))
    BY FS_Subset DEF CountInv, Containing
  <1>2. DOMAIN PostingMap(t) = Containing(t)
    <2>1. /\ DOMAIN postings = {u \in Terms : Containing(u) # {}}
          /\ \A u \in DOMAIN postings : DOMAIN postings[u] = Containing(u)
      BY DEF CountInv, DerivedInv, MapsAreDerived
    <2>2. CASE t \in DOMAIN postings
      BY <2>1, <2>2 DEF PostingMap
    <2>3. CASE t \notin DOMAIN postings
      BY <2>1, <2>3 DEF PostingMap, EmptyMap
    <2> QED BY <2>2, <2>3
  <1> QED BY <1>1, <1>2 DEF DocumentFrequency

\* Counts and token totals add up over the shards of an exact index.
LEMMA CountsMerge == CountInv => StatsMergeExactly
  <1> SUFFICES ASSUME CountInv, NEW route \in [DOMAIN corpus -> Shards]
               PROVE  LET on(s) == {d \in DOMAIN corpus : route[d] = s}
                          tokens(s) == SumFunction([d \in on(s) |-> Length(corpus[d])])
                          part(s) == [documents |-> Cardinality(on(s)), length |-> tokens(s),
                                      frequency |-> [t \in Terms |->
                                                        Cardinality(on(s) \cap Containing(t))]]
                          stats(s) == [documents |-> Cardinality(on(s)), length |-> tokens(s),
                                       vocabulary |-> Cardinality({t \in Terms :
                                                          on(s) \cap Containing(t) # {}}),
                                       average |-> Average(tokens(s), Cardinality(on(s)))]
                          cluster == ClusterStats([s \in Shards |-> stats(s)])
                      IN  /\ MergeCorpusStats([s \in Shards |-> part(s)]) = CorpusStats(Terms)
                          /\ cluster.documents = IndexStats.documents
                          /\ cluster.average = IndexStats.average
    BY DEF StatsMergeExactly
  <1> DEFINE on(s) == {d \in DOMAIN corpus : route[d] = s}
             tokens(s) == SumFunction([d \in on(s) |-> Length(corpus[d])])
             part(s) == [documents |-> Cardinality(on(s)), length |-> tokens(s),
                         frequency |-> [t \in Terms |-> Cardinality(on(s) \cap Containing(t))]]
             stats(s) == [documents |-> Cardinality(on(s)), length |-> tokens(s),
                          vocabulary |-> Cardinality({t \in Terms :
                                             on(s) \cap Containing(t) # {}}),
                          average |-> Average(tokens(s), Cardinality(on(s)))]
             parts == [s \in Shards |-> part(s)]
             allStats == [s \in Shards |-> stats(s)]
             documents == [s \in Shards |-> Cardinality(on(s))]
             lengthSums == [s \in Shards |-> tokens(s)]
  <1>1. /\ IsFiniteSet(DOMAIN corpus) /\ DOMAIN lengths = DOMAIN corpus
        /\ IsFiniteSet(Shards) /\ Shards # {}
    BY LengthsTyped, TextAssumption DEF CountInv
  <1>2. SumFunction(documents) = Cardinality(DOMAIN corpus)
    <2>1. /\ DOMAIN documents = Shards /\ \A d \in DOMAIN corpus : route[d] \in Shards
          /\ \A s \in Shards : documents[s] = Cardinality({d \in DOMAIN corpus : route[d] = s})
      OBVIOUS
    <2> HIDE DEF documents, on
    <2> QED BY <1>1, <2>1, CountParts
  <1>3. SumFunction(lengthSums) = total
    <2>1. /\ DOMAIN lengthSums = Shards
          /\ \A s \in Shards :
                lengthSums[s] = SumFunction([d \in {e \in DOMAIN corpus : route[e] = s} |->
                                                Length(corpus[d])])
      OBVIOUS
    <2> HIDE DEF lengthSums, on, tokens
    <2> QED BY <2>1, TokenParts
  <1>4. ASSUME NEW t \in Terms
        PROVE  SumFunction([s \in Shards |-> Cardinality(on(s) \cap Containing(t))])
                  = DocumentFrequency(t)
    <2> DEFINE count == [s \in Shards |-> Cardinality(on(s) \cap Containing(t))]
    <2>1. \A s \in Shards : on(s) \cap Containing(t) = {d \in Containing(t) : route[d] = s}
      BY DEF Containing
    <2>2. /\ DOMAIN count = Shards
          /\ \A s \in Shards : count[s] = Cardinality({d \in Containing(t) : route[d] = s})
      BY <2>1
    <2>3. /\ IsFiniteSet(Containing(t)) /\ DocumentFrequency(t) = Cardinality(Containing(t))
          /\ \A d \in Containing(t) : route[d] \in Shards
      BY FrequencyFacts DEF Containing
    <2> HIDE DEF count, on
    <2>4. SumFunction(count) = Cardinality(Containing(t))
      BY <1>1, <2>2, <2>3, CountParts
    <2> QED BY <2>3, <2>4 DEF count
  <1> HIDE DEF on, tokens
  <1>5. MergeCorpusStats(parts) = CorpusStats(Terms)
    <2>1. /\ [s \in Shards |-> parts[s].documents] = documents
          /\ [s \in Shards |-> parts[s].length] = lengthSums
      OBVIOUS
    <2>2. UNION {DOMAIN parts[s].frequency : s \in Shards} = Terms
      BY <1>1
    <2>3. \A t \in Terms : [s \in Shards |-> parts[s].frequency[t]]
                              = [s \in Shards |-> Cardinality(on(s) \cap Containing(t))]
      OBVIOUS
    <2>4. [t \in UNION {DOMAIN parts[s].frequency : s \in Shards} |->
              SumFunction([s \in Shards |-> parts[s].frequency[t]])]
             = [t \in Terms |-> DocumentFrequency(t)]
      <3> HIDE DEF parts
      <3> QED BY <1>4, <2>2, <2>3
    <2> HIDE DEF parts, documents, lengthSums
    <2> QED BY <1>1, <1>2, <1>3, <2>1, <2>4 DEF MergeCorpusStats, CorpusStats
  <1>6. /\ ClusterStats(allStats).documents = IndexStats.documents
        /\ ClusterStats(allStats).average = IndexStats.average
    <2>1. /\ [s \in Shards |-> allStats[s].documents] = documents
          /\ [s \in Shards |-> allStats[s].length] = lengthSums
      OBVIOUS
    <2> HIDE DEF allStats, documents, lengthSums
    <2> QED BY <1>1, <1>2, <1>3, <2>1 DEF ClusterStats, IndexStats
  <1> QED BY <1>5, <1>6 DEF parts, allStats, part, stats, on, tokens

\* merge_corpus_stats and Coordinator.index_stats are exact: however documents
\* are routed to shards, the merged document counts, lengths, frequencies and the
\* average are those of one index with the whole corpus.
THEOREM ShardStatsMerge == Spec => []StatsMergeExactly
  BY CountsMerge, CountAlways, PTL

-----------------------------------------------------------------------------
(* validate() *)

\* A posting list of term t with one wrong entry: none is left, one is lost, or
\* one is there that has another value or should not be there.
DamagedList(t, list) ==
    \/ list = EmptyMap
    \/ \E d \in DOMAIN PostingMap(t) : list = Drop(PostingMap(t), d)
    \/ \E d \in DOMAIN PostingMap(t) :
          \/ list = Put(PostingMap(t), d, PostingMap(t)[d] - 1)
          \/ list = Put(PostingMap(t), d, PostingMap(t)[d] + 1)
    \/ \E d, v : d \notin DOMAIN PostingMap(t) /\ list = Put(PostingMap(t), d, v)

IsMap(m) == m = [k \in DOMAIN m |-> m[k]]

LEMMA MapFacts == \A m, k, v : IsMap(Drop(m, k)) /\ IsMap(Put(m, k, v))
  BY DEF IsMap, Drop, Put

\* What a damaged index looks like.
LEMMA DamagedCases ==
    ASSUME NEW index \in Damaged
    PROVE  \/ \E n : index = [Itself EXCEPT !.total = n]
           \/ \E m : index = [Itself EXCEPT !.lengths = m] /\ IsMap(m)
           \/ \E m : index = [Itself EXCEPT !.terms = m] /\ IsMap(m)
           \/ \E t \in DOMAIN postings : index = [Itself EXCEPT !.postings = Drop(postings, t)]
           \/ \E t \in Terms : \E list :
                 /\ index = [Itself EXCEPT !.postings = Put(postings, t, list)]
                 /\ DamagedList(t, list)
  <1> DEFINE near(n) == {n - 1, n + 1}
             otherLengths(d) == IF d \in DOMAIN lengths THEN near(lengths[d]) ELSE {0, 1}
             lengthMaps == {Drop(lengths, k) : k \in DOMAIN lengths}
                             \cup UNION {{Put(lengths, k, v) : v \in otherLengths(k)} : k \in Docs}
             termMaps == {Drop(documentTerms, k) : k \in DOMAIN documentTerms}
                           \cup UNION {{Put(documentTerms, k, v) : v \in SUBSET Terms} : k \in Docs}
             others(t, d) == IF d \in DOMAIN PostingMap(t) THEN near(PostingMap(t)[d]) ELSE {0, 1}
             lists(t) == ({Drop(PostingMap(t), k) : k \in DOMAIN PostingMap(t)}
                          \cup UNION {{Put(PostingMap(t), k, v) : v \in others(t, k)} : k \in Docs})
                           \cup {EmptyMap}
             postingMaps == {Drop(postings, k) : k \in DOMAIN postings}
                             \cup UNION {{Put(postings, k, v) : v \in lists(k)} : k \in Terms}
  <1>1. Damaged = {[Itself EXCEPT !.total = n] : n \in near(total)}
                  \cup {[Itself EXCEPT !.lengths = m] : m \in lengthMaps}
                  \cup {[Itself EXCEPT !.terms = m] : m \in termMaps}
                  \cup {[Itself EXCEPT !.postings = m] : m \in postingMaps}
    BY DEF Damaged
  <1>2. \A m \in lengthMaps : IsMap(m)
    <2> HIDE DEF otherLengths
    <2> QED BY MapFacts
  <1>3. \A m \in termMaps : IsMap(m)
    BY MapFacts
  <1>4. \A t : \A list \in lists(t) : DamagedList(t, list)
    BY DEF DamagedList
  <1>5. \A m \in postingMaps : \/ \E t \in DOMAIN postings : m = Drop(postings, t)
                               \/ \E t \in Terms : \E list : m = Put(postings, t, list) /\ DamagedList(t, list)
    <2> HIDE DEF lists
    <2> QED BY <1>4
  <1> HIDE DEF near, lengthMaps, termMaps, postingMaps, lists
  <1> QED BY <1>1, <1>2, <1>3, <1>5

\* The terms of a document are those it has a posting for, and the postings add
\* up to its length.
LEMMA DocumentFacts ==
    ASSUME CountInv
    PROVE  /\ DOMAIN lengths = DOMAIN corpus /\ DOMAIN documentTerms = DOMAIN corpus
           /\ \A t \in DOMAIN postings : DOMAIN postings[t] \subseteq DOMAIN corpus
           /\ \A d \in DOMAIN corpus :
                 /\ documentTerms[d] = {t \in DOMAIN postings : d \in DOMAIN postings[t]}
                 /\ IsFiniteSet(documentTerms[d])
                 /\ \A t \in documentTerms[d] : postings[t][d] \in Nat \ {0}
                 /\ lengths[d] = SumFunction([t \in documentTerms[d] |-> postings[t][d]])
  <1>1. /\ DOMAIN postings = {u \in Terms : Containing(u) # {}}
        /\ \A t \in DOMAIN postings : /\ DOMAIN postings[t] = Containing(t)
                                      /\ \A d \in Containing(t) : postings[t][d] = corpus[d][t]
        /\ DOMAIN documentTerms = DOMAIN corpus
        /\ \A d \in DOMAIN corpus : documentTerms[d] = TermsOf(corpus[d])
    BY DEF CountInv, DerivedInv, MapsAreDerived
  <1>2. \A d \in DOMAIN corpus : TermsOf(corpus[d]) = {t \in DOMAIN postings : d \in Containing(t)}
    BY <1>1 DEF TermsOf, Containing
  <1>3. /\ DOMAIN lengths = DOMAIN corpus
        /\ \A d \in DOMAIN corpus : corpus[d] \in Texts /\ lengths[d] = Length(corpus[d])
    BY LengthsTyped DEF CountInv
  <1>4. ASSUME NEW d \in DOMAIN corpus
        PROVE  /\ IsFiniteSet(documentTerms[d])
               /\ \A t \in documentTerms[d] : postings[t][d] \in Nat \ {0}
               /\ lengths[d] = SumFunction([t \in documentTerms[d] |-> postings[t][d]])
    <2> DEFINE text == corpus[d]
               found == [t \in documentTerms[d] |-> postings[t][d]]
    <2>1. /\ text \in [Terms -> Nat] /\ IsFiniteSet(TermsOf(text))
          /\ lengths[d] = SumFunctionOnSet(text, TermsOf(text))
      BY <1>3, LengthFacts
    <2>2. documentTerms[d] = TermsOf(text) /\ DOMAIN found = TermsOf(text)
      BY <1>1
    <2>3. \A t \in TermsOf(text) : t \in DOMAIN postings /\ d \in Containing(t)
      BY <1>2
    <2>4. \A t \in TermsOf(text) : postings[t][d] = text[t] /\ text[t] \in Nat \ {0}
      BY <1>1, <2>1, <2>3 DEF TermsOf
    <2>5. \A t \in TermsOf(text) : text[t] \in Int /\ text[t] = found[t]
      BY <2>2, <2>4
    <2> HIDE DEF found, text
    <2>6. SumFunctionOnSet(text, TermsOf(text)) = SumFunctionOnSet(found, TermsOf(text))
      BY <2>1, <2>5, SumSame
    <2>7. lengths[d] = SumFunction(found)
      BY <2>1, <2>2, <2>6 DEF SumFunction
    <2> QED BY <2>1, <2>2, <2>4, <2>7 DEF found
  <1>5. \A t : Containing(t) \subseteq DOMAIN corpus
    BY DEF Containing
  <1>6. \A d \in DOMAIN corpus :
           documentTerms[d] = {t \in DOMAIN postings : d \in DOMAIN postings[t]}
    <2>1. \A d : {t \in DOMAIN postings : d \in Containing(t)}
                   = {t \in DOMAIN postings : d \in DOMAIN postings[t]}
      BY <1>1
    <2> QED BY <1>1, <1>2, <2>1
  <1>7. \A t \in DOMAIN postings : DOMAIN postings[t] \subseteq DOMAIN corpus
    BY <1>1, <1>5
  <1>8. DOMAIN documentTerms = DOMAIN corpus
    BY <1>1
  <1> QED BY <1>3, <1>4, <1>6, <1>7, <1>8

\* validate accepts the index.
LEMMA IndexIsValid ==
    ASSUME CountInv
    PROVE  Valid(Itself)
  <1>1. \A d \in DOMAIN lengths : lengths[d] >= 0
    BY LengthsTyped DEF CountInv
  <1>2. /\ Itself.postings = postings /\ Itself.terms = documentTerms
        /\ Itself.lengths = lengths /\ Itself.total = total
    BY DEF Itself
  <1>3. \A t \in DOMAIN postings : DOMAIN postings[t] # {}
    BY DEF CountInv, DerivedInv, MapsAreDerived
  <1>4. \A t \in DOMAIN postings : \A d \in DOMAIN postings[t] :
           d \in DOMAIN lengths /\ t \in documentTerms[d] /\ postings[t][d] >= 1
    <2> SUFFICES ASSUME NEW t \in DOMAIN postings, NEW d \in DOMAIN postings[t]
                 PROVE  d \in DOMAIN lengths /\ t \in documentTerms[d] /\ postings[t][d] >= 1
      OBVIOUS
    <2>1. d \in DOMAIN lengths /\ t \in documentTerms[d] /\ postings[t][d] \in Nat \ {0}
      BY DocumentFacts
    <2> QED BY <2>1
  <1>5. \A d \in DOMAIN documentTerms :
           /\ \A t \in documentTerms[d] : t \in DOMAIN postings /\ d \in DOMAIN postings[t]
           /\ lengths[d] = Summed(Itself, d)
    BY <1>2, DocumentFacts DEF Summed
  <1>6. DOMAIN documentTerms = DOMAIN lengths /\ total = SumFunction(lengths)
    BY DocumentFacts DEF CountInv
  <1> HIDE DEF Itself
  <1> QED BY <1>1, <1>2, <1>3, <1>4, <1>5, <1>6 DEF Valid

\* A total, a length or a set of terms that is not the index's own is seen.
LEMMA TotalsAreSeen ==
    ASSUME CountInv, NEW index, Valid(index), NEW x,
           \/ index = [Itself EXCEPT !.total = x]
           \/ index = [Itself EXCEPT !.lengths = x] /\ IsMap(x)
           \/ index = [Itself EXCEPT !.terms = x] /\ IsMap(x)
    PROVE  index = Itself
  <1>1. CASE index = [Itself EXCEPT !.total = x]
    <2>1. index.lengths = lengths /\ index.total = x
      BY <1>1 DEF Itself
    <2>2. x = total
      BY <2>1 DEF Valid, CountInv
    <2> QED BY <1>1, <2>2 DEF Itself
  <1>2. CASE index = [Itself EXCEPT !.lengths = x] /\ IsMap(x)
    <2>1. /\ index.lengths = x /\ index.terms = documentTerms /\ index.postings = postings
      BY <1>2 DEF Itself
    <2>2. DOMAIN x = DOMAIN corpus
      BY <2>1, DocumentFacts DEF Valid
    <2>3. \A d \in DOMAIN corpus : x[d] = SumFunction([t \in documentTerms[d] |-> postings[t][d]])
      BY <2>1, DocumentFacts DEF Valid, Summed
    <2>4. \A d \in DOMAIN corpus : x[d] = lengths[d]
      BY <2>3, DocumentFacts
    <2>5. IsMap(lengths) /\ DOMAIN lengths = DOMAIN corpus
      BY DEF IsMap, CountInv, DerivedInv, MapsAreDerived
    <2>6. x = lengths
      BY <1>2, <2>2, <2>4, <2>5 DEF IsMap
    <2> QED BY <1>2, <2>6 DEF Itself
  <1>3. CASE index = [Itself EXCEPT !.terms = x] /\ IsMap(x)
    <2>1. /\ index.lengths = lengths /\ index.terms = x /\ index.postings = postings
      BY <1>3 DEF Itself
    <2>2. DOMAIN x = DOMAIN corpus
      BY <2>1, DocumentFacts DEF Valid
    <2>3. /\ \A t \in DOMAIN postings : \A d \in DOMAIN postings[t] : t \in x[d]
          /\ \A d \in DOMAIN x : \A t \in x[d] : t \in DOMAIN postings /\ d \in DOMAIN postings[t]
      BY <2>1 DEF Valid
    <2>4. \A d \in DOMAIN corpus : x[d] = {t \in DOMAIN postings : d \in DOMAIN postings[t]}
      BY <2>2, <2>3
    <2>5. \A d \in DOMAIN corpus : x[d] = documentTerms[d]
      BY <2>4, DocumentFacts
    <2>6. IsMap(documentTerms) /\ DOMAIN documentTerms = DOMAIN corpus
      BY DEF IsMap, CountInv, DerivedInv, MapsAreDerived
    <2>7. x = documentTerms
      BY <1>3, <2>2, <2>5, <2>6 DEF IsMap
    <2> QED BY <1>3, <2>7 DEF Itself
  <1> QED BY <1>1, <1>2, <1>3

\* A posting whose frequency is off by any amount is seen.
LEMMA FrequencyIsSeen ==
    ASSUME CountInv, NEW t \in DOMAIN postings, NEW d \in DOMAIN postings[t], NEW v \in Int,
           v # postings[t][d]
    PROVE  ~Valid([Itself EXCEPT !.postings = Put(postings, t, Put(postings[t], d, v))])
  <1> DEFINE found == [u \in documentTerms[d] |-> postings[u][d]]
             damaged == Put(postings, t, Put(postings[t], d, v))
             index == [Itself EXCEPT !.postings = damaged]
             rest == SumFunctionOnSet(found, DOMAIN found \ {t})
  <1>1. /\ d \in DOMAIN corpus /\ t \in documentTerms[d] /\ IsFiniteSet(documentTerms[d])
        /\ \A u \in documentTerms[d] : /\ u \in DOMAIN postings /\ d \in DOMAIN postings[u]
                                       /\ postings[u][d] \in Nat \ {0}
        /\ lengths[d] = SumFunction(found) /\ DOMAIN documentTerms = DOMAIN corpus
    BY DocumentFacts
  <1>2. DOMAIN found = documentTerms[d] /\ \A u \in DOMAIN found : found[u] \in Int
    BY <1>1
  <1>3. found[t] = postings[t][d] /\ found[t] \in Int
    BY <1>1
  <1>4. index.postings = damaged /\ index.terms = documentTerms /\ index.lengths = lengths
    BY DEF Itself
  <1>5. \A u \in documentTerms[d] : damaged[u][d] = IF u = t THEN v ELSE postings[u][d]
    BY <1>1 DEF Put
  <1>6. [u \in documentTerms[d] |-> damaged[u][d]] = Put(found, t, v)
    <2>1. Put(found, t, v) = [u \in documentTerms[d] |-> IF u = t THEN v ELSE postings[u][d]]
      BY <1>1 DEF Put
    <2> HIDE DEF damaged, found
    <2> QED BY <1>5, <2>1
  <1> HIDE DEF found, damaged, index
  <1>7. /\ rest \in Int /\ SumFunction(found) = found[t] + rest
        /\ SumFunction(Put(found, t, v)) = v + rest
    BY <1>1, <1>2, SumOfMap
  <1>8. lengths[d] # Summed(index, d)
    <2>1. Summed(index, d) = v + rest
      BY <1>4, <1>6, <1>7 DEF Summed
    <2>2. lengths[d] = found[t] + rest
      BY <1>1, <1>7
    <2> HIDE DEF rest
    <2> QED BY <1>3, <1>7, <2>1, <2>2
  <1>9. ~Valid(index)
    BY <1>1, <1>4, <1>8 DEF Valid
  <1> QED BY <1>9 DEF index, damaged

\* An empty list, a lost posting, one with another frequency and one that the
\* document knows nothing of are seen.
LEMMA ListsAreSeen ==
    ASSUME CountInv, NEW t, NEW list, DamagedList(t, list)
    PROVE  ~Valid([Itself EXCEPT !.postings = Put(postings, t, list)])
  <1> DEFINE damaged == Put(postings, t, list)
             index == [Itself EXCEPT !.postings = damaged]
  <1>1. index.postings = damaged /\ index.terms = documentTerms /\ index.lengths = lengths
    BY DEF Itself
  <1>2. t \in DOMAIN damaged /\ damaged[t] = list
    BY DEF Put
  <1>3. \A d \in DOMAIN PostingMap(t) :
           /\ t \in DOMAIN postings /\ PostingMap(t) = postings[t]
           /\ d \in DOMAIN documentTerms /\ t \in documentTerms[d]
           /\ PostingMap(t)[d] \in Nat
    BY DocumentFacts DEF PostingMap, EmptyMap
  <1>4. \A d \in DOMAIN lengths : t \in documentTerms[d] => d \in DOMAIN PostingMap(t)
    BY DocumentFacts DEF PostingMap
  <1>5. CASE list = EmptyMap
    <2>1. DOMAIN damaged[t] = {}
      BY <1>2, <1>5 DEF EmptyMap
    <2> HIDE DEF damaged, index
    <2>2. ~Valid(index)
      BY <1>1, <1>2, <2>1 DEF Valid
    <2> QED BY <2>2 DEF index, damaged
  <1>6. ASSUME NEW d \in DOMAIN PostingMap(t), list = Drop(PostingMap(t), d)
        PROVE  ~Valid(index)
    <2>1. d \notin DOMAIN damaged[t]
      BY <1>2, <1>6 DEF Drop
    <2> HIDE DEF damaged, index
    <2> QED BY <1>1, <1>2, <1>3, <2>1 DEF Valid
  <1>7. ASSUME NEW d \in DOMAIN PostingMap(t), NEW v \in Int, v # PostingMap(t)[d],
               list = Put(PostingMap(t), d, v)
        PROVE  ~Valid(index)
    BY <1>3, <1>7, FrequencyIsSeen
  <1>8. ASSUME NEW d, NEW v, d \notin DOMAIN PostingMap(t), list = Put(PostingMap(t), d, v)
        PROVE  ~Valid(index)
    <2>1. d \in DOMAIN damaged[t]
      BY <1>2, <1>8 DEF Put
    <2> HIDE DEF damaged, index
    <2> QED BY <1>1, <1>2, <1>4, <1>8, <2>1 DEF Valid
  <1>9. ASSUME NEW d \in DOMAIN PostingMap(t)
        PROVE  /\ PostingMap(t)[d] - 1 \in Int /\ PostingMap(t)[d] - 1 # PostingMap(t)[d]
               /\ PostingMap(t)[d] + 1 \in Int /\ PostingMap(t)[d] + 1 # PostingMap(t)[d]
    <2>1. PostingMap(t)[d] \in Nat
      BY <1>3
    <2> QED BY <2>1
  <1> HIDE DEF index
  <1>10. ~Valid(index)
    BY <1>5, <1>6, <1>7, <1>8, <1>9 DEF DamagedList, index
  <1> QED BY <1>10 DEF index

\* A term that has left the postings is seen.
LEMMA LostTermIsSeen ==
    ASSUME CountInv, NEW t \in DOMAIN postings
    PROVE  ~Valid([Itself EXCEPT !.postings = Drop(postings, t)])
  <1> DEFINE index == [Itself EXCEPT !.postings = Drop(postings, t)]
  <1>1. index.postings = Drop(postings, t) /\ index.terms = documentTerms
    BY DEF Itself
  <1>2. t \notin DOMAIN index.postings
    BY <1>1 DEF Drop
  <1>3. PICK d \in DOMAIN postings[t] : TRUE
    BY DEF CountInv, DerivedInv, MapsAreDerived
  <1>4. d \in DOMAIN documentTerms /\ t \in documentTerms[d]
    BY DocumentFacts
  <1> HIDE DEF index
  <1>5. ~Valid(index)
    BY <1>1, <1>2, <1>4 DEF Valid
  <1> QED BY <1>5 DEF index

\* validate() refuses no index that add_document and remove_document have built,
\* and accepts none that differs from it in one entry of one structure.
THEOREM ValidateIsExact == Spec => []ValidateSeesDamage
  <1>1. CountInv => ValidateSeesDamage
    <2> SUFFICES ASSUME CountInv PROVE ValidateSeesDamage
      OBVIOUS
    <2>1. ASSUME NEW index \in Damaged, index # Itself, Valid(index)
          PROVE  FALSE
      <3>1. CASE \E n : index = [Itself EXCEPT !.total = n]
        BY <2>1, <3>1, TotalsAreSeen
      <3>2. CASE \E m : index = [Itself EXCEPT !.lengths = m] /\ IsMap(m)
        BY <2>1, <3>2, TotalsAreSeen
      <3>3. CASE \E m : index = [Itself EXCEPT !.terms = m] /\ IsMap(m)
        BY <2>1, <3>3, TotalsAreSeen
      <3>4. CASE \E t \in DOMAIN postings :
                    index = [Itself EXCEPT !.postings = Drop(postings, t)]
        BY <2>1, <3>4, LostTermIsSeen
      <3>5. CASE \E t \in Terms : \E list :
                    /\ index = [Itself EXCEPT !.postings = Put(postings, t, list)]
                    /\ DamagedList(t, list)
        BY <2>1, <3>5, ListsAreSeen
      <3> QED BY <3>1, <3>2, <3>3, <3>4, <3>5, DamagedCases
    <2> QED BY <2>1, IndexIsValid DEF ValidateSeesDamage
  <1> QED BY <1>1, CountAlways, PTL

=============================================================================

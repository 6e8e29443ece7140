---------------------------- MODULE VectorSearch -----------------------------
(***************************************************************************)
(* ExactVectorIndex.search over the rows of VectorIndex.  Document ids are *)
(* integers so that they have an order, and an embedding is an integer:    *)
(* the similarity of two of them is their product.                         *)
(***************************************************************************)
EXTENDS VectorIndex, FiniteSets

CONSTANTS
    Queries,    \* embeddings of queries
    MaxLimit    \* bound: results asked for

ASSUME SearchAssumption ==
    /\ Docs \cup Vectors \cup {Zero} \cup Queries \subseteq Int
    /\ MaxLimit \in Nat

Similarity(v, w) == v * w
Least(m, n) == IF m < n THEN m ELSE n

\* Rows in the order of their score, ties as the rows happen to lie.
ByScoreOnly(hits, i, j) == hits[i][2] > hits[j][2] \/ (hits[i][2] = hits[j][2] /\ i < j)

\* The sort key of a hit: descending score, then ascending document id.
SortsBefore(hits, i, j) ==
    hits[i][2] > hits[j][2] \/ (hits[i][2] = hits[j][2] /\ hits[i][1] < hits[j][1])

\* search: every live row is compared with the query, the hits are sorted (each
\* comes behind those that sort before it) and the first `limit' are the answer.
Search(query, limit) ==
    LET hits == [i \in 1..Count |-> <<ids[i], Similarity(matrix[i], query)>>]
        place(i) == 1 + Cardinality({j \in 1..Count : SortsBefore(hits, j, i)})
    IN  [n \in 1..Least(limit, Count) |-> hits[CHOOSE i \in 1..Count : place(i) = n]]

\* A validation that does not compare the numbers of rows and positions.
ValidRowsOnly(rows, at) ==
    \A i \in DOMAIN rows : rows[i] \in DOMAIN at /\ at[rows[i]] = i

\* validate: as many positions as rows, and every row where its document's
\* position says.  (The width and the length of the vectors, which validate
\* also checks, are part of an embedding being one.)
Valid(rows, at) ==
    /\ Len(rows) = Cardinality(DOMAIN at)
    /\ \A i \in DOMAIN rows : rows[i] \in DOMAIN at /\ at[rows[i]] = i

\* Document d is to be preferred to document e.
Preferred(d, e, query) ==
    LET s == Similarity(VectorFor(d), query)
        t == Similarity(VectorFor(e), query)
    IN  s > t \/ (s = t /\ d < e)

\* A search is exact and depends on nothing but the map: it finds the best
\* documents, in order and with their own scores, whatever insertions, swaps
\* and growth have done to the rows.
SearchIsExact ==
    LET held == {d \in Docs : VectorFor(d) # NoVector} IN
    \A q \in Queries, k \in 1..MaxLimit :
        LET answer == Search(q, k)
            doc(i) == answer[i][1]
            found == {doc(i) : i \in DOMAIN answer}
        IN  /\ Cardinality(found) = Least(k, Cardinality(held))
            /\ found \subseteq held
            /\ \A i \in DOMAIN answer : answer[i][2] = Similarity(VectorFor(doc(i)), q)
            /\ \A i, j \in DOMAIN answer : i < j => Preferred(doc(i), doc(j), q)
            /\ \A d \in found, e \in held \ found : Preferred(d, e, q)

\* The rows, and the positions, with at most one entry changed, lost or added.
RowsNearby ==
    {ids} \cup {[ids EXCEPT ![i] = d] : i \in DOMAIN ids, d \in Docs}
        \cup {SubSeq(ids, 1, n) : n \in {Count - 1} \cap Nat}
        \cup {Append(ids, d) : d \in Docs}
PositionsNearby ==
    LET With(d, i) == [e \in DOMAIN positions \cup {d} |-> IF e = d THEN i ELSE positions[e]]
        Without(d) == [e \in DOMAIN positions \ {d} |-> positions[e]]
    IN  {positions} \cup {With(d, i) : d \in Docs, i \in 1..(Count + 1)}
           \cup {Without(d) : d \in DOMAIN positions}

\* validate reads the rows only, and still is complete: it accepts the index
\* after any operations, and among the indexes with a wrong entry in _ids, in
\* _positions or in both it accepts those alone in which the two are inverse
\* to each other, so that no document is found twice or never.
ValidateIsComplete ==
    /\ Valid(ids, positions)
    /\ \A rows \in RowsNearby, at \in PositionsNearby :
          Valid(rows, at) <=> /\ DOMAIN at = {rows[i] : i \in DOMAIN rows}
                             /\ \A d \in DOMAIN at : {i \in DOMAIN rows : rows[i] = d} = {at[d]}

=============================================================================

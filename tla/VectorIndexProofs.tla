-------------------------- MODULE VectorIndexProofs --------------------------
(***************************************************************************)
(* For any documents, embeddings and initial capacity: rows and positions  *)
(* stay inverse to each other, the index implements a map, a search of it  *)
(* is exact and validate() sees every wrong entry.                         *)
(***************************************************************************)
EXTENDS VectorSearch, FiniteSetLemmas

IndexInv == TypeOK /\ RowsMatchPositions

\* The empty index, at the start and after clear().
LEMMA EmptyIndex ==
    ASSUME ids = << >>, positions = [d \in {} |-> 0], matrix = Zeros(InitialCapacity)
    PROVE  IndexInv
<1>1. matrix \in Seq(Row)
  BY VectorAssumption DEF Zeros, Row
<1>2. Len(matrix) = InitialCapacity
  BY VectorAssumption DEF Zeros
<1> QED
  BY <1>1, <1>2, VectorAssumption DEF IndexInv, TypeOK, RowsMatchPositions, Count, Capacity

\* Growth keeps the rows that are there and makes room for one more.
LEMMA Growth ==
    ASSUME TypeOK, NEW required \in Nat, required <= Count + 1
    PROVE  /\ GrowIfNeeded(required) \in Seq(Row)
           /\ required <= Len(GrowIfNeeded(required))
           /\ \A i \in 1..Count : GrowIfNeeded(required)[i] = matrix[i]
<1> DEFINE grown(n) == [i \in 1..n |-> IF i <= Capacity THEN matrix[i] ELSE Zero]
<1>1. Capacity \in Nat /\ Count \in Nat /\ Count <= Capacity
  BY DEF TypeOK, Count, Capacity
<1>2. ASSUME NEW n \in Nat
      PROVE  grown(n) \in Seq(Row) /\ Len(grown(n)) = n
  <2>1. \A i \in 1..n : grown(n)[i] \in Row
    BY <1>1 DEF TypeOK, Capacity, Row
  <2>2. grown(n) \in [1..n -> Row]
    BY <2>1
  <2> QED
    BY <2>2
<1>3. CASE required <= Capacity
  BY <1>3, <1>1 DEF GrowIfNeeded, TypeOK, Capacity
<1>4. CASE ~(required <= Capacity)
  <2> DEFINE capacity == IF required > 2 * Capacity THEN required ELSE 2 * Capacity
  <2>1. capacity \in Nat /\ required <= capacity /\ Count <= capacity
    BY <1>1, <1>4
  <2>2. GrowIfNeeded(required) = grown(capacity)
    BY <1>4 DEF GrowIfNeeded
  <2>3. \A i \in 1..Count : grown(capacity)[i] = matrix[i]
    BY <2>1, <1>1
  <2> HIDE DEF grown, capacity
  <2> QED
    BY <1>2, <2>1, <2>2, <2>3
<1> QED
  BY <1>3, <1>4

\* add() of a document that has a row.
LEMMA ReplaceKeepsInv ==
    ASSUME IndexInv, NEW d \in Docs, NEW v \in Vectors, Replace(d, v)
    PROVE  IndexInv'
<1>1. positions[d] \in 1..Len(matrix) /\ v \in Row
  BY DEF IndexInv, TypeOK, Replace, Count, Capacity, Row
<1>2. matrix' \in Seq(Row) /\ Len(matrix') = Len(matrix)
  BY <1>1 DEF IndexInv, TypeOK, Replace
<1> QED
  BY <1>2 DEF IndexInv, TypeOK, RowsMatchPositions, Replace, Count, Capacity

\* add() of a new document.
LEMMA InsertKeepsInv ==
    ASSUME IndexInv, NEW d \in Docs, NEW v \in Vectors, Insert(d, v)
    PROVE  IndexInv'
<1> DEFINE n == Len(ids)
<1>1. n \in Nat /\ ids \in Seq(Docs) /\ v \in Row
  BY DEF IndexInv, TypeOK, Row
<1>2. /\ ids' \in Seq(Docs) /\ Len(ids') = n + 1
      /\ \A i \in 1..n : ids'[i] = ids[i]
      /\ ids'[n + 1] = d
  BY <1>1 DEF Insert
<1>3. /\ GrowIfNeeded(n + 1) \in Seq(Row)
      /\ n + 1 <= Len(GrowIfNeeded(n + 1))
  BY <1>1, Growth DEF IndexInv, Count
<1>4. /\ matrix' \in Seq(Row)
      /\ n + 1 <= Len(matrix')
  <2>1. matrix' = [GrowIfNeeded(n + 1) EXCEPT ![n + 1] = v]
    BY DEF Insert, Count
  <2> QED
    BY <1>1, <1>3, <2>1
<1>5. /\ DOMAIN positions' = DOMAIN positions \cup {d}
      /\ positions'[d] = n + 1
      /\ \A e \in DOMAIN positions : e # d /\ positions'[e] = positions[e]
  BY DEF Insert, Count
<1>6. positions' \in [DOMAIN positions' -> 1..(n + 1)]
  <2>1. positions' = [e \in DOMAIN positions' |-> positions'[e]]
    BY DEF Insert
  <2>2. \A e \in DOMAIN positions' : positions'[e] \in 1..(n + 1)
    BY <1>1, <1>5 DEF IndexInv, TypeOK, Count
  <2> QED
    BY <2>1, <2>2
<1>7. TypeOK'
  BY <1>1, <1>2, <1>4, <1>5, <1>6 DEF IndexInv, TypeOK, Count, Capacity
<1>8. RowsMatchPositions'
  <2>1. \A i \in 1..(n + 1) : ids'[i] \in DOMAIN positions' /\ positions'[ids'[i]] = i
    BY <1>1, <1>2, <1>5 DEF IndexInv, RowsMatchPositions, Count
  <2>2. \A e \in DOMAIN positions' : positions'[e] \in 1..(n + 1) /\ ids'[positions'[e]] = e
    BY <1>1, <1>2, <1>5 DEF IndexInv, RowsMatchPositions, Count
  <2> QED
    BY <1>2, <2>1, <2>2 DEF RowsMatchPositions, Count
<1> QED
  BY <1>7, <1>8 DEF IndexInv

\* remove(): what the swap does to rows and positions.
LEMMA RemoveKeepsInv ==
    ASSUME IndexInv, NEW d \in Docs, Remove(d)
    PROVE  IndexInv'
<1> DEFINE n == Len(ids)
           hole == positions[d]
<1>1. /\ n \in Nat /\ ids \in Seq(Docs)
      /\ hole \in 1..n /\ ids[hole] = d /\ n - 1 \in Nat
      /\ d \in DOMAIN positions
  BY DEF IndexInv, TypeOK, RowsMatchPositions, Remove, Count
<1>2. /\ ids' = [i \in 1..(n - 1) |-> IF i = hole THEN ids[n] ELSE ids[i]]
      /\ ids' \in Seq(Docs) /\ Len(ids') = n - 1
  <2>1. ids' = [i \in 1..(n - 1) |-> IF i = hole THEN ids[n] ELSE ids[i]]
    BY DEF Remove, Count
  <2>2. \A i \in 1..n : ids[i] \in Docs
    BY <1>1
  <2>3. ids' \in [1..(n - 1) -> Docs]
    BY <1>1, <2>1, <2>2
  <2> QED
    BY <1>1, <2>1, <2>3
<1>3. matrix' \in Seq(Row) /\ Len(matrix') = Len(matrix)
  <2>1. matrix' = [matrix EXCEPT ![hole] = matrix[n]]
    BY DEF Remove, Count
  <2>2. n <= Len(matrix) /\ matrix \in Seq(Row)
    BY DEF IndexInv, TypeOK, Count, Capacity
  <2> QED
    BY <1>1, <2>1, <2>2
<1>4. /\ DOMAIN positions' = DOMAIN positions \ {d}
      /\ \A e \in DOMAIN positions' :
            positions'[e] = IF e = ids[n] THEN hole ELSE positions[e]
      /\ positions' = [e \in DOMAIN positions' |-> positions'[e]]
  BY DEF Remove, Count
<1>5. /\ \A i \in 1..n : ids[i] \in DOMAIN positions /\ positions[ids[i]] = i
      /\ \A e \in DOMAIN positions : positions[e] \in 1..n /\ ids[positions[e]] = e
  BY DEF IndexInv, RowsMatchPositions, Count
<1>6. ASSUME NEW e \in DOMAIN positions'
      PROVE  positions'[e] \in 1..(n - 1) /\ ids'[positions'[e]] = e
  <2>1. e \in DOMAIN positions /\ e # d
    BY <1>4
  <2>2. CASE e = ids[n]
    <3>1. hole # n
      BY <1>1, <2>1, <2>2
    <3> QED
      BY <1>1, <1>2, <1>4, <2>2, <3>1
  <2>3. CASE e # ids[n]
    <3>1. positions[e] # n /\ positions[e] # hole
      BY <1>1, <1>5, <2>1, <2>3
    <3> QED
      BY <1>1, <1>2, <1>4, <1>5, <2>1, <2>3, <3>1
  <2> QED
    BY <2>2, <2>3
<1>7. ASSUME NEW i \in 1..(n - 1)
      PROVE  ids'[i] \in DOMAIN positions' /\ positions'[ids'[i]] = i
  <2>1. CASE i = hole
    <3>1. ids'[i] = ids[n] /\ ids[n] # d /\ ids[n] \in DOMAIN positions
      BY <1>1, <1>2, <1>5, <2>1
    <3> QED
      BY <1>4, <2>1, <3>1
  <2>2. CASE i # hole
    <3>1. ids'[i] = ids[i] /\ ids[i] # d /\ ids[i] # ids[n] /\ ids[i] \in DOMAIN positions
      BY <1>1, <1>2, <1>5, <2>2
    <3> QED
      BY <1>1, <1>4, <1>5, <3>1
  <2> QED
    BY <2>1, <2>2
<1>8. TypeOK'
  <2>1. positions' \in [DOMAIN positions' -> 1..(n - 1)]
    BY <1>4, <1>6
  <2> QED
    BY <1>1, <1>2, <1>3, <1>4, <2>1 DEF IndexInv, TypeOK, Count, Capacity
<1>9. RowsMatchPositions'
  BY <1>2, <1>6, <1>7 DEF RowsMatchPositions, Count
<1> QED
  BY <1>8, <1>9 DEF IndexInv

\* The index invariant holds in every reachable state.
LEMMA IndexInvariant == Spec => []IndexInv
<1>1. Init => IndexInv
  BY EmptyIndex DEF Init
<1>2. IndexInv /\ [Next]_vars => IndexInv'
  <2> SUFFICES ASSUME IndexInv, [Next]_vars
               PROVE  IndexInv'
    OBVIOUS
  <2>1. CASE \E d \in Docs, v \in Vectors : Replace(d, v) \/ Insert(d, v)
    BY <2>1, ReplaceKeepsInv, InsertKeepsInv
  <2>2. CASE \E d \in Docs : Remove(d)
    BY <2>2, RemoveKeepsInv
  <2>3. CASE Clear
    <3>1. matrix' \in Seq(Row) /\ Len(matrix') = InitialCapacity
      BY <2>3, VectorAssumption DEF Clear, Zeros, Row
    <3> QED
      BY <2>3, <3>1, VectorAssumption
      DEF Clear, IndexInv, TypeOK, RowsMatchPositions, Count, Capacity
  <2>4. CASE UNCHANGED vars
    BY <2>4 DEF vars, IndexInv, TypeOK, RowsMatchPositions, Count, Capacity
  <2> QED
    BY <2>1, <2>2, <2>3, <2>4 DEF Next
<1> QED
  BY <1>1, <1>2, PTL DEF Spec

-----------------------------------------------------------------------------
\* Rows and positions are inverse to each other at all times: what validate()
\* checks of ExactVectorIndex always holds.
THEOREM IndexIsValid == Spec => []RowsMatchPositions
<1>1. IndexInv => RowsMatchPositions
  BY DEF IndexInv
<1> QED
  BY <1>1, IndexInvariant, PTL

\* ExactVectorIndex is a map from documents to vectors: add() changes the
\* vector of its document only, and so does remove(), however rows are moved.
THEOREM IndexImplementsMap == Spec => ImplementsMap
<1> DEFINE V == [d \in Docs |-> VectorFor(d)]
<1>1. Init => Map!MInit
  BY DEF Init, Map!MInit, VectorFor
<1>2. IndexInv /\ [Next]_vars => [Map!MNext]_V
  <2> SUFFICES ASSUME IndexInv, [Next]_vars
               PROVE  Map!MNext \/ V' = V
    BY DEF V
  <2> USE DEF V
  <2>1. ASSUME NEW d \in Docs, NEW v \in Vectors, Replace(d, v)
        PROVE  Map!MAdd(d, v)
    <3>1. positions' = positions /\ positions[d] \in DOMAIN matrix
      BY <2>1 DEF Replace, IndexInv, TypeOK, Count, Capacity
    <3>2. matrix'[positions[d]] = v
      BY <2>1, <3>1 DEF Replace
    <3>3. ASSUME NEW e \in Docs, e # d
          PROVE  VectorFor(e)' = VectorFor(e)
      <4>1. e \in DOMAIN positions => positions[e] # positions[d]
        BY <2>1, <3>3 DEF Replace, IndexInv, RowsMatchPositions
      <4> QED
        BY <2>1, <3>1, <4>1 DEF Replace, VectorFor, IndexInv, TypeOK, Count, Capacity
    <3>4. VectorFor(d)' = v
      BY <2>1, <3>1, <3>2 DEF VectorFor, Replace
    <3> QED
      BY <3>3, <3>4 DEF Map!MAdd
  <2>2. ASSUME NEW d \in Docs, NEW v \in Vectors, Insert(d, v)
        PROVE  Map!MAdd(d, v)
    <3> DEFINE n == Len(ids)
    <3>1. n \in Nat /\ IndexInv'
      BY <2>2, InsertKeepsInv DEF IndexInv, TypeOK
    <3>2. /\ DOMAIN positions' = DOMAIN positions \cup {d}
          /\ positions'[d] = n + 1
          /\ \A e \in DOMAIN positions : e # d /\ positions'[e] = positions[e]
      BY <2>2 DEF Insert, Count
    <3>3. /\ GrowIfNeeded(n + 1) \in Seq(Row)
          /\ n + 1 <= Len(GrowIfNeeded(n + 1))
          /\ \A i \in 1..n : GrowIfNeeded(n + 1)[i] = matrix[i]
      BY <3>1, Growth DEF IndexInv, Count
    <3>4. matrix' = [GrowIfNeeded(n + 1) EXCEPT ![n + 1] = v]
      BY <2>2 DEF Insert, Count
    <3>5. matrix'[n + 1] = v /\ \A i \in 1..n : matrix'[i] = matrix[i]
      BY <3>1, <3>3, <3>4
    <3>6. \A e \in DOMAIN positions : positions[e] \in 1..n
      BY DEF IndexInv, RowsMatchPositions, Count
    <3>7. VectorFor(d)' = v
      BY <3>2, <3>5 DEF VectorFor
    <3>8. \A e \in Docs : e # d => VectorFor(e)' = VectorFor(e)
      BY <3>2, <3>5, <3>6 DEF VectorFor
    <3> QED
      BY <3>7, <3>8 DEF Map!MAdd
  <2>3. ASSUME NEW d \in Docs, Remove(d)
        PROVE  Map!MRemove(d)
    <3> DEFINE n == Len(ids)
               hole == positions[d]
    <3>1. /\ n \in Nat /\ hole \in 1..n /\ n \in 1..n
          /\ n <= Len(matrix) /\ matrix \in Seq(Row)
          /\ d \in DOMAIN positions /\ ids[hole] = d
      BY <2>3 DEF IndexInv, TypeOK, RowsMatchPositions, Remove, Count, Capacity
    <3>2. /\ DOMAIN positions' = DOMAIN positions \ {d}
          /\ \A e \in DOMAIN positions' :
                positions'[e] = IF e = ids[n] THEN hole ELSE positions[e]
          /\ matrix' = [matrix EXCEPT ![hole] = matrix[n]]
      BY <2>3 DEF Remove, Count
    <3>3. VectorFor(d)' = NoVector
      BY <3>2 DEF VectorFor
    <3>4. ASSUME NEW e \in Docs, e # d, e \in DOMAIN positions
          PROVE  matrix'[positions'[e]] = matrix[positions[e]]
      <4>1. positions[e] \in 1..n /\ ids[positions[e]] = e /\ positions[ids[n]] = n
        BY <3>1, <3>4 DEF IndexInv, RowsMatchPositions, Count
      <4>2. positions[e] # hole
        BY <3>1, <3>4, <4>1
      <4>3. CASE e = ids[n]
        BY <3>1, <3>2, <3>4, <4>1, <4>3
      <4>4. CASE e # ids[n]
        BY <3>1, <3>2, <3>4, <4>1, <4>2, <4>4
      <4> QED
        BY <4>3, <4>4
    <3>5. \A e \in Docs : e # d => VectorFor(e)' = VectorFor(e)
      BY <3>2, <3>4 DEF VectorFor
    <3> QED
      BY <3>3, <3>5 DEF Map!MRemove
  <2>4. ASSUME Clear
        PROVE  Map!MClear
    BY <2>4 DEF Clear, Map!MClear, VectorFor
  <2>5. ASSUME UNCHANGED vars
        PROVE  V' = V
    BY <2>5 DEF vars, VectorFor
  <2> QED
    BY <2>1, <2>2, <2>3, <2>4, <2>5 DEF Next, Map!MNext
<1> QED
  BY <1>1, <1>2, IndexInvariant, PTL DEF Spec, ImplementsMap, Map!MSpec

\* Rows, positions and capacity stay within their types; in particular the live
\* rows fit into the matrix, however often it has grown.
THEOREM IndexTypes == Spec => []TypeOK
<1>1. IndexInv => TypeOK
  BY DEF IndexInv
<1> QED
  BY <1>1, IndexInvariant, PTL

-----------------------------------------------------------------------------
(* validate() *)

\* The positions are those of the rows, of which there are finitely many.
LEMMA PositionsAreFinite ==
    ASSUME IndexInv
    PROVE  /\ IsFiniteSet(DOMAIN positions) /\ Cardinality(DOMAIN positions) = Count
           /\ Count \in Nat /\ DOMAIN ids = 1..Count
           /\ IsFiniteSet(1..Count)
  <1>1. Count \in Nat /\ DOMAIN ids = 1..Count
    BY DEF IndexInv, TypeOK, Count
  <1>2. IsFiniteSet(1..Count) /\ Cardinality(1..Count) = Count
    <2>1. 1 \in Int /\ Count \in Int
      BY <1>1
    <2>2. IsFiniteSet(1..Count) /\ Cardinality(1..Count) = IF 1 > Count THEN 0 ELSE Count - 1 + 1
      BY <2>1, FS_Interval
    <2> QED BY <1>1, <2>2
  <1> DEFINE f == [i \in 1..Count |-> ids[i]]
  <1>3. /\ f \in [1..Count -> DOMAIN positions]
        /\ \A d \in DOMAIN positions : \E i \in 1..Count : f[i] = d
        /\ \A i, j \in 1..Count : f[i] = f[j] => i = j
    BY DEF IndexInv, RowsMatchPositions
  <1> HIDE DEF f
  <1>4. f \in Surjection(1..Count, DOMAIN positions) /\ f \in Injection(1..Count, DOMAIN positions)
    BY <1>3 DEF Surjection, Injection, IsInjective
  <1> QED BY <1>1, <1>2, <1>4, FS_Surjection

\* validate compares numbers and looks from rows to positions only; that is as
\* good as looking both ways.
LEMMA ValidMeansInverse ==
    ASSUME NEW rows \in Seq(Docs), NEW at, IsFiniteSet(DOMAIN at)
    PROVE  Valid(rows, at) <=> /\ DOMAIN at = {rows[i] : i \in DOMAIN rows}
                               /\ \A d \in DOMAIN at : {i \in DOMAIN rows : rows[i] = d} = {at[d]}
  <1> DEFINE n == Len(rows)
             seen == {rows[i] : i \in DOMAIN rows}
             f == [i \in 1..n |-> rows[i]]
  <1>1. n \in Nat /\ DOMAIN rows = 1..n
    OBVIOUS
  <1>2. IsFiniteSet(1..n) /\ Cardinality(1..n) = n
    <2>1. 1 \in Int /\ n \in Int
      BY <1>1
    <2>2. IsFiniteSet(1..n) /\ Cardinality(1..n) = IF 1 > n THEN 0 ELSE n - 1 + 1
      BY <2>1, FS_Interval
    <2> QED BY <1>1, <2>2
  <1>3. ASSUME \A i, j \in 1..n : rows[i] = rows[j] => i = j
        PROVE  IsFiniteSet(seen) /\ Cardinality(seen) = n
    <2>1. /\ f \in [1..n -> seen] /\ \A d \in seen : \E i \in 1..n : f[i] = d
          /\ \A i, j \in 1..n : f[i] = f[j] => i = j
      BY <1>1, <1>3
    <2> HIDE DEF f, seen
    <2>2. f \in Surjection(1..n, seen) /\ f \in Injection(1..n, seen)
      BY <2>1 DEF Surjection, Injection, IsInjective
    <2> QED BY <1>2, <2>2, FS_Surjection
  <1>4. ASSUME Valid(rows, at)
        PROVE  /\ DOMAIN at = seen
               /\ \A d \in DOMAIN at : {i \in DOMAIN rows : rows[i] = d} = {at[d]}
    <2>1. /\ n = Cardinality(DOMAIN at)
          /\ \A i \in 1..n : rows[i] \in DOMAIN at /\ at[rows[i]] = i
      BY <1>1, <1>4 DEF Valid
    <2>2. \A i, j \in 1..n : rows[i] = rows[j] => i = j
      BY <2>1
    <2>3. seen \in SUBSET DOMAIN at
      BY <1>1, <2>1
    <2>4. Cardinality(seen) = n
      BY <1>3, <2>2
    <2>5. DOMAIN at = seen
      <3> HIDE DEF seen
      <3> QED BY <2>1, <2>3, <2>4, FS_Subset
    <2>6. \A d \in DOMAIN at : {i \in DOMAIN rows : rows[i] = d} = {at[d]}
      BY <1>1, <2>1, <2>5
    <2> QED BY <2>5, <2>6
  <1>5. ASSUME DOMAIN at = seen,
               \A d \in DOMAIN at : {i \in DOMAIN rows : rows[i] = d} = {at[d]}
        PROVE  Valid(rows, at)
    <2>1. \A i \in 1..n : rows[i] \in DOMAIN at /\ at[rows[i]] = i
      BY <1>1, <1>5
    <2>2. \A i, j \in 1..n : rows[i] = rows[j] => i = j
      BY <2>1
    <2>3. Cardinality(DOMAIN at) = n
      BY <1>3, <1>5, <2>2
    <2> QED BY <1>1, <2>1, <2>3 DEF Valid
  <1> QED BY <1>4, <1>5

\* validate() accepts the index after any operations, and with a wrong entry in
\* _ids, in _positions or in both accepts those alone in which the two are inverse
\* to each other.
THEOREM ValidateIsAlwaysComplete == Spec => []ValidateIsComplete
  <1>1. IndexInv => ValidateIsComplete
    <2> SUFFICES ASSUME IndexInv PROVE ValidateIsComplete
      OBVIOUS
    <2>1. /\ IsFiniteSet(DOMAIN positions) /\ Cardinality(DOMAIN positions) = Count
          /\ Count \in Nat /\ DOMAIN ids = 1..Count
      BY PositionsAreFinite
    <2>2. Valid(ids, positions)
      BY <2>1 DEF Valid, IndexInv, RowsMatchPositions, Count
    <2>3. ASSUME NEW rows \in RowsNearby PROVE rows \in Seq(Docs)
      <3>0. ids \in Seq(Docs) /\ Count = Len(ids)
        BY DEF IndexInv, TypeOK, Count
      <3>1. CASE rows = ids
        BY <3>0, <3>1
      <3>2. CASE \E i \in DOMAIN ids, d \in Docs : rows = [ids EXCEPT ![i] = d]
        BY <3>0, <3>2
      <3>3. CASE \E n \in {Count - 1} \cap Nat : rows = SubSeq(ids, 1, n)
        BY <3>0, <3>3
      <3>4. CASE \E d \in Docs : rows = Append(ids, d)
        BY <3>0, <3>4
      <3> QED BY <3>1, <3>2, <3>3, <3>4 DEF RowsNearby
    <2>4. ASSUME NEW at \in PositionsNearby PROVE IsFiniteSet(DOMAIN at)
      <3> DEFINE with(d, i) == [e \in DOMAIN positions \cup {d} |-> IF e = d THEN i ELSE positions[e]]
                 without(d) == [e \in DOMAIN positions \ {d} |-> positions[e]]
      <3>1. \/ at = positions
            \/ \E d \in Docs, i \in 1..(Count + 1) : at = with(d, i)
            \/ \E d \in DOMAIN positions : at = without(d)
        <4>1. PositionsNearby = {positions} \cup {with(d, i) : d \in Docs, i \in 1..(Count + 1)}
                                  \cup {without(d) : d \in DOMAIN positions}
          BY DEF PositionsNearby
        <4> HIDE DEF with, without
        <4> QED BY <4>1
      <3>2. CASE at = positions
        BY <2>1, <3>2
      <3>3. ASSUME NEW d \in Docs, NEW i \in 1..(Count + 1), at = with(d, i)
            PROVE  IsFiniteSet(DOMAIN at)
        <4>1. DOMAIN at = DOMAIN positions \cup {d}
          BY <3>3
        <4> QED BY <2>1, <4>1, FS_AddElement
      <3>4. ASSUME NEW d \in DOMAIN positions, at = without(d)
            PROVE  IsFiniteSet(DOMAIN at)
        <4>1. DOMAIN at = DOMAIN positions \ {d}
          BY <3>4
        <4> QED BY <2>1, <4>1, FS_RemoveElement
      <3> HIDE DEF with, without
      <3> QED BY <3>1, <3>2, <3>3, <3>4
    <2>5. ASSUME NEW rows \in RowsNearby, NEW at \in PositionsNearby
          PROVE  Valid(rows, at) <=> /\ DOMAIN at = {rows[i] : i \in DOMAIN rows}
                                     /\ \A d \in DOMAIN at :
                                           {i \in DOMAIN rows : rows[i] = d} = {at[d]}
      BY <2>3, <2>4, ValidMeansInverse
    <2> QED BY <2>2, <2>5 DEF ValidateIsComplete
  <1> QED BY <1>1, IndexInvariant, PTL


-----------------------------------------------------------------------------
(* search() *)

\* The hits of the rows for a query, and the order of the rows by their hits.
HitsFor(query) == [i \in 1..Count |-> <<ids[i], Similarity(matrix[i], query)>>]
RowOrder(hits) == {p \in (1..Count) \X (1..Count) : SortsBefore(hits, p[1], p[2])}

\* The rows are ordered strictly by their hits, as their documents are preferred.
LEMMA RowsAreOrdered ==
    ASSUME IndexInv, NEW query \in Queries
    PROVE  /\ StrictOrder(1..Count, RowOrder(HitsFor(query)))
           /\ {d \in Docs : VectorFor(d) # NoVector} = DOMAIN positions
           /\ \A i \in 1..Count : /\ HitsFor(query)[i][1] = ids[i]
                                  /\ HitsFor(query)[i][2] = Similarity(VectorFor(ids[i]), query)
           /\ \A i, j \in 1..Count : <<i, j>> \in RowOrder(HitsFor(query))
                                        <=> Preferred(ids[i], ids[j], query)
           /\ \A i, j \in 1..Count : <<i, j>> \in RowOrder(HitsFor(query))
                                        <=> SortsBefore(HitsFor(query), i, j)
  <1> DEFINE hits == HitsFor(query)
             R == RowOrder(hits)
  <1>1. /\ Count \in Nat /\ \A i \in 1..Count : ids[i] \in Int
        /\ \A i \in 1..Count : matrix[i] \in Row /\ matrix[i] \in Int
        /\ query \in Int
    <2>1. Count \in Nat /\ ids \in Seq(Docs) /\ Count = Len(ids)
      BY DEF IndexInv, TypeOK, Count
    <2>2. matrix \in Seq(Row) /\ Count <= Len(matrix)
      BY DEF IndexInv, TypeOK, Capacity
    <2>3. \A i \in 1..Count : matrix[i] \in Row
      BY <2>1, <2>2
    <2> QED BY <2>1, <2>3, SearchAssumption DEF Row
  <1>2. /\ \A i \in 1..Count : ids[i] \in DOMAIN positions /\ positions[ids[i]] = i
        /\ \A d \in DOMAIN positions : positions[d] \in 1..Count /\ ids[positions[d]] = d
    BY DEF IndexInv, RowsMatchPositions
  <1>3. \A i \in 1..Count : VectorFor(ids[i]) = matrix[i]
    BY <1>2 DEF VectorFor
  <1>4. {d \in Docs : VectorFor(d) # NoVector} = DOMAIN positions
    <2>1. \A d \in DOMAIN positions : d \in Docs /\ VectorFor(d) \in Row
      BY <1>1, <1>2 DEF VectorFor, IndexInv, TypeOK
    <2>2. NoVector \notin Row
      BY VectorAssumption DEF Row
    <2>3. \A d : d \notin DOMAIN positions => VectorFor(d) = NoVector
      BY DEF VectorFor
    <2> QED BY <2>1, <2>2, <2>3
  <1>5. \A i \in 1..Count : /\ hits[i][1] = ids[i]
                            /\ hits[i][2] = Similarity(VectorFor(ids[i]), query)
                            /\ hits[i][2] \in Int
    <2>1. \A i \in 1..Count : hits[i] = <<ids[i], Similarity(matrix[i], query)>>
      BY DEF HitsFor
    <2>2. \A i \in 1..Count : Similarity(matrix[i], query) \in Int
      BY <1>1 DEF Similarity
    <2> QED BY <1>3, <2>1, <2>2
  <1> HIDE DEF hits
  <1>6. \A i, j \in 1..Count : <<i, j>> \in R <=> SortsBefore(hits, i, j)
    BY DEF RowOrder
  <1>7. \A i, j \in 1..Count : SortsBefore(hits, i, j) <=> Preferred(ids[i], ids[j], query)
    BY <1>5 DEF SortsBefore, Preferred
  <1>8. StrictOrder(1..Count, R)
    <2>1. \A i \in 1..Count : ~SortsBefore(hits, i, i)
      BY <1>1, <1>5 DEF SortsBefore
    <2>2. \A i, j, k \in 1..Count :
             SortsBefore(hits, i, j) /\ SortsBefore(hits, j, k) => SortsBefore(hits, i, k)
      BY <1>1, <1>5 DEF SortsBefore
    <2>3. \A i, j \in 1..Count : i # j => SortsBefore(hits, i, j) \/ SortsBefore(hits, j, i)
      <3>1. \A i, j \in 1..Count : i # j => ids[i] # ids[j]
        BY <1>2
      <3> QED BY <1>1, <1>5, <3>1 DEF SortsBefore
    <2> HIDE DEF R
    <2> QED BY <1>6, <2>1, <2>2, <2>3 DEF StrictOrder
  <1> QED BY <1>4, <1>5, <1>6, <1>7, <1>8 DEF hits

\* The n-th result is the hit of the row at place n.
LEMMA SearchFacts ==
    ASSUME IndexInv, NEW query \in Queries, NEW limit \in Nat
    PROVE  \E row \in [1..Least(limit, Count) -> 1..Count] :
              /\ Search(query, limit) = [n \in 1..Least(limit, Count) |-> HitsFor(query)[row[n]]]
              /\ \A n \in 1..Least(limit, Count) :
                    Cardinality(Ahead(1..Count, RowOrder(HitsFor(query)), row[n])) = n - 1
  <1> DEFINE hits == HitsFor(query)
             R == RowOrder(hits)
             N == Least(limit, Count)
             At(i) == Cardinality(Ahead(1..Count, R, i))
             place(i) == 1 + Cardinality({j \in 1..Count : SortsBefore(hits, j, i)})
             row == [n \in 1..N |-> CHOOSE i \in 1..Count : place(i) = n]
  <1>1. IsFiniteSet(1..Count) /\ Cardinality(1..Count) = Count /\ Count \in Nat
    <2>1. Count \in Nat
      BY PositionsAreFinite
    <2>2. IsFiniteSet(1..Count) /\ Cardinality(1..Count) = IF 1 > Count THEN 0 ELSE Count - 1 + 1
      BY <2>1, FS_Interval
    <2> QED BY <2>1, <2>2
  <1>2. StrictOrder(1..Count, R) /\ \A i, j \in 1..Count : <<i, j>> \in R <=> SortsBefore(hits, i, j)
    BY RowsAreOrdered
  <1>3. Search(query, limit) = [n \in 1..N |-> hits[row[n]]]
    BY DEF Search, HitsFor
  <1>4. \A i \in 1..Count : place(i) = 1 + At(i)
    <2>1. \A i \in 1..Count : {j \in 1..Count : SortsBefore(hits, j, i)} = Ahead(1..Count, R, i)
      BY <1>2 DEF Ahead
    <2> QED BY <2>1
  <1>5. /\ \A i \in 1..Count : At(i) \in Nat
        /\ \A n \in Nat : n < Count => \E i \in 1..Count : At(i) = n
    <2> HIDE DEF R, hits
    <2> QED BY <1>1, <1>2, PlacesInOrder
  <1> HIDE DEF R, hits, At, place
  <1>6. ASSUME NEW n \in 1..N
        PROVE  row[n] \in 1..Count /\ At(row[n]) = n - 1
    <2>1. n \in Nat /\ n - 1 \in Nat /\ n - 1 < Count
      BY <1>1 DEF Least
    <2>2. PICK i \in 1..Count : At(i) = n - 1
      BY <1>5, <2>1
    <2>3. place(i) = n
      BY <1>4, <2>1, <2>2
    <2>4. row[n] \in 1..Count /\ place(row[n]) = n
      BY <2>3
    <2>5. place(row[n]) = 1 + At(row[n]) /\ At(row[n]) \in Nat
      BY <1>4, <1>5, <2>4
    <2> HIDE DEF row
    <2> QED BY <2>1, <2>4, <2>5
  <1>7. row \in [1..N -> 1..Count]
    BY <1>6
  <1> HIDE DEF row
  <1> QED BY <1>3, <1>6, <1>7 DEF hits, R, At


\* The documents of an answer, and all documents.
Found(answer) == {answer[i][1] : i \in DOMAIN answer}
Held == {d \in Docs : VectorFor(d) # NoVector}

\* What a search for the k best of a query finds: so many of the documents, in order
\* and with their own scores, and no other document is to be preferred to one of them.
LEMMA SearchAnswers ==
    ASSUME IndexInv, NEW q \in Queries, NEW k \in Nat
    PROVE  /\ Cardinality(Found(Search(q, k))) = Least(k, Cardinality(Held))
           /\ Found(Search(q, k)) \subseteq Held
           /\ \A i \in DOMAIN Search(q, k) :
                 Search(q, k)[i][2] = Similarity(VectorFor(Search(q, k)[i][1]), q)
           /\ \A i, j \in DOMAIN Search(q, k) :
                 i < j => Preferred(Search(q, k)[i][1], Search(q, k)[j][1], q)
           /\ \A d \in Found(Search(q, k)), e \in Held \ Found(Search(q, k)) : Preferred(d, e, q)
  <1> DEFINE answer == Search(q, k)
             found == Found(answer)
             hits == HitsFor(q)
             R == RowOrder(hits)
             N == Least(k, Count)
             At(i) == Cardinality(Ahead(1..Count, R, i))
  <1>1. /\ IsFiniteSet(1..Count) /\ Cardinality(1..Count) = Count /\ Count \in Nat
        /\ Cardinality(DOMAIN positions) = Count
    <2>1. Count \in Nat /\ Cardinality(DOMAIN positions) = Count
      BY PositionsAreFinite
    <2>2. IsFiniteSet(1..Count) /\ Cardinality(1..Count) = IF 1 > Count THEN 0 ELSE Count - 1 + 1
      BY <2>1, FS_Interval
    <2> QED BY <2>1, <2>2
  <1>2. /\ StrictOrder(1..Count, R) /\ Held = DOMAIN positions
        /\ \A i \in 1..Count : /\ hits[i][1] = ids[i]
                               /\ hits[i][2] = Similarity(VectorFor(ids[i]), q)
        /\ \A i, j \in 1..Count : <<i, j>> \in R <=> Preferred(ids[i], ids[j], q)
    BY RowsAreOrdered DEF Held
  <1>3. PICK row \in [1..N -> 1..Count] :
           /\ answer = [n \in 1..N |-> hits[row[n]]]
           /\ \A n \in 1..N : At(row[n]) = n - 1
    BY SearchFacts
  <1>4. /\ \A i \in 1..Count : At(i) \in Nat
        /\ \A i, j \in 1..Count : <<i, j>> \in R => At(i) < At(j)
        /\ \A i, j \in 1..Count : At(i) = At(j) => i = j
    <2> HIDE DEF R
    <2> QED BY <1>1, <1>2, PlacesInOrder, ZenonT(40)
  <1>5. /\ \A i \in 1..Count : ids[i] \in DOMAIN positions /\ positions[ids[i]] = i
        /\ \A d \in DOMAIN positions : positions[d] \in 1..Count /\ ids[positions[d]] = d
    BY DEF IndexInv, RowsMatchPositions
  <1>6. N \in Nat /\ N <= Count /\ N <= k /\ (N < Count => N = k)
    BY <1>1 DEF Least
  <1> HIDE DEF answer, hits, R, N, At
  <1>7. DOMAIN answer = 1..N
    BY <1>3
  <1>8. \A n \in 1..N : /\ answer[n][1] = ids[row[n]]
                        /\ answer[n][2] = Similarity(VectorFor(ids[row[n]]), q)
    BY <1>2, <1>3
  \* Of two rows in different places the first is to be preferred.
  <1>9. ASSUME NEW i \in 1..Count, NEW j \in 1..Count, At(i) < At(j)
        PROVE  Preferred(ids[i], ids[j], q)
    <2>1. i # j /\ ~(<<j, i>> \in R)
      BY <1>4, <1>9
    <2>2. <<i, j>> \in R
      BY <1>2, <2>1 DEF StrictOrder
    <2> QED BY <1>2, <2>2
  <1>10. ASSUME NEW i \in 1..N, NEW j \in 1..N, i < j
         PROVE  Preferred(answer[i][1], answer[j][1], q)
    <2>1. At(row[i]) < At(row[j])
      BY <1>3, <1>6, <1>10
    <2>2. row[i] \in 1..Count /\ row[j] \in 1..Count
      BY <1>3
    <2> QED BY <1>8, <1>9, <2>1, <2>2
  <1>11. found = {ids[row[n]] : n \in 1..N}
    BY <1>7, <1>8 DEF Found
  <1> HIDE DEF found
  <1>12. found \subseteq Held
    BY <1>2, <1>3, <1>5, <1>11
  <1>13. Cardinality(found) = N
    <2> DEFINE f == [n \in 1..N |-> ids[row[n]]]
    <2>1. f \in [1..N -> found] /\ \A d \in found : \E n \in 1..N : f[n] = d
      BY <1>11
    <2>2. ASSUME NEW m \in 1..N, NEW n \in 1..N, ids[row[m]] = ids[row[n]]
          PROVE  m = n
      <3>1. row[m] = row[n]
        BY <1>3, <1>5, <2>2
      <3>2. m - 1 = n - 1
        BY <1>3, <3>1
      <3> QED BY <1>6, <3>2
    <2>3. \A m, n \in 1..N : f[m] = f[n] => m = n
      BY <2>2
    <2> HIDE DEF f
    <2>4. f \in Surjection(1..N, found) /\ f \in Injection(1..N, found)
      BY <2>1, <2>3 DEF Surjection, Injection, IsInjective
    <2>5. IsFiniteSet(1..N) /\ Cardinality(1..N) = N
      <3>1. IsFiniteSet(1..N) /\ Cardinality(1..N) = IF 1 > N THEN 0 ELSE N - 1 + 1
        BY <1>6, FS_Interval
      <3> QED BY <1>6, <3>1
    <2> QED BY <2>4, <2>5, FS_Surjection
  \* A document that is not found is in a place behind all that are.
  <1>14. ASSUME NEW d \in found, NEW e \in Held \ found
         PROVE  Preferred(d, e, q)
    <2>1. PICK n \in 1..N : d = ids[row[n]]
      BY <1>11
    <2>2. PICK j \in 1..Count : e = ids[j]
      BY <1>2, <1>5
    <2>3. At(j) \in Nat
      BY <1>4
    <2>4. ~(At(j) < N)
      <3> SUFFICES ASSUME At(j) < N PROVE FALSE
        OBVIOUS
      <3>1. At(j) + 1 \in 1..N /\ (At(j) + 1) - 1 = At(j)
        BY <1>6, <2>3
      <3>2. row[At(j) + 1] \in 1..Count /\ At(row[At(j) + 1]) = At(j)
        BY <1>3, <3>1
      <3>3. row[At(j) + 1] = j
        BY <1>4, <3>2
      <3> QED BY <1>11, <2>2, <3>1, <3>3
    <2>5. row[n] \in 1..Count /\ At(row[n]) = n - 1
      BY <1>3
    <2>6. At(row[n]) < At(j)
      BY <1>6, <2>3, <2>4, <2>5
    <2> QED BY <1>9, <2>1, <2>2, <2>5, <2>6
  <1>15. N = Least(k, Cardinality(Held))
    BY <1>1, <1>2 DEF N
  <1>16. \A i \in DOMAIN answer : answer[i][2] = Similarity(VectorFor(answer[i][1]), q)
    BY <1>7, <1>8
  <1>17. \A i, j \in DOMAIN answer : i < j => Preferred(answer[i][1], answer[j][1], q)
    BY <1>7, <1>10
  <1> QED BY <1>12, <1>13, <1>14, <1>15, <1>16, <1>17 DEF answer, found

\* search() is exact after any operations: it finds the best documents, in order
\* and with their own scores, wherever swaps and growth have put their rows.
THEOREM SearchIsAlwaysExact == Spec => []SearchIsExact
  <1>1. IndexInv => SearchIsExact
    <2> SUFFICES ASSUME IndexInv PROVE SearchIsExact
      OBVIOUS
    <2>1. ASSUME NEW q \in Queries, NEW k \in 1..MaxLimit
          PROVE  /\ Cardinality(Found(Search(q, k))) = Least(k, Cardinality(Held))
                 /\ Found(Search(q, k)) \subseteq Held
                 /\ \A i \in DOMAIN Search(q, k) :
                       Search(q, k)[i][2] = Similarity(VectorFor(Search(q, k)[i][1]), q)
                 /\ \A i, j \in DOMAIN Search(q, k) :
                       i < j => Preferred(Search(q, k)[i][1], Search(q, k)[j][1], q)
                 /\ \A d \in Found(Search(q, k)), e \in Held \ Found(Search(q, k)) :
                       Preferred(d, e, q)
      BY SearchAssumption, SearchAnswers
    <2> QED BY <2>1 DEF SearchIsExact, Found, Held
  <1> QED BY <1>1, IndexInvariant, PTL

=============================================================================

----------------------------- MODULE VectorIndex -----------------------------
(***************************************************************************)
(* ExactVectorIndex: one row of a matrix per document, the live rows first *)
(* and without holes.  Rows are numbered from 1 here, from 0 in the code.  *)
(*                                                                         *)
(* An embedding is an opaque value: a vector of the wrong width or with a  *)
(* non-finite component is refused by _validate before anything changes,   *)
(* and such a call is not a step.                                          *)
(***************************************************************************)
EXTENDS Integers, Sequences

CONSTANTS
    Docs,               \* document ids
    Vectors,            \* embeddings
    Zero,               \* a row nothing was written to
    NoVector,           \* the absence of an embedding
    InitialCapacity     \* _INITIAL_CAPACITY

ASSUME VectorAssumption ==
    /\ InitialCapacity \in Nat
    /\ NoVector \notin Vectors \cup {Zero}

VARIABLES
    ids,        \* _ids: row -> document id, for the live rows
    positions,  \* _positions: document id -> row
    matrix      \* _matrix: capacity rows

vars == <<ids, positions, matrix>>

Count == Len(ids)
Capacity == Len(matrix)
Row == Vectors \cup {Zero}
Zeros(n) == [i \in 1..n |-> Zero]

\* The types of the variables; the live rows fit into the matrix.
TypeOK ==
    /\ ids \in Seq(Docs)
    /\ matrix \in Seq(Row)
    /\ DOMAIN positions \in SUBSET Docs
    /\ positions \in [DOMAIN positions -> 1..Count]
    /\ Count <= Capacity

Init ==
    /\ ids = << >>
    /\ positions = [d \in {} |-> 0]
    /\ matrix = Zeros(InitialCapacity)

-----------------------------------------------------------------------------
\* A matrix that grows one row too late.
GrownTooLate(required) ==
    IF required <= Capacity + 1 THEN matrix
    ELSE [i \in 1..(2 * Capacity) |-> IF i <= Capacity THEN matrix[i] ELSE Zero]

\* _grow_if_needed: the matrix doubles when it runs out of rows.
GrowIfNeeded(required) ==
    LET capacity == IF required > 2 * Capacity THEN required ELSE 2 * Capacity
    IN  IF required <= Capacity THEN matrix
        ELSE [i \in 1..capacity |-> IF i <= Capacity THEN matrix[i] ELSE Zero]

\* add: a document that has a row keeps it, ...
Replace(d, v) ==
    /\ d \in DOMAIN positions
    /\ matrix' = [matrix EXCEPT ![positions[d]] = v]
    /\ UNCHANGED <<ids, positions>>

\* ... and a new one gets the first free row.
Insert(d, v) ==
    LET row == Count + 1 IN
    /\ d \notin DOMAIN positions
    /\ matrix' = [GrowIfNeeded(row) EXCEPT ![row] = v]
    /\ ids' = Append(ids, d)
    /\ positions' = [e \in DOMAIN positions \cup {d} |->
                        IF e = d THEN row ELSE positions[e]]

\* A removal that moves the last row and forgets where it has moved to.
RemoveForgetsMove(d) ==
    LET hole == positions[d]
        last == Count
    IN  /\ d \in DOMAIN positions
        /\ matrix' = [matrix EXCEPT ![hole] = matrix[last]]
        /\ ids' = [i \in 1..(last - 1) |-> IF i = hole THEN ids[last] ELSE ids[i]]
        /\ positions' = [e \in DOMAIN positions \ {d} |-> positions[e]]

\* A removal that leaves the hole's vector where it is.
RemoveKeepsVector(d) ==
    LET hole == positions[d]
        last == Count
    IN  /\ d \in DOMAIN positions
        /\ ids' = [i \in 1..(last - 1) |-> IF i = hole THEN ids[last] ELSE ids[i]]
        /\ positions' = [e \in DOMAIN positions \ {d} |->
                            IF positions[e] = last THEN hole ELSE positions[e]]
        /\ UNCHANGED matrix

\* remove: the last live row moves into the hole; the row it leaves is not
\* cleared.  A document without a vector is left alone.
Remove(d) ==
    LET hole == positions[d]
        last == Count
    IN  /\ d \in DOMAIN positions
        /\ matrix' = [matrix EXCEPT ![hole] = matrix[last]]
        /\ ids' = [i \in 1..(last - 1) |-> IF i = hole THEN ids[last] ELSE ids[i]]
        /\ positions' = [e \in DOMAIN positions \ {d} |->
                            IF e = ids[last] THEN hole ELSE positions[e]]

\* clear: no document has a vector; the matrix is as it was at first.
Clear ==
    /\ ids' = << >>
    /\ positions' = [d \in {} |-> 0]
    /\ matrix' = Zeros(InitialCapacity)

Next ==
    \/ \E d \in Docs, v \in Vectors : Replace(d, v) \/ Insert(d, v)
    \/ \E d \in Docs : Remove(d)
    \/ Clear

Spec == Init /\ [][Next]_vars

-----------------------------------------------------------------------------
(* Properties *)

\* Rows and positions are inverse to each other, so that no document has two
\* rows and no row is nobody's.
RowsMatchPositions ==
    /\ \A i \in 1..Count : ids[i] \in DOMAIN positions /\ positions[ids[i]] = i
    /\ \A d \in DOMAIN positions : positions[d] \in 1..Count /\ ids[positions[d]] = d

\* contains and vector_for: what the index holds for a document.
VectorFor(d) == IF d \in DOMAIN positions THEN matrix[positions[d]] ELSE NoVector

Map == INSTANCE VectorMap WITH vector <- [d \in Docs |-> VectorFor(d)]

\* The index is a map: through replacements, swaps of rows and growth, every
\* document keeps exactly the vector it was last given.
ImplementsMap == Map!MSpec

=============================================================================

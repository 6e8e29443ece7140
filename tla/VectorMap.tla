------------------------------ MODULE VectorMap ------------------------------
(***************************************************************************)
(* What ExactVectorIndex promises: a map from document ids to vectors.     *)
(* Rows, positions and the capacity of the matrix are nobody's business.   *)
(***************************************************************************)
CONSTANTS
    Docs,       \* document ids
    Vectors,    \* embeddings
    NoVector    \* the absence of one

VARIABLE vector     \* vector[d]: what document d is found by

MInit == vector = [d \in Docs |-> NoVector]

MAdd(d, v) == vector' = [vector EXCEPT ![d] = v]
MRemove(d) == vector' = [vector EXCEPT ![d] = NoVector]
MClear == vector' = [d \in Docs |-> NoVector]

MNext ==
    \/ \E d \in Docs, v \in Vectors : MAdd(d, v)
    \/ \E d \in Docs : MRemove(d)
    \/ MClear

MSpec == MInit /\ [][MNext]_vector

=============================================================================

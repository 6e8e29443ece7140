---------------------------- MODULE MCVectorIndex ----------------------------
(* Four documents and three embeddings, the zero vector among them; the     *)
(* matrix grows twice.                                                      *)
EXTENDS VectorSearch

MCDocs == 1..4
MCVectors == {0 - 1, 0, 1}
MCQueries == {0 - 1, 1}

=============================================================================

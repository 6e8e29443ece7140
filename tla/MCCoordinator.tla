---------------------------- MODULE MCCoordinator ----------------------------
(***************************************************************************)
(* Coordinator for TLC, with two statements of the documentation that the  *)
(* code does not keep.                                                     *)
(***************************************************************************)
EXTENDS Coordinator

\* Two shards with a document each, or one shard with them all.
MCShards == 1..2
MCDocs == 1..2
MCRoute == [d \in MCDocs |-> d]
OneShard == {1}
OneRoute == [d \in MCDocs |-> 1]

AllKinds == {"search", "semantic", "hybrid", "stats"}

\* docs/consistency.md, "Two-round BM25 consistency": no write routed through
\* the coordinator lands between the two rounds of a search.  (A write that
\* timed out has released the lock and may still land.)
NoWriteBetweenRounds ==
    [][(\E s \in Shards : leg["lexical"][s].pc \in {"pinned", "score"})
          => UNCHANGED log]_vars

\* docs/consistency.md, "The hybrid snapshot window": the lexical and the
\* semantic ranking of a hybrid answer describe the same corpus state.  (Each
\* path chooses its copy of a shard, and copies may differ.)
HybridDescribesOneCorpus ==
    [][Answered /\ op.kind = "hybrid" =>
          \A s \in Shards \ outside :
              leg["lexical"][s].first = leg["plain"][s].first]_vars

=============================================================================

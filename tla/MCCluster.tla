------------------------------ MODULE MCCluster ------------------------------
(***************************************************************************)
(* Cluster for TLC, and the settings a coordinator may be given by hand.   *)
(***************************************************************************)
EXTENDS Cluster

\* A port away from those of the nodes, and the port of the first primary.
MCCoordinatorPorts == {-1, 0}

\* Lists of up to two entries, groups of up to two replicas.
MCEntries == {1, 2, 3, Blank}
MCLists == UNION {[1..n -> MCEntries] : n \in 1..2}
MCHandWritten == [shard_count : 0..2,
               shard_urls : MCLists,
               replica_urls : UNION {[1..n -> MCLists] : n \in 1..2}]

=============================================================================

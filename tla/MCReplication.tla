---------------------------- MODULE MCReplication ----------------------------
(***************************************************************************)
(* Replication for TLC, with a statement of the documentation that the     *)
(* code does not keep.                                                     *)
(***************************************************************************)
EXTENDS Replication

\* docs/consistency.md, "The ambiguous failure window": a replica that is
\* behind knows it and does not serve stale data.  Between writes, then, a
\* serving replica has what its serving primary has.  (Nothing tells a replica
\* of a mutation that did not reach it.)
LaggingReplicaDoesNotServe ==
    writer.pc = "idle" /\ state[Primary] = "ready" =>
        \A r \in Replicas : state[r] = "ready" => mem[r].gen = mem[Primary].gen

=============================================================================

------------------------- MODULE ReplicationRecovery -------------------------
(***************************************************************************)
(* Does a shard heal?  Replication with an environment that misbehaves for *)
(* as long as it likes and then is calm: from some point on no process     *)
(* stops by itself, no request is lost, and no transaction, rebuild or     *)
(* model call fails, while the operator restarts what is down or degraded  *)
(* and asks a replica that does not serve to resynchronise.                *)
(*                                                                         *)
(* Writes go on when it is calm.  One that commits between a replica's     *)
(* export and its installation puts that replica out of sync again, so     *)
(* the shard heals because writes are finitely many (MaxGeneration): each  *)
(* disruption costs one.                                                   *)
(***************************************************************************)
EXTENDS Replication

VARIABLE calm   \* the faults are over

rvars == <<vars, calm>>

RInit == Init /\ calm = FALSE

\* The writer that holds the Replicator's lock goes on: a timeout bounds every
\* request, so one of these is always possible.
WriterStep == Send \/ Accepted \/ ReplicationFails \/ Acknowledge

\* A request that is still under way is handled without a failure.
Handled(m) ==
    \/ ApplyDuplicate(m) \/ ApplyGap(m) \/ ApplyNext(m)
    \/ ApplyRefused(m) /\ state[m.to] # "ready"

\* The operator starts the primary, and restarts it when it is degraded: a
\* degraded primary has no other way back.
OperatePrimary ==
    \/ StartPrimary
    \/ state[Primary] = "degraded" /\ StopPrimary

\* The operator asks a replica that does not serve to resynchronise.
RequestResync(r) ==
    /\ state[r] # "ready"
    /\ \A t \in Tasks : pc[r][t] = "idle"
    /\ \E t \in ResyncThreads : BeginResync(r, t)

\* A replica's synchronizer goes on; it fails only for want of a primary.
SyncStep(r) ==
    \/ ReadPrimaryGeneration(r) \/ Decide(r)
    \/ state[Primary] = "starting" /\ PrimaryUnreachable(r)
    \/ \E t \in Tasks :
          \/ Export(r, t) \/ Install(r, t) \/ GiveUp(r, t)
          \/ state[Primary] # "ready" /\ ExportFails(r, t)

CalmStep ==
    \/ \E mutation \in Mutations : Commit(mutation)
    \/ WriterStep
    \/ \E m \in requests : Handled(m)
    \/ OperatePrimary
    \/ \E r \in Replicas : StartReplica(r) \/ RequestResync(r) \/ SyncStep(r)

RNext ==
    \/ ~calm /\ Next /\ UNCHANGED calm
    \/ ~calm /\ calm' = TRUE /\ UNCHANGED vars
    \/ calm /\ CalmStep /\ UNCHANGED calm

\* The threads of a running process are scheduled, timeouts expire, and once
\* the faults are over the operator does not wait forever.
Fairness ==
    /\ WF_rvars(WriterStep /\ UNCHANGED calm)
    /\ WF_rvars(calm /\ OperatePrimary /\ UNCHANGED calm)
    /\ \A r \in Replicas :
          /\ WF_rvars(calm /\ StartReplica(r) /\ UNCHANGED calm)
          /\ WF_rvars(calm /\ RequestResync(r) /\ UNCHANGED calm)
          /\ WF_rvars(calm /\ SyncStep(r) /\ UNCHANGED calm)

RSpec == RInit /\ [][RNext]_rvars /\ Fairness

-----------------------------------------------------------------------------
\* No write holds the Replicator's lock forever, even if the replica it waits
\* for never answers or stops: every later write would wait behind it.
LockIsReleased == writer.pc # "idle" ~> writer.pc = "idle"

\* Whatever state the faults left behind (a degraded primary, a replica with a
\* half-finished resynchronisation, late mutations still to arrive), once they
\* are over every copy comes back into service and stays there.
RecoveryConverges == calm ~> [](\A c \in Copies : state[c] = "ready")

=============================================================================

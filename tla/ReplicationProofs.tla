-------------------------- MODULE ReplicationProofs --------------------------
(***************************************************************************)
(* Theorems about Replication, for any number of replicas, documents,      *)
(* texts and mutations.                                                    *)
(***************************************************************************)
EXTENDS ReplicationRecovery, TLAPS

\* The mutation at the head of the write path is addressed to a replica
\* whenever an answer is awaited or has come.
WriterTarget ==
    writer.pc \in {"wait", "accepted", "refused"} => writer.target \in Replicas

TypeInv == TypeOK /\ WriterTarget

\* The constants the variables are made of have their types.
LEMMA ConstantTypes ==
    /\ EmptyCorpus \in Corpora
    /\ EmptySnapshot \in Snapshots
    /\ NoMutation \in Mutations
    /\ Primary \in Copies
    /\ \A r \in Replicas : r \in Copies /\ r # Primary
    /\ Boot \in Tasks
    /\ \A t \in ResyncThreads : t \in Tasks /\ t # Boot
    /\ Generations \subseteq Nat
BY ConstantAssumption DEF EmptyCorpus, EmptySnapshot, NoMutation, Corpora,
   Snapshots, Mutations, Primary, Copies, Replicas, Boot, Tasks, Generations

\* A mutation leads from a corpus to a corpus.
LEMMA ApplyType ==
    ASSUME NEW corpus \in Corpora, NEW op \in Mutations
    PROVE  Apply(corpus, op) \in Corpora
BY DEF Apply, Corpora, Mutations

\* The types hold initially.
LEMMA TypeInit == Init => TypeInv
BY ConstantAssumption, ConstantTypes
   DEF Init, TypeInv, TypeOK, WriterTarget, IdleWriter, WriterStates, NodeStates,
       TaskStates, Generations

\* Every step preserves the types.
LEMMA TypeNext == TypeInv /\ [Next]_vars => TypeInv'
<1> SUFFICES ASSUME TypeInv, [Next]_vars PROVE TypeInv'
  OBVIOUS
<1> USE ConstantAssumption, ConstantTypes
<1>1. ASSUME NEW op \in Mutations, Commit(op) PROVE TypeInv'
  <2> USE <1>1
  <2>1. Apply(store[Primary].docs, op) \in Corpora
    BY ApplyType DEF TypeInv, TypeOK, Snapshots
  <2>2. Apply(mem[Primary].docs, op) \in Corpora
    BY ApplyType DEF TypeInv, TypeOK, Snapshots
  <2>3. mem[Primary].gen + 1 \in Generations
    BY DEF Commit, CanMutate, TypeInv, TypeOK, Snapshots, Generations
  <2> QED
    BY <2>1, <2>2, <2>3 DEF Commit, CommitOnPrimary, CanMutate, TypeInv, TypeOK, WriterTarget,
      Snapshots, WriterStates
<1>2. ASSUME NEW op \in Mutations, CommitDegrades(op) PROVE TypeInv'
  <2> USE <1>2
  <2>1. Apply(store[Primary].docs, op) \in Corpora
    BY ApplyType DEF TypeInv, TypeOK, Snapshots
  <2>2. Apply(mem[Primary].docs, op) \in Corpora
    BY ApplyType DEF TypeInv, TypeOK, Snapshots
  <2>3. mem[Primary].gen + 1 \in Generations
    BY DEF CommitDegrades, CanMutate, TypeInv, TypeOK, Snapshots, Generations
  <2> QED
    BY <2>1, <2>2, <2>3 DEF CommitDegrades, CommitOnPrimary, CanMutate, DegradeOnFailure,
      TypeInv, TypeOK, WriterTarget, Snapshots, NodeStates
<1>3. CASE Send
  BY <1>3 DEF Send, TypeInv, TypeOK, WriterTarget, Requests, WriterStates
<1>4. CASE Accepted
  <2>1. writer.target + 1 \in 0..(NumReplicas + 1)
    BY <1>4 DEF Accepted, TypeInv, WriterTarget, Replicas
  <2> QED
    BY <1>4, <2>1 DEF Accepted, TypeInv, TypeOK, WriterTarget, WriterStates
<1>5. CASE ReplicationFails
  BY <1>5 DEF ReplicationFails, TypeInv, TypeOK, WriterTarget, IdleWriter, WriterStates, Generations
<1>6. CASE Acknowledge
  <2>1. acked' \subseteq Generations
    BY <1>6 DEF Acknowledge, TypeInv, TypeOK
  <2> QED
    BY <1>6, <2>1 DEF Acknowledge, TypeInv, TypeOK, WriterTarget, IdleWriter, WriterStates, Generations
<1>7. ASSUME NEW m \in requests, Receive(m) PROVE TypeInv'
  <2> USE <1>7
  <2>1. m \in Requests /\ m.to \in Replicas /\ m.to \in Copies /\ m.gen \in Generations /\ m.op \in Mutations
    BY DEF TypeInv, TypeOK, Requests
  <2>2. \A reply \in {"accepted", "refused"} : Answer(m, reply) =>
           /\ requests' \subseteq Requests
           /\ writer' \in [pc : WriterStates, target : 0..(NumReplicas + 1), op : Mutations, gen : Generations]
           /\ WriterTarget'
    BY DEF Answer, TypeInv, TypeOK, WriterTarget, WriterStates
  <2>3. Apply(store[m.to].docs, m.op) \in Corpora /\ Apply(mem[m.to].docs, m.op) \in Corpora
    BY <2>1, ApplyType DEF TypeInv, TypeOK, Snapshots
  <2>4. CASE ApplyDuplicate(m)
    BY <2>2, <2>4 DEF ApplyDuplicate, TypeInv, TypeOK
  <2>5. CASE ApplyGap(m)
    BY <2>1, <2>2, <2>5 DEF ApplyGap, TypeInv, TypeOK, NodeStates
  <2>6. CASE ApplyRefused(m)
    BY <2>2, <2>6 DEF ApplyRefused, TypeInv, TypeOK
  <2>7. CASE ApplyNext(m)
    BY <2>1, <2>2, <2>3, <2>7 DEF ApplyNext, TypeInv, TypeOK, Snapshots
  <2>8. CASE ApplyDegrades(m)
    BY <2>1, <2>2, <2>3, <2>8 DEF ApplyDegrades, DegradeOnFailure, TypeInv, TypeOK, Snapshots, NodeStates
  <2> QED
    BY <2>4, <2>5, <2>6, <2>7, <2>8 DEF Receive
<1>8. CASE StopPrimary
  BY <1>8 DEF StopPrimary, Stop, TypeInv, TypeOK, WriterTarget, IdleWriter, WriterStates, NodeStates, Generations
<1>9. CASE StartPrimary
  BY <1>9 DEF StartPrimary, Rebuilt, TypeInv, TypeOK, WriterTarget, NodeStates
<1>10. ASSUME NEW r \in Replicas, StopReplica(r) PROVE TypeInv'
  BY <1>10 DEF StopReplica, Stop, TypeInv, TypeOK, WriterTarget, NodeStates, TaskStates
<1>11. ASSUME NEW r \in Replicas, StartReplica(r) PROVE TypeInv'
  BY <1>11 DEF StartReplica, Rebuilt, TypeInv, TypeOK, WriterTarget, NodeStates, TaskStates, Snapshots
<1>12. ASSUME NEW r \in Replicas, Verify(r) PROVE TypeInv'
  <2> USE <1>12
  <2>1. CASE ReadPrimaryGeneration(r)
    BY <2>1 DEF ReadPrimaryGeneration, TypeInv, TypeOK, WriterTarget, TaskStates, Snapshots
  <2>2. CASE PrimaryUnreachable(r)
    BY <2>2 DEF PrimaryUnreachable, TypeInv, TypeOK, WriterTarget, TaskStates
  <2>3. CASE Decide(r)
    BY <2>3 DEF Decide, TypeInv, TypeOK, WriterTarget, TaskStates, NodeStates
  <2> QED
    BY <2>1, <2>2, <2>3 DEF Verify
<1>13. ASSUME NEW r \in Replicas, NEW t \in ResyncThreads, BeginResync(r, t) PROVE TypeInv'
  BY <1>13 DEF BeginResync, TypeInv, TypeOK, WriterTarget, TaskStates, NodeStates, Snapshots
<1>14. ASSUME NEW r \in Replicas, NEW t \in Tasks, Resync(r, t) PROVE TypeInv'
  <2> USE <1>14
  <2>1. CASE Export(r, t)
    BY <2>1 DEF Export, TypeInv, TypeOK, WriterTarget, TaskStates
  <2>2. CASE ExportFails(r, t)
    BY <2>2 DEF ExportFails, TypeInv, TypeOK, WriterTarget, TaskStates
  <2>3. CASE Install(r, t)
    BY <2>3 DEF Install, TypeInv, TypeOK, WriterTarget, TaskStates, NodeStates
  <2>4. CASE InstallFails(r, t)
    <3>1. mem' \in [Copies -> Snapshots]
      <4>1. /\ mem \in [Copies -> Snapshots] /\ r \in Copies
            /\ mem[r] \in Snapshots /\ seen[r][t] \in Snapshots
        BY DEF TypeInv, TypeOK, Copies
      <4>2. [mem[r] EXCEPT !.docs = seen[r][t].docs] \in Snapshots
        BY <4>1 DEF Snapshots
      <4>3. [mem EXCEPT ![r].docs = seen[r][t].docs]
               = [mem EXCEPT ![r] = [mem[r] EXCEPT !.docs = seen[r][t].docs]]
        BY <4>1
      <4> QED
        BY <2>4, <4>1, <4>2, <4>3 DEF InstallFails
    <3>2. store' \in [Copies -> Snapshots]
      BY <2>4 DEF InstallFails, TypeInv, TypeOK
    <3>3. /\ pc[r][t] = "install"
          /\ state' = [state EXCEPT ![r] = "recovering"]
          /\ pc' = [pc EXCEPT ![r][t] = "failed"]
          /\ seen' = [seen EXCEPT ![r][t] = EmptySnapshot]
          /\ UNCHANGED <<writer, requests, history, acked, floor>>
      BY <2>4 DEF InstallFails
    <3> QED
      BY <3>1, <3>2, <3>3 DEF TypeInv, TypeOK, WriterTarget, TaskStates, NodeStates
  <2>5. CASE GiveUp(r, t)
    BY <2>5 DEF GiveUp, TypeInv, TypeOK, WriterTarget, TaskStates, NodeStates
  <2> QED
    BY <2>1, <2>2, <2>3, <2>4, <2>5 DEF Resync
<1>15. CASE UNCHANGED vars
  BY <1>15 DEF vars, TypeInv, TypeOK, WriterTarget
<1> QED
  BY <1>1, <1>2, <1>3, <1>4, <1>5, <1>6, <1>7, <1>8, <1>9, <1>10, <1>11, <1>12, <1>13, <1>14, <1>15
  DEF Next, Write

\* Every variable keeps its type in every reachable state.
THEOREM TypeCorrect == Spec => []TypeOK
<1>1. TypeInv => TypeOK
  BY DEF TypeInv
<1> QED
  BY TypeInit, TypeNext, <1>1, PTL DEF Spec

-----------------------------------------------------------------------------
(***************************************************************************)
(* What holds however many resynchronisations overlap.                     *)
(***************************************************************************)

\* Mutation op was committed by the primary as generation gen.
Committed(op, gen) ==
    /\ 1 <= gen /\ gen <= store[Primary].gen
    /\ history[gen] = Apply(history[gen - 1], op)

\* What travels is what was committed.
RequestsCommitted == \A m \in requests : Committed(m.op, m.gen)
WriterCommitted == writer.pc # "idle" => Committed(writer.op, writer.gen)

\* A running primary knows its durable generation, degraded or not.
PrimaryGeneration ==
    state[Primary] # "starting" => mem[Primary].gen = store[Primary].gen

\* The startup thread runs alone, and compares the generation of storage.
BootAlone ==
    \A r \in Replicas :
        /\ state[r] = "starting" => \A t \in Tasks : pc[r][t] = "idle"
        /\ pc[r][Boot] # "idle" => \A t \in ResyncThreads : pc[r][t] = "idle"
        /\ \A t \in ResyncThreads : pc[r][t] \notin {"verify", "decide"}
        /\ pc[r][Boot] \in {"verify", "decide"} => mem[r] = store[r]

\* A snapshot under way is a corpus the primary had.
SnapshotsCommitted ==
    \A r \in Replicas, t \in Tasks :
        pc[r][t] = "install" =>
            /\ seen[r][t].gen <= store[Primary].gen
            /\ seen[r][t].docs = history[seen[r][t].gen]

HistoryInv ==
    /\ GenerationNamesCorpus
    /\ PrimaryIsAhead
    /\ ReadyMatchesStorage
    /\ RequestsCommitted
    /\ WriterCommitted
    /\ PrimaryGeneration
    /\ BootAlone
    /\ SnapshotsCommitted

\* The history invariant holds initially.
LEMMA HistoryInit == Init => HistoryInv
BY ConstantAssumption, ConstantTypes
   DEF Init, HistoryInv, GenerationNamesCorpus, PrimaryIsAhead, ReadyMatchesStorage,
       RequestsCommitted, WriterCommitted, PrimaryGeneration, BootAlone,
       SnapshotsCommitted, IdleWriter, EmptySnapshot, Generations, Tasks

\* A commit extends the history: it leaves every earlier generation as it was,
\* and the new one is the mutation applied to the one before it.
LEMMA CommitExtends ==
    ASSUME TypeInv, HistoryInv, NEW op \in Mutations,
           CanMutate(op), CommitOnPrimary(op)
    PROVE  /\ \A g \in Generations : g <= store[Primary].gen =>
                  history'[g] = history[g]
           /\ store'[Primary].gen = store[Primary].gen + 1
           /\ store'[Primary].docs = history'[store'[Primary].gen]
           /\ Committed(op, store[Primary].gen)'
           /\ mem'[Primary] = store'[Primary]
           /\ \A r \in Replicas : store'[r] = store[r] /\ mem'[r] = mem[r]
<1> DEFINE gen == mem[Primary].gen + 1
           corpus == Apply(store[Primary].docs, op)
<1> USE ConstantAssumption, ConstantTypes
<1>1. /\ mem[Primary] = store[Primary]
      /\ store[Primary] \in Snapshots
      /\ store[Primary].docs = history[store[Primary].gen]
  BY DEF HistoryInv, ReadyMatchesStorage, GenerationNamesCorpus, CanMutate, TypeInv, TypeOK
<1>2. /\ gen \in Generations
      /\ gen = store[Primary].gen + 1
      /\ gen - 1 = store[Primary].gen
      /\ store[Primary].gen \in Generations
  BY <1>1 DEF CanMutate, Snapshots, Generations
<1>3. history' = [history EXCEPT ![gen] = corpus]
  BY DEF CommitOnPrimary
<1>4. \A g \in Generations : g <= store[Primary].gen => history'[g] = history[g]
  BY <1>2, <1>3 DEF TypeInv, TypeOK, Generations
<1>5. history'[gen] = corpus
  BY <1>2, <1>3 DEF TypeInv, TypeOK
<1>6. /\ store'[Primary] = [docs |-> corpus, gen |-> gen]
      /\ mem'[Primary] = [docs |-> corpus, gen |-> gen]
      /\ \A r \in Replicas : store'[r] = store[r] /\ mem'[r] = mem[r]
  BY <1>1 DEF CommitOnPrimary, TypeInv, TypeOK
<1>7. corpus = Apply(history'[gen - 1], op)
  <2>1. history'[store[Primary].gen] = store[Primary].docs
    BY <1>1, <1>2, <1>4 DEF Generations
  <2> QED
    BY <1>2, <2>1
<1>8. Committed(op, store[Primary].gen)'
  <2>1. store'[Primary].gen = gen /\ gen \in Nat /\ 1 <= gen
    BY <1>2, <1>6 DEF Generations
  <2>2. history'[gen] = Apply(history'[gen - 1], op)
    BY <1>5, <1>7
  <2> QED
    BY <2>1, <2>2 DEF Committed
<1> QED
  BY <1>2, <1>4, <1>5, <1>6, <1>8

\* What was committed stays committed when the history is extended.
LEMMA CommittedStays ==
    ASSUME TypeInv, HistoryInv, NEW op \in Mutations,
           CanMutate(op), CommitOnPrimary(op),
           NEW o, NEW g \in Generations, Committed(o, g)
    PROVE  Committed(o, g)'
<1>1. g - 1 \in Generations /\ g \in Int /\ store[Primary].gen \in Int
  BY ConstantAssumption, ConstantTypes DEF Committed, Generations, TypeInv, TypeOK, Snapshots
<1>2. history'[g] = history[g] /\ history'[g - 1] = history[g - 1]
  BY <1>1, CommitExtends DEF Committed, Generations
<1> QED
  BY <1>1, <1>2, CommitExtends DEF Committed

\* A commit on the primary preserves the parts that speak of the history.
LEMMA CommitHistory ==
    ASSUME TypeInv, HistoryInv, NEW op \in Mutations,
           CanMutate(op), CommitOnPrimary(op), UNCHANGED <<pc, seen, requests>>
    PROVE  /\ GenerationNamesCorpus'
           /\ PrimaryIsAhead'
           /\ RequestsCommitted'
           /\ PrimaryGeneration'
           /\ SnapshotsCommitted'
<1> USE ConstantAssumption, ConstantTypes, CommitExtends
<1>1. \A c \in Copies : c = Primary \/ c \in Replicas
  BY DEF Copies, Replicas, Primary
<1>2. \A c \in Copies : store[c] \in Snapshots /\ store[c].gen \in Generations
  BY DEF TypeInv, TypeOK, Snapshots
<1>3. GenerationNamesCorpus'
  <2> SUFFICES ASSUME NEW c \in Copies
               PROVE  store'[c].docs = history'[store'[c].gen]
    BY DEF GenerationNamesCorpus
  <2>1. CASE c = Primary
    BY <2>1
  <2>2. CASE c \in Replicas
    <3>1. store'[c] = store[c] /\ c \in Copies
      BY <2>2
    <3>2. store[c].gen \in Generations /\ store[c].gen <= store[Primary].gen
      BY <1>2 DEF HistoryInv, PrimaryIsAhead
    <3>3. history'[store[c].gen] = history[store[c].gen]
      BY <3>2
    <3> QED
      BY <3>1, <3>3 DEF HistoryInv, GenerationNamesCorpus
  <2> QED
    BY <1>1, <2>1, <2>2
<1>4. PrimaryIsAhead'
  BY <1>1, <1>2 DEF HistoryInv, PrimaryIsAhead, Generations
<1>5. RequestsCommitted'
  BY CommittedStays DEF HistoryInv, RequestsCommitted, TypeInv, TypeOK, Requests
<1>6. PrimaryGeneration'
  BY DEF PrimaryGeneration
<1>7. SnapshotsCommitted'
  <2> SUFFICES ASSUME NEW r \in Replicas, NEW t \in Tasks, pc[r][t] = "install"
               PROVE  /\ seen[r][t].gen <= store'[Primary].gen
                      /\ seen[r][t].docs = history'[seen[r][t].gen]
    BY DEF SnapshotsCommitted
  <2>1. seen[r][t].gen \in Generations
    BY DEF TypeInv, TypeOK, Snapshots
  <2> QED
    BY <1>2, <2>1 DEF HistoryInv, SnapshotsCommitted, Generations
<1> QED
  BY <1>3, <1>4, <1>5, <1>6, <1>7

\* A READY replica that applies the next mutation holds the next corpus.
LEMMA AppliesNext ==
    ASSUME TypeInv, HistoryInv, NEW m \in requests, IsNext(m), state[m.to] = "ready"
    PROVE  /\ Apply(store[m.to].docs, m.op) = history[m.gen]
           /\ mem[m.to] = store[m.to]
           /\ m.gen = store[m.to].gen + 1
           /\ m.gen <= store[Primary].gen
<1>1. m.to \in Copies /\ m.gen \in Generations /\ store[m.to].gen \in Generations
  BY ConstantTypes DEF TypeInv, TypeOK, Requests, Snapshots
<1>2. mem[m.to] = store[m.to] /\ store[m.to].docs = history[store[m.to].gen]
  BY <1>1 DEF HistoryInv, ReadyMatchesStorage, GenerationNamesCorpus
<1>3. m.gen = store[m.to].gen + 1 /\ m.gen - 1 = store[m.to].gen
  BY <1>1, <1>2 DEF IsNext, Generations
<1>4. Committed(m.op, m.gen)
  BY DEF HistoryInv, RequestsCommitted
<1> QED
  BY <1>2, <1>3, <1>4 DEF Committed

\* Every step preserves the history invariant.
LEMMA HistoryNext == TypeInv /\ HistoryInv /\ [Next]_vars => HistoryInv'
<1> SUFFICES ASSUME TypeInv, HistoryInv, [Next]_vars PROVE HistoryInv'
  OBVIOUS
<1> USE ConstantAssumption, ConstantTypes
<1>1. ASSUME NEW op \in Mutations, Commit(op) PROVE HistoryInv'
  <2>1. CanMutate(op) /\ CommitOnPrimary(op) /\ UNCHANGED <<pc, seen, requests>>
    BY <1>1 DEF Commit
  <2>2. ReadyMatchesStorage' /\ BootAlone'
    BY <1>1, <2>1, CommitExtends DEF Commit, HistoryInv, ReadyMatchesStorage, BootAlone, Copies, Replicas, Primary
  <2>3. WriterCommitted'
    <3>1. writer'.op = op /\ writer'.gen = store'[Primary].gen
      BY <1>1, <2>1, CommitExtends DEF Commit, CommitOnPrimary, TypeInv, TypeOK
    <3> QED
      BY <2>1, <3>1, CommitExtends DEF WriterCommitted, Committed
  <2> QED
    BY <2>1, <2>2, <2>3, CommitHistory DEF HistoryInv
<1>2. ASSUME NEW op \in Mutations, CommitDegrades(op) PROVE HistoryInv'
  <2>1. CanMutate(op) /\ CommitOnPrimary(op) /\ UNCHANGED <<pc, seen, requests>>
    BY <1>2 DEF CommitDegrades
  <2>2. ReadyMatchesStorage' /\ BootAlone'
    BY <1>2, <2>1, CommitExtends DEF CommitDegrades, DegradeOnFailure, HistoryInv, ReadyMatchesStorage,
       BootAlone, TypeInv, TypeOK, Copies, Replicas, Primary
  <2>3. WriterCommitted'
    BY <1>2 DEF CommitDegrades, CanMutate, WriterCommitted
  <2> QED
    BY <2>1, <2>2, <2>3, CommitHistory DEF HistoryInv
<1>3. CASE Send
  BY <1>3 DEF Send, HistoryInv, GenerationNamesCorpus, PrimaryIsAhead, ReadyMatchesStorage,
      RequestsCommitted, WriterCommitted, PrimaryGeneration, BootAlone, SnapshotsCommitted, Committed
<1>4. CASE Accepted
  BY <1>4 DEF Accepted, TypeInv, TypeOK, HistoryInv, GenerationNamesCorpus, PrimaryIsAhead, ReadyMatchesStorage,
      RequestsCommitted, WriterCommitted, PrimaryGeneration, BootAlone, SnapshotsCommitted, Committed
<1>5. CASE ReplicationFails
  BY <1>5 DEF ReplicationFails, IdleWriter, HistoryInv, GenerationNamesCorpus, PrimaryIsAhead, ReadyMatchesStorage,
      RequestsCommitted, WriterCommitted, PrimaryGeneration, BootAlone, SnapshotsCommitted, Committed
<1>6. CASE Acknowledge
  BY <1>6 DEF Acknowledge, IdleWriter, HistoryInv, GenerationNamesCorpus, PrimaryIsAhead, ReadyMatchesStorage,
      RequestsCommitted, WriterCommitted, PrimaryGeneration, BootAlone, SnapshotsCommitted, Committed
<1>7. ASSUME NEW m \in requests, Receive(m) PROVE HistoryInv'
  <2>0. /\ m.to \in Replicas /\ m.to \in Copies /\ m.to # Primary
        /\ m.gen \in Generations
    BY DEF TypeInv, TypeOK, Requests
  <2>1. \A reply : Answer(m, reply) /\ UNCHANGED history /\ store'[Primary] = store[Primary]
             => RequestsCommitted' /\ WriterCommitted'
    BY DEF Answer, HistoryInv, RequestsCommitted, WriterCommitted, Committed, TypeInv, TypeOK
  <2>2. CASE ApplyDuplicate(m)
    BY <2>1, <2>2 DEF ApplyDuplicate, HistoryInv, GenerationNamesCorpus, PrimaryIsAhead,
      ReadyMatchesStorage, PrimaryGeneration, BootAlone, SnapshotsCommitted
  <2>3. CASE ApplyGap(m)
    BY <2>0, <2>1, <2>3 DEF ApplyGap, HistoryInv, GenerationNamesCorpus, PrimaryIsAhead,
      ReadyMatchesStorage, PrimaryGeneration, BootAlone, SnapshotsCommitted, TypeInv, TypeOK
  <2>4. CASE ApplyRefused(m)
    BY <2>1, <2>4 DEF ApplyRefused, HistoryInv, GenerationNamesCorpus, PrimaryIsAhead,
      ReadyMatchesStorage, PrimaryGeneration, BootAlone, SnapshotsCommitted
  <2>5. CASE ApplyNext(m)
    <3>1. /\ store' = [store EXCEPT ![m.to] = [docs |-> history[m.gen], gen |-> m.gen]]
          /\ mem' = [mem EXCEPT ![m.to] = [docs |-> history[m.gen], gen |-> m.gen]]
          /\ m.gen <= store[Primary].gen
      BY <2>5, AppliesNext DEF ApplyNext
    <3>2. UNCHANGED <<state, pc, seen, history>> /\ pc[m.to][Boot] = "idle"
      BY <2>5 DEF ApplyNext, Handles, Serving
    <3>3. store'[Primary] = store[Primary] /\ mem'[Primary] = mem[Primary]
      BY <2>0, <3>1 DEF TypeInv, TypeOK
    <3>4. RequestsCommitted' /\ WriterCommitted'
      BY <2>1, <2>5, <3>3 DEF ApplyNext
    <3>5. GenerationNamesCorpus' /\ ReadyMatchesStorage'
      BY <2>0, <3>1, <3>2 DEF HistoryInv, GenerationNamesCorpus, ReadyMatchesStorage, TypeInv, TypeOK
    <3>6. PrimaryIsAhead' /\ PrimaryGeneration'
      BY <2>0, <3>1, <3>2, <3>3 DEF HistoryInv, PrimaryIsAhead, PrimaryGeneration, TypeInv, TypeOK
    <3>7. BootAlone' /\ SnapshotsCommitted'
      BY <2>0, <3>1, <3>2, <3>3 DEF HistoryInv, BootAlone, SnapshotsCommitted, TypeInv, TypeOK
    <3> QED
      BY <3>4, <3>5, <3>6, <3>7 DEF HistoryInv
  <2>6. CASE ApplyDegrades(m)
    <3>1. /\ store' = [store EXCEPT ![m.to] = [docs |-> history[m.gen], gen |-> m.gen]]
          /\ state' = [state EXCEPT ![m.to] = "degraded"]
          /\ m.gen <= store[Primary].gen
          /\ \A c \in Copies : c # m.to => mem'[c] = mem[c]
      BY <2>0, <2>6, AppliesNext DEF ApplyDegrades, DegradeOnFailure, TypeInv, TypeOK
    <3>2. UNCHANGED <<pc, seen, history>> /\ pc[m.to][Boot] = "idle"
      BY <2>6 DEF ApplyDegrades, Handles, Serving
    <3>3. store'[Primary] = store[Primary] /\ mem'[Primary] = mem[Primary]
      BY <2>0, <3>1 DEF TypeInv, TypeOK
    <3>4. RequestsCommitted' /\ WriterCommitted'
      BY <2>1, <2>6, <3>3 DEF ApplyDegrades
    <3>5. GenerationNamesCorpus' /\ ReadyMatchesStorage'
      BY <2>0, <3>1, <3>2 DEF HistoryInv, GenerationNamesCorpus, ReadyMatchesStorage, TypeInv, TypeOK
    <3>6. PrimaryIsAhead' /\ PrimaryGeneration'
      BY <2>0, <3>1, <3>2, <3>3 DEF HistoryInv, PrimaryIsAhead, PrimaryGeneration, TypeInv, TypeOK
    <3>7. BootAlone' /\ SnapshotsCommitted'
      BY <2>0, <3>1, <3>2, <3>3 DEF HistoryInv, BootAlone, SnapshotsCommitted, TypeInv, TypeOK
    <3> QED
      BY <3>4, <3>5, <3>6, <3>7 DEF HistoryInv
  <2> QED
    BY <1>7, <2>2, <2>3, <2>4, <2>5, <2>6 DEF Receive
<1>8. CASE StopPrimary
  BY <1>8 DEF StopPrimary, Stop, IdleWriter, TypeInv, TypeOK, HistoryInv, GenerationNamesCorpus, PrimaryIsAhead, ReadyMatchesStorage,
      RequestsCommitted, WriterCommitted, PrimaryGeneration, BootAlone, SnapshotsCommitted, Committed
<1>9. CASE StartPrimary
  BY <1>9 DEF StartPrimary, Rebuilt, TypeInv, TypeOK, HistoryInv, GenerationNamesCorpus, PrimaryIsAhead, ReadyMatchesStorage,
      RequestsCommitted, WriterCommitted, PrimaryGeneration, BootAlone, SnapshotsCommitted, Committed
<1>10. ASSUME NEW r \in Replicas, StopReplica(r) PROVE HistoryInv'
  BY <1>10 DEF StopReplica, Stop, TypeInv, TypeOK, HistoryInv, GenerationNamesCorpus, PrimaryIsAhead, ReadyMatchesStorage,
      RequestsCommitted, WriterCommitted, PrimaryGeneration, BootAlone, SnapshotsCommitted, Committed
<1>11. ASSUME NEW r \in Replicas, StartReplica(r) PROVE HistoryInv'
  BY <1>11 DEF StartReplica, Rebuilt, TypeInv, TypeOK, HistoryInv, GenerationNamesCorpus, PrimaryIsAhead, ReadyMatchesStorage,
      RequestsCommitted, WriterCommitted, PrimaryGeneration, BootAlone, SnapshotsCommitted, Committed
<1>12. ASSUME NEW r \in Replicas, Verify(r) PROVE HistoryInv'
  <2>1. CASE ReadPrimaryGeneration(r)
    BY <2>1 DEF ReadPrimaryGeneration, TypeInv, TypeOK, Snapshots, HistoryInv, GenerationNamesCorpus, PrimaryIsAhead, ReadyMatchesStorage,
      RequestsCommitted, WriterCommitted, PrimaryGeneration, BootAlone, SnapshotsCommitted, Committed
  <2>2. CASE PrimaryUnreachable(r)
    BY <2>2 DEF PrimaryUnreachable, TypeInv, TypeOK, HistoryInv, GenerationNamesCorpus, PrimaryIsAhead, ReadyMatchesStorage,
      RequestsCommitted, WriterCommitted, PrimaryGeneration, BootAlone, SnapshotsCommitted, Committed
  <2>3. CASE Decide(r)
    BY <2>3 DEF Decide, TypeInv, TypeOK, HistoryInv, GenerationNamesCorpus, PrimaryIsAhead, ReadyMatchesStorage,
      RequestsCommitted, WriterCommitted, PrimaryGeneration, BootAlone, SnapshotsCommitted, Committed
  <2> QED
    BY <1>12, <2>1, <2>2, <2>3 DEF Verify
<1>13. ASSUME NEW r \in Replicas, NEW t \in ResyncThreads, BeginResync(r, t) PROVE HistoryInv'
  BY <1>13 DEF BeginResync, Serving, TypeInv, TypeOK, HistoryInv, GenerationNamesCorpus, PrimaryIsAhead, ReadyMatchesStorage,
      RequestsCommitted, WriterCommitted, PrimaryGeneration, BootAlone, SnapshotsCommitted, Committed
<1>14. ASSUME NEW r \in Replicas, NEW t \in Tasks, Resync(r, t) PROVE HistoryInv'
  <2>1. CASE Export(r, t)
    BY <2>1 DEF Export, TypeInv, TypeOK, HistoryInv, GenerationNamesCorpus, PrimaryIsAhead, ReadyMatchesStorage,
      RequestsCommitted, WriterCommitted, PrimaryGeneration, BootAlone, SnapshotsCommitted, Committed
  <2>2. CASE ExportFails(r, t)
    BY <2>2 DEF ExportFails, TypeInv, TypeOK, HistoryInv, GenerationNamesCorpus, PrimaryIsAhead, ReadyMatchesStorage,
      RequestsCommitted, WriterCommitted, PrimaryGeneration, BootAlone, SnapshotsCommitted, Committed
  <2>3. CASE Install(r, t)
    <3>1. /\ store'[r] = seen[r][t] /\ mem'[r] = seen[r][t]
          /\ \A c \in Copies : c # r => store'[c] = store[c] /\ mem'[c] = mem[c] /\ state'[c] = state[c]
          /\ UNCHANGED <<writer, requests, history>>
      BY <2>3 DEF Install, TypeInv, TypeOK
    <3>2. /\ seen[r][t].gen <= store[Primary].gen
          /\ seen[r][t].docs = history[seen[r][t].gen]
      BY <2>3 DEF Install, HistoryInv, SnapshotsCommitted
    <3>3. GenerationNamesCorpus' /\ ReadyMatchesStorage' /\ PrimaryGeneration'
      BY <3>1, <3>2 DEF HistoryInv, GenerationNamesCorpus, ReadyMatchesStorage, PrimaryGeneration
    <3>4. RequestsCommitted' /\ WriterCommitted'
      BY <3>1 DEF HistoryInv, RequestsCommitted, WriterCommitted, Committed
    <3>5. BootAlone' /\ PrimaryIsAhead'
      <4>1. /\ pc'[r][t] = "idle" /\ pc[r][t] = "install" /\ state'[r] = "ready"
            /\ \A q \in Replicas, u \in Tasks : <<q, u>> # <<r, t>> =>
                  pc'[q][u] = pc[q][u] /\ seen'[q][u] = seen[q][u]
        BY <2>3 DEF Install, TypeInv, TypeOK
      <4>2. t # Boot => pc[r][Boot] = "idle"
        BY <4>1 DEF HistoryInv, BootAlone, Tasks
      <4>3. pc'[r][Boot] \notin {"verify", "decide"}
        BY <4>1, <4>2
      <4>4. BootAlone'
        BY <3>1, <4>1, <4>2, <4>3 DEF HistoryInv, BootAlone, Tasks
      <4>5. PrimaryIsAhead'
        BY <3>1, <3>2, <4>1, <4>3 DEF HistoryInv, PrimaryIsAhead
      <4> QED
        BY <4>4, <4>5
    <3>6. SnapshotsCommitted'
      BY <2>3, <3>1 DEF Install, TypeInv, TypeOK, HistoryInv, SnapshotsCommitted
    <3> QED
      BY <3>3, <3>4, <3>5, <3>6 DEF HistoryInv
  <2>4. CASE InstallFails(r, t)
    <3>1. /\ store'[r] \in {store[r], seen[r][t]}
          /\ \A c \in Copies : c # r => store'[c] = store[c] /\ mem'[c] = mem[c] /\ state'[c] = state[c]
          /\ state'[r] = "recovering"
          /\ UNCHANGED <<writer, requests, history>>
      BY <2>4 DEF InstallFails, TypeInv, TypeOK
    <3>2. /\ seen[r][t].gen <= store[Primary].gen
          /\ seen[r][t].docs = history[seen[r][t].gen]
      BY <2>4 DEF InstallFails, HistoryInv, SnapshotsCommitted
    <3>3. GenerationNamesCorpus' /\ ReadyMatchesStorage' /\ PrimaryGeneration'
      BY <3>1, <3>2 DEF HistoryInv, GenerationNamesCorpus, ReadyMatchesStorage, PrimaryGeneration
    <3>4. RequestsCommitted' /\ WriterCommitted'
      BY <3>1 DEF HistoryInv, RequestsCommitted, WriterCommitted, Committed
    <3>5. BootAlone' /\ PrimaryIsAhead'
      <4>1. /\ pc'[r][t] = "failed" /\ pc[r][t] = "install" /\ state'[r] = "recovering"
            /\ \A q \in Replicas, u \in Tasks : <<q, u>> # <<r, t>> =>
                  pc'[q][u] = pc[q][u] /\ seen'[q][u] = seen[q][u]
        BY <2>4 DEF InstallFails, TypeInv, TypeOK
      <4>2. t # Boot => pc[r][Boot] = "idle"
        BY <4>1 DEF HistoryInv, BootAlone, Tasks
      <4>3. pc'[r][Boot] \notin {"verify", "decide"}
        BY <4>1, <4>2
      <4>4. BootAlone'
        BY <3>1, <4>1, <4>2, <4>3 DEF HistoryInv, BootAlone, Tasks
      <4>5. PrimaryIsAhead'
        BY <3>1, <3>2, <4>1, <4>3 DEF HistoryInv, PrimaryIsAhead
      <4> QED
        BY <4>4, <4>5
    <3>6. SnapshotsCommitted'
      BY <2>4, <3>1 DEF InstallFails, TypeInv, TypeOK, HistoryInv, SnapshotsCommitted
    <3> QED
      BY <3>3, <3>4, <3>5, <3>6 DEF HistoryInv
  <2>5. CASE GiveUp(r, t)
    BY <2>5 DEF GiveUp, TypeInv, TypeOK, HistoryInv, GenerationNamesCorpus, PrimaryIsAhead, ReadyMatchesStorage,
      RequestsCommitted, WriterCommitted, PrimaryGeneration, BootAlone, SnapshotsCommitted, Committed
  <2> QED
    BY <1>14, <2>1, <2>2, <2>3, <2>4, <2>5 DEF Resync
<1>15. CASE UNCHANGED vars
  BY <1>15 DEF vars, HistoryInv, GenerationNamesCorpus, PrimaryIsAhead, ReadyMatchesStorage,
      RequestsCommitted, WriterCommitted, PrimaryGeneration, BootAlone, SnapshotsCommitted, Committed
<1> QED
  BY <1>1, <1>2, <1>3, <1>4, <1>5, <1>6, <1>7, <1>8, <1>9, <1>10, <1>11, <1>12, <1>13, <1>14, <1>15
  DEF Next, Write

\* Types and history invariant hold in every reachable state.
LEMMA HistoryInvariant == Spec => [](TypeInv /\ HistoryInv)
BY TypeInit, TypeNext, HistoryInit, HistoryNext, PTL DEF Spec

\* Whatever is lost, late, refused, stopped or resynchronised, any two copies
\* at the same generation hold the same corpus: the one the primary committed
\* under that number.
THEOREM GenerationsNameCorpora == Spec => []GenerationNamesCorpus
<1>1. HistoryInv => GenerationNamesCorpus
  BY DEF HistoryInv
<1> QED
  BY HistoryInvariant, <1>1, PTL

\* generation(primary) >= generation(replica), always; a starting replica never
\* finds itself ahead of its primary.
THEOREM PrimaryMostAdvanced == Spec => []PrimaryIsAhead
<1>1. HistoryInv => PrimaryIsAhead
  BY DEF HistoryInv
<1> QED
  BY HistoryInvariant, <1>1, PTL

\* Only a copy whose memory agrees with its database serves.
THEOREM ReadyServesStorage == Spec => []ReadyMatchesStorage
<1>1. HistoryInv => ReadyMatchesStorage
  BY DEF HistoryInv
<1> QED
  BY HistoryInvariant, <1>1, PTL

-----------------------------------------------------------------------------
(***************************************************************************)
(* What holds when a replica runs one resynchronisation at a time.         *)
(***************************************************************************)

\* Neither memory nor a recovery's starting point is beyond the database.
MemBehindStorage == \A c \in Copies : mem[c].gen <= store[c].gen
FloorBehindPrimary == \A r \in Replicas : floor[r] <= store[Primary].gen

\* The replicas the writer has passed hold the mutation.
WriterProgress ==
    writer.pc # "idle" =>
        /\ \A r \in Replicas : r < writer.target => writer.gen <= store[r].gen
        /\ writer.pc = "accepted" => writer.gen <= store[writer.target].gen

\* A replica whose synchronizer runs does not serve, and what the synchronizer
\* has read is not older than the replica nor than the start of the recovery.
SyncForward ==
    \A r \in Replicas, t \in Tasks :
        /\ pc[r][t] # "idle" => state[r] # "ready"
        /\ pc[r][t] = "install" => store[r].gen <= seen[r][t].gen
        /\ pc[r][t] \in {"decide", "install"} => floor[r] <= seen[r][t].gen

ForwardInv ==
    /\ MemBehindStorage
    /\ FloorBehindPrimary
    /\ WriterProgress
    /\ SyncForward
    /\ AckedOnEveryCopy
    /\ RecoveryCatchesUp

\* At most one request for a resynchronisation at a time.
OneResync == \A t, u \in ResyncThreads : t = u

\* The forward invariant holds initially.
LEMMA ForwardInit == Init => ForwardInv
BY ConstantAssumption, ConstantTypes
   DEF Init, ForwardInv, IdleWriter, EmptySnapshot, Generations, MemBehindStorage, FloorBehindPrimary, WriterProgress, SyncForward,
      AckedOnEveryCopy, RecoveryCatchesUp

\* With one resync thread, and the startup thread alone in its process, two
\* busy threads of a replica are the same thread.
LEMMA OneTask ==
    ASSUME TypeInv, HistoryInv, OneResync, NEW r \in Replicas,
           NEW t \in Tasks, NEW u \in Tasks, pc[r][t] # "idle", pc[r][u] # "idle"
    PROVE  t = u
BY DEF HistoryInv, BootAlone, OneResync, Tasks

\* A replica that is handling a mutation has no snapshot to install.
LEMMA ReadyNoTask ==
    ASSUME ForwardInv, NEW r \in Replicas, state[r] = "ready"
    PROVE  \A t \in Tasks : pc[r][t] = "idle"
BY DEF ForwardInv, SyncForward

\* With one resynchronisation at a time, every step preserves the forward
\* invariant.
LEMMA ForwardNext ==
    ASSUME OneResync
    PROVE  TypeInv /\ HistoryInv /\ ForwardInv /\ [Next]_vars
             => ForwardInv' /\ \A c \in Copies : store[c].gen <= store'[c].gen
<1> DEFINE Forward == \A c \in Copies : store[c].gen <= store'[c].gen
<1> SUFFICES ASSUME TypeInv, HistoryInv, ForwardInv, [Next]_vars
             PROVE  ForwardInv' /\ Forward
  OBVIOUS
<1> USE ConstantAssumption, ConstantTypes
<1>0. /\ \A c \in Copies : store[c].gen \in Int /\ mem[c].gen \in Int
      /\ \A r \in Replicas : floor[r] \in Int
      /\ \A r \in Replicas, t \in Tasks : seen[r][t].gen \in Int
      /\ writer.gen \in Int /\ writer.target \in Int
      /\ acked \subseteq Int
      /\ \A c \in Copies : c = Primary \/ c \in Replicas
      /\ \A c \in Copies : c \in Int
  BY DEF TypeInv, TypeOK, Snapshots, Generations, Copies, Replicas, Primary
<1>1. ASSUME NEW op \in Mutations, Commit(op) PROVE ForwardInv' /\ Forward
  <2>1. /\ store'[Primary].gen = store[Primary].gen + 1
        /\ mem'[Primary] = store'[Primary]
        /\ \A r \in Replicas : store'[r] = store[r] /\ mem'[r] = mem[r]
    BY <1>1, CommitExtends DEF Commit
  <2>2. Forward
    BY <1>0, <2>1
  <2>3. MemBehindStorage' /\ FloorBehindPrimary' /\ AckedOnEveryCopy' /\ RecoveryCatchesUp' /\ SyncForward'
    BY <1>0, <1>1, <2>1 DEF Commit, ForwardInv, MemBehindStorage, FloorBehindPrimary, WriterProgress, SyncForward,
      AckedOnEveryCopy, RecoveryCatchesUp
  <2>4. WriterProgress'
    BY <1>0, <1>1, <2>1 DEF Commit, WriterProgress, Replicas
  <2> QED
    BY <2>2, <2>3, <2>4 DEF ForwardInv
<1>2. ASSUME NEW op \in Mutations, CommitDegrades(op) PROVE ForwardInv' /\ Forward
  <2>1. /\ store'[Primary].gen = store[Primary].gen + 1
        /\ mem'[Primary] = store'[Primary]
        /\ \A r \in Replicas : store'[r] = store[r] /\ mem'[r] = mem[r]
        /\ \A r \in Replicas : state'[r] = state[r]
    BY <1>2, CommitExtends DEF CommitDegrades, DegradeOnFailure, TypeInv, TypeOK
  <2>2. Forward
    BY <1>0, <2>1
  <2>3. MemBehindStorage' /\ FloorBehindPrimary' /\ AckedOnEveryCopy' /\ RecoveryCatchesUp' /\ SyncForward'
    BY <1>0, <1>2, <2>1 DEF CommitDegrades, ForwardInv, MemBehindStorage, FloorBehindPrimary, WriterProgress, SyncForward,
      AckedOnEveryCopy, RecoveryCatchesUp
  <2>4. WriterProgress'
    BY <1>2 DEF CommitDegrades, CanMutate, WriterProgress
  <2> QED
    BY <2>2, <2>3, <2>4 DEF ForwardInv
<1>3. CASE Send
  BY <1>0, <1>3 DEF Send, TypeInv, TypeOK, ForwardInv, MemBehindStorage, FloorBehindPrimary, WriterProgress, SyncForward,
      AckedOnEveryCopy, RecoveryCatchesUp
<1>4. CASE Accepted
  BY <1>0, <1>4 DEF Accepted, TypeInv, TypeOK, WriterTarget, Replicas, ForwardInv, MemBehindStorage, FloorBehindPrimary, WriterProgress, SyncForward,
      AckedOnEveryCopy, RecoveryCatchesUp
<1>5. CASE ReplicationFails
  BY <1>0, <1>5 DEF ReplicationFails, IdleWriter, ForwardInv, MemBehindStorage, FloorBehindPrimary, WriterProgress, SyncForward,
      AckedOnEveryCopy, RecoveryCatchesUp
<1>6. CASE Acknowledge
  <2>1. UNCHANGED <<store, mem, state, pc, seen, floor>> /\ writer'.pc = "idle"
    BY <1>6 DEF Acknowledge, IdleWriter
  <2>2. \A r \in Replicas : writer.gen <= store[r].gen
    BY <1>0, <1>6 DEF Acknowledge, ForwardInv, WriterProgress, Replicas
  <2>3. writer.gen <= store[Primary].gen
    BY <1>6 DEF Acknowledge, HistoryInv, WriterCommitted, Committed
  <2>4. AckedOnEveryCopy'
    BY <1>0, <1>6, <2>1, <2>2, <2>3 DEF Acknowledge, ForwardInv, AckedOnEveryCopy
  <2> QED
    BY <1>0, <2>1, <2>4 DEF ForwardInv, MemBehindStorage, FloorBehindPrimary, WriterProgress, SyncForward,
      AckedOnEveryCopy, RecoveryCatchesUp
<1>7. ASSUME NEW m \in requests, Receive(m) PROVE ForwardInv' /\ Forward
  <2>0. m.to \in Replicas /\ m.to \in Copies /\ m.to # Primary /\ m.gen \in Int
    BY DEF TypeInv, TypeOK, Requests, Generations
  <2>1. ASSUME NEW reply, Answer(m, reply), reply = "accepted" => m.gen <= store'[m.to].gen, Forward,
               \A c \in Copies : store'[c].gen \in Int
        PROVE  WriterProgress'
    <3>1. /\ writer'.gen = writer.gen /\ writer'.target = writer.target
          /\ writer'.pc # "idle" => writer.pc # "idle"
          /\ writer'.pc = "accepted" =>
                \/ writer.pc = "accepted" /\ writer.target \in Replicas
                \/ reply = "accepted" /\ writer.target = m.to /\ writer.gen = m.gen
      BY <2>1 DEF Answer, TypeInv, TypeOK, WriterTarget
    <3>2. \A r \in Replicas : r \in Copies /\ store[r].gen <= store'[r].gen
      BY <2>1
    <3> QED
      BY <1>0, <2>0, <2>1, <3>1, <3>2 DEF ForwardInv, WriterProgress
  <2>2. CASE ApplyDuplicate(m)
    BY <1>0, <2>0, <2>1, <2>2 DEF ApplyDuplicate, IsDuplicate, ForwardInv, MemBehindStorage, FloorBehindPrimary, WriterProgress, SyncForward,
      AckedOnEveryCopy, RecoveryCatchesUp
  <2>3. CASE ApplyGap(m)
    <3>1. /\ UNCHANGED <<store, mem, pc, seen, acked, floor>>
          /\ \A c \in Copies : state'[c] = "ready" => state[c] = "ready"
      BY <2>3 DEF ApplyGap, TypeInv, TypeOK
    <3>2. WriterProgress'
      BY <1>0, <2>1, <2>3, <3>1 DEF ApplyGap
    <3> QED
      BY <1>0, <3>1, <3>2 DEF ForwardInv, MemBehindStorage, FloorBehindPrimary, WriterProgress, SyncForward,
      AckedOnEveryCopy, RecoveryCatchesUp
  <2>4. CASE ApplyRefused(m)
    BY <1>0, <2>0, <2>1, <2>4 DEF ApplyRefused, ForwardInv, MemBehindStorage, FloorBehindPrimary, WriterProgress, SyncForward,
      AckedOnEveryCopy, RecoveryCatchesUp
  <2>5. CASE ApplyNext(m)
    <3>1. /\ m.gen = store[m.to].gen + 1 /\ m.gen = mem[m.to].gen + 1
          /\ store'[m.to].gen = m.gen /\ mem'[m.to].gen = m.gen
          /\ \A c \in Copies : c # m.to => store'[c] = store[c] /\ mem'[c] = mem[c]
          /\ UNCHANGED <<state, pc, seen, acked, floor>>
      BY <2>0, <2>5, AppliesNext DEF ApplyNext, IsNext, TypeInv, TypeOK
    <3>2. \A t \in Tasks : pc[m.to][t] = "idle"
      BY <2>0, <2>5, ReadyNoTask DEF ApplyNext
    <3>3. Forward /\ \A c \in Copies : store'[c].gen \in Int
      BY <1>0, <2>0, <3>1
    <3>4. WriterProgress'
      BY <2>0, <2>1, <2>5, <3>1, <3>3 DEF ApplyNext
    <3> QED
      BY <1>0, <2>0, <3>1, <3>2, <3>3, <3>4 DEF ForwardInv, MemBehindStorage, FloorBehindPrimary, WriterProgress, SyncForward,
      AckedOnEveryCopy, RecoveryCatchesUp
  <2>6. CASE ApplyDegrades(m)
    <3>1. /\ m.gen = store[m.to].gen + 1 /\ m.gen = mem[m.to].gen + 1
          /\ store'[m.to].gen = m.gen /\ mem'[m.to].gen = mem[m.to].gen
          /\ \A c \in Copies : c # m.to => store'[c] = store[c] /\ mem'[c] = mem[c] /\ state'[c] = state[c]
          /\ state'[m.to] = "degraded"
          /\ UNCHANGED <<pc, seen, acked, floor>>
      BY <2>0, <2>6, AppliesNext DEF ApplyDegrades, DegradeOnFailure, IsNext, TypeInv, TypeOK
    <3>2. \A t \in Tasks : pc[m.to][t] = "idle"
      BY <2>0, <2>6, ReadyNoTask DEF ApplyDegrades
    <3>3. Forward /\ \A c \in Copies : store'[c].gen \in Int
      BY <1>0, <2>0, <3>1
    <3>4. WriterProgress'
      BY <2>0, <2>1, <2>6, <3>1, <3>3 DEF ApplyDegrades
    <3> QED
      BY <1>0, <2>0, <3>1, <3>2, <3>3, <3>4 DEF ForwardInv, MemBehindStorage, FloorBehindPrimary, WriterProgress, SyncForward,
      AckedOnEveryCopy, RecoveryCatchesUp
  <2> QED
    BY <1>7, <2>2, <2>3, <2>4, <2>5, <2>6 DEF Receive
<1>8. CASE StopPrimary
  BY <1>0, <1>8 DEF StopPrimary, Stop, IdleWriter, EmptySnapshot, Generations, TypeInv, TypeOK, Snapshots, ForwardInv, MemBehindStorage, FloorBehindPrimary, WriterProgress, SyncForward,
      AckedOnEveryCopy, RecoveryCatchesUp
<1>9. CASE StartPrimary
  BY <1>0, <1>9 DEF StartPrimary, Rebuilt, TypeInv, TypeOK, ForwardInv, MemBehindStorage, FloorBehindPrimary, WriterProgress, SyncForward,
      AckedOnEveryCopy, RecoveryCatchesUp
<1>10. ASSUME NEW r \in Replicas, StopReplica(r) PROVE ForwardInv' /\ Forward
  BY <1>0, <1>10 DEF StopReplica, Stop, EmptySnapshot, Generations, TypeInv, TypeOK, Snapshots, ForwardInv, MemBehindStorage, FloorBehindPrimary, WriterProgress, SyncForward,
      AckedOnEveryCopy, RecoveryCatchesUp
<1>11. ASSUME NEW r \in Replicas, StartReplica(r) PROVE ForwardInv' /\ Forward
  BY <1>0, <1>11 DEF StartReplica, Rebuilt, TypeInv, TypeOK, HistoryInv, BootAlone, ForwardInv, MemBehindStorage, FloorBehindPrimary, WriterProgress, SyncForward,
      AckedOnEveryCopy, RecoveryCatchesUp
<1>12. ASSUME NEW r \in Replicas, Verify(r) PROVE ForwardInv' /\ Forward
  <2>1. CASE ReadPrimaryGeneration(r)
    BY <1>0, <2>1 DEF ReadPrimaryGeneration, TypeInv, TypeOK, HistoryInv, PrimaryGeneration, ForwardInv, MemBehindStorage, FloorBehindPrimary, WriterProgress, SyncForward,
      AckedOnEveryCopy, RecoveryCatchesUp
  <2>2. CASE PrimaryUnreachable(r)
    BY <1>0, <2>2 DEF PrimaryUnreachable, TypeInv, TypeOK, ForwardInv, MemBehindStorage, FloorBehindPrimary, WriterProgress, SyncForward,
      AckedOnEveryCopy, RecoveryCatchesUp
  <2>3. CASE Decide(r)
    BY <1>0, <2>3 DEF Decide, TypeInv, TypeOK, HistoryInv, BootAlone, Tasks, ForwardInv, MemBehindStorage, FloorBehindPrimary, WriterProgress, SyncForward,
      AckedOnEveryCopy, RecoveryCatchesUp
  <2> QED
    BY <1>12, <2>1, <2>2, <2>3 DEF Verify
<1>13. ASSUME NEW r \in Replicas, NEW t \in ResyncThreads, BeginResync(r, t) PROVE ForwardInv' /\ Forward
  <2>1. \A u \in Tasks : u # t => pc[r][u] = "idle"
    BY <1>13 DEF BeginResync, Serving, OneResync, Tasks
  <2> QED
    BY <1>0, <1>13, <2>1 DEF BeginResync, TypeInv, TypeOK, ForwardInv, MemBehindStorage, FloorBehindPrimary, WriterProgress, SyncForward,
      AckedOnEveryCopy, RecoveryCatchesUp
<1>14. ASSUME NEW r \in Replicas, NEW t \in Tasks, Resync(r, t) PROVE ForwardInv' /\ Forward
  <2>0. \A u \in Tasks : u # t /\ pc[r][t] # "idle" => pc[r][u] = "idle"
    BY OneTask
  <2>1. CASE Export(r, t)
    BY <1>0, <2>1 DEF Export, TypeInv, TypeOK, HistoryInv, PrimaryGeneration, PrimaryIsAhead, ForwardInv, MemBehindStorage, FloorBehindPrimary, WriterProgress, SyncForward,
      AckedOnEveryCopy, RecoveryCatchesUp
  <2>2. CASE ExportFails(r, t)
    BY <1>0, <2>2 DEF ExportFails, TypeInv, TypeOK, ForwardInv, MemBehindStorage, FloorBehindPrimary, WriterProgress, SyncForward,
      AckedOnEveryCopy, RecoveryCatchesUp
  <2>3. CASE Install(r, t)
    BY <1>0, <2>0, <2>3 DEF Install, TypeInv, TypeOK, WriterTarget, ForwardInv, MemBehindStorage, FloorBehindPrimary, WriterProgress, SyncForward,
      AckedOnEveryCopy, RecoveryCatchesUp
  <2>4. CASE InstallFails(r, t)
    <3>1. /\ store'[r] \in {store[r], seen[r][t]}
          /\ \A c \in Copies : c # r => store'[c] = store[c] /\ mem'[c] = mem[c] /\ state'[c] = state[c]
          /\ mem'[r].gen = mem[r].gen
          /\ state'[r] = "recovering" /\ pc[r][t] = "install"
          /\ UNCHANGED <<writer, acked, floor>>
      <4>1. mem[r] \in Snapshots /\ seen[r][t] \in Snapshots
        BY DEF TypeInv, TypeOK, Copies
      <4>2. [mem[r] EXCEPT !.docs = seen[r][t].docs].gen = mem[r].gen
        BY <4>1 DEF Snapshots
      <4> QED
        BY <2>4, <4>2 DEF InstallFails, TypeInv, TypeOK, Copies
    <3>2. Forward
      BY <1>0, <3>1 DEF ForwardInv, SyncForward
    <3>3. MemBehindStorage' /\ FloorBehindPrimary' /\ AckedOnEveryCopy' /\ RecoveryCatchesUp'
      BY <1>0, <3>1, <3>2 DEF ForwardInv, MemBehindStorage, FloorBehindPrimary, WriterProgress, SyncForward,
      AckedOnEveryCopy, RecoveryCatchesUp
    <3>4. WriterProgress'
      BY <1>0, <3>1, <3>2 DEF ForwardInv, WriterProgress, TypeInv, WriterTarget
    <3>5. SyncForward'
      BY <1>0, <2>0, <2>4, <3>1 DEF InstallFails, TypeInv, TypeOK, ForwardInv, SyncForward
    <3> QED
      BY <3>2, <3>3, <3>4, <3>5 DEF ForwardInv
  <2>5. CASE GiveUp(r, t)
    BY <1>0, <2>5 DEF GiveUp, TypeInv, TypeOK, ForwardInv, MemBehindStorage, FloorBehindPrimary, WriterProgress, SyncForward,
      AckedOnEveryCopy, RecoveryCatchesUp
  <2> QED
    BY <1>14, <2>1, <2>2, <2>3, <2>4, <2>5 DEF Resync
<1>15. CASE UNCHANGED vars
  BY <1>0, <1>15 DEF vars, ForwardInv, MemBehindStorage, FloorBehindPrimary, WriterProgress, SyncForward,
      AckedOnEveryCopy, RecoveryCatchesUp
<1> QED
  BY <1>1, <1>2, <1>3, <1>4, <1>5, <1>6, <1>7, <1>8, <1>9, <1>10, <1>11, <1>12, <1>13, <1>14, <1>15
  DEF Next, Write

\* With one resynchronisation at a time, the forward invariant holds in every
\* reachable state.
LEMMA ForwardInvariant ==
    ASSUME OneResync PROVE Spec => [](TypeInv /\ HistoryInv /\ ForwardInv)
BY TypeInit, TypeNext, HistoryInit, HistoryNext, ForwardInit, ForwardNext, PTL DEF Spec

\* The headline guarantee, for any number of replicas and mutations, when no
\* replica is asked to resynchronise while it is resynchronising: a write that
\* was answered with a 2xx is durable on every copy from then on.
THEOREM AckedWritesSurvive == ASSUME OneResync PROVE Spec => []AckedOnEveryCopy
<1>1. ForwardInv => AckedOnEveryCopy
  BY DEF ForwardInv
<1> QED
  BY ForwardInvariant, <1>1, PTL

\* Under the same condition a replica that comes back into service holds all
\* that the primary had committed when the recovery began.
THEOREM RecoveredReplicaIsCurrent == ASSUME OneResync PROVE Spec => []RecoveryCatchesUp
<1>1. ForwardInv => RecoveryCatchesUp
  BY DEF ForwardInv
<1> QED
  BY ForwardInvariant, <1>1, PTL

\* Under the same condition no database ever returns to an earlier generation.
THEOREM GenerationsNeverFall == ASSUME OneResync PROVE Spec => NeverBackwards
<1>1. TypeInv /\ HistoryInv /\ ForwardInv /\ [Next]_vars
        => [\A c \in Copies : store[c].gen <= store'[c].gen]_vars
  BY ForwardNext
<1> QED
  BY ForwardInvariant, <1>1, PTL DEF Spec, NeverBackwards

-----------------------------------------------------------------------------
(* Replication implements ShardLog when a replica runs one resynchronisation *)
(* at a time.  Every step appends to the log, advances one copy,             *)
(* acknowledges, or leaves log, copies and acknowledgements as they are;     *)
(* that reads come from the entry a copy holds is the invariant.             *)

Held == [c \in Copies |-> store[c].gen]

\* An initial state of the shard is an initial state of the log.
LEMMA InitRefines == Init => Log!LInit
BY ConstantTypes DEF Init, Log!LInit, EmptySnapshot, Generations

\* A step that leaves the databases, the history and the acknowledgements.
LEMMA NothingHeldChanges ==
    ASSUME UNCHANGED <<store, history, acked>>
    PROVE  UNCHANGED <<history, Held, acked>>
BY DEF Held

\* A step that moves the database of one replica forward.
LEMMA ReplicaAdvances ==
    ASSUME TypeInv, NEW r \in Replicas, NEW s \in Snapshots,
           store' = [store EXCEPT ![r] = s],
           store[r].gen <= s.gen, s.gen <= store[Primary].gen,
           UNCHANGED <<history, acked>>
    PROVE  \E c \in Copies \ {Primary}, g \in 0..MaxGeneration : Log!Advance(c, g)
<1> USE ConstantAssumption, ConstantTypes
<1>1. r \in Copies \ {Primary} /\ s.gen \in 0..MaxGeneration
  BY DEF Snapshots, Generations
<1>2. Held' = [Held EXCEPT ![r] = s.gen]
  BY DEF Held, TypeInv, TypeOK
<1>3. Log!Advance(r, s.gen)
  BY <1>1, <1>2 DEF Log!Advance, Held
<1> QED
  BY <1>1, <1>3

\* A commit on the primary appends to the log.
LEMMA CommitAppends ==
    ASSUME TypeInv, HistoryInv, NEW op \in Mutations,
           CanMutate(op), CommitOnPrimary(op), UNCHANGED acked
    PROVE  \E d \in Docs, v \in Texts \cup {NoText} : Log!Append(d, v)
<1> USE ConstantAssumption, ConstantTypes
<1> DEFINE g == store[Primary].gen
<1>1. /\ mem[Primary] = store[Primary]
      /\ store[Primary] \in Snapshots
      /\ store[Primary].docs = history[g]
      /\ g < MaxGeneration
  BY DEF HistoryInv, ReadyMatchesStorage, GenerationNamesCorpus, CanMutate, TypeInv, TypeOK
<1>2. history' = [history EXCEPT ![g + 1] = [history[g] EXCEPT ![op.doc] = op.text]]
  BY <1>1 DEF CommitOnPrimary, Apply
<1>3. Held' = [Held EXCEPT ![Primary] = g + 1]
  BY <1>1 DEF CommitOnPrimary, Held, TypeInv, TypeOK
<1>4. Held[Primary] = g
  BY DEF Held
<1>5. Log!Append(op.doc, op.text)
  BY <1>1, <1>2, <1>3, <1>4 DEF Log!Append, Held
<1> QED
  BY <1>5 DEF Mutations

\* A step of the shard is a step of the log, or leaves it unchanged.
LEMMA NextRefines ==
    ASSUME OneResync, TypeInv, HistoryInv, ForwardInv, HistoryInv', [Next]_vars
    PROVE  [Log!LNext]_(Log!logVars)
<1> USE ConstantAssumption, ConstantTypes
<1> DEFINE Appends == \E d \in Docs, v \in Texts \cup {NoText} : Log!Append(d, v)
           Advances == \E c \in Copies \ {Primary}, g \in 0..MaxGeneration : Log!Advance(c, g)
           Acks == \E g \in 0..MaxGeneration : Log!Ack(g)
           Quiet == UNCHANGED <<history, Held, acked>>
<1>1. Appends \/ Advances \/ Acks \/ Quiet
  <2>1. ASSUME NEW op \in Mutations, Commit(op) \/ CommitDegrades(op) PROVE Appends
    BY <2>1, CommitAppends DEF Commit, CommitDegrades
  <2>2. ASSUME Send \/ Accepted \/ ReplicationFails PROVE Quiet
    BY <2>2, NothingHeldChanges DEF Send, Accepted, ReplicationFails
  <2>3. ASSUME Acknowledge PROVE Acks
    <3>1. \A r \in Replicas : writer.gen <= store[r].gen
      BY <2>3 DEF Acknowledge, ForwardInv, WriterProgress, Replicas
    <3>2. writer.gen <= store[Primary].gen /\ writer.gen \in 0..MaxGeneration
      BY <2>3 DEF Acknowledge, HistoryInv, WriterCommitted, Committed, TypeInv, TypeOK, Generations
    <3>3. \A c \in Copies : writer.gen <= Held[c]
      BY <3>1, <3>2 DEF Held, Copies, Replicas, Primary
    <3>4. Log!Ack(writer.gen)
      BY <2>3, <3>3, NothingHeldChanges DEF Acknowledge, Log!Ack, Held
    <3> QED
      BY <3>2, <3>4
  <2>4. ASSUME NEW m \in requests, Receive(m) PROVE Advances \/ Quiet
    <3>1. CASE ApplyDuplicate(m) \/ ApplyGap(m) \/ ApplyRefused(m)
      BY <3>1, NothingHeldChanges DEF ApplyDuplicate, ApplyGap, ApplyRefused
    <3>2. CASE ApplyNext(m) \/ ApplyDegrades(m)
      <4> DEFINE s == [docs |-> Apply(store[m.to].docs, m.op), gen |-> m.gen]
      <4>1. /\ m.to \in Replicas /\ m.to \in Copies /\ m.gen \in Generations
            /\ m.op \in Mutations /\ store[m.to].docs \in Corpora
            /\ store[m.to].gen \in Int
        BY DEF TypeInv, TypeOK, Requests, Snapshots, Generations
      <4>2. /\ store' = [store EXCEPT ![m.to] = s]
            /\ IsNext(m) /\ state[m.to] = "ready"
            /\ UNCHANGED <<history, acked>>
        BY <3>2 DEF ApplyNext, ApplyDegrades
      <4>3. s \in Snapshots /\ s.gen = m.gen
        BY <4>1, ApplyType DEF Snapshots
      <4>4. store[m.to].gen <= s.gen /\ s.gen <= store[Primary].gen
        BY <4>1, <4>2, <4>3, AppliesNext
      <4> HIDE DEF s
      <4> QED
        BY <4>1, <4>2, <4>3, <4>4, ReplicaAdvances
    <3> QED
      BY <2>4, <3>1, <3>2 DEF Receive
  <2>5. ASSUME StopPrimary \/ StartPrimary PROVE Quiet
    BY <2>5, NothingHeldChanges DEF StopPrimary, StartPrimary, Stop
  <2>6. ASSUME NEW r \in Replicas, StopReplica(r) \/ StartReplica(r) \/ Verify(r) PROVE Quiet
    BY <2>6, NothingHeldChanges DEF StopReplica, StartReplica, Stop, Verify,
       ReadPrimaryGeneration, PrimaryUnreachable, Decide
  <2>7. ASSUME NEW r \in Replicas, NEW t \in ResyncThreads, BeginResync(r, t) PROVE Quiet
    BY <2>7, NothingHeldChanges DEF BeginResync
  <2>8. ASSUME NEW r \in Replicas, NEW t \in Tasks, Resync(r, t) PROVE Advances \/ Quiet
    <3>1. CASE Export(r, t) \/ ExportFails(r, t) \/ GiveUp(r, t)
      BY <3>1, NothingHeldChanges DEF Export, ExportFails, GiveUp
    <3>2. CASE Install(r, t) \/ InstallFails(r, t)
      <4>1. /\ pc[r][t] = "install"
            /\ UNCHANGED store \/ store' = [store EXCEPT ![r] = seen[r][t]]
            /\ UNCHANGED <<history, acked>>
        BY <3>2 DEF Install, InstallFails
      <4>2. /\ seen[r][t] \in Snapshots
            /\ store[r].gen <= seen[r][t].gen
            /\ seen[r][t].gen <= store[Primary].gen
        BY <4>1 DEF TypeInv, TypeOK, HistoryInv, SnapshotsCommitted, ForwardInv, SyncForward
      <4> QED
        BY <4>1, <4>2, ReplicaAdvances, NothingHeldChanges
    <3> QED
      BY <2>8, <3>1, <3>2 DEF Resync
  <2>9. ASSUME UNCHANGED vars PROVE Quiet
    BY <2>9, NothingHeldChanges DEF vars
  <2> HIDE DEF Appends, Advances, Acks, Quiet
  <2> QED
    BY <2>1, <2>2, <2>3, <2>4, <2>5, <2>6, <2>7, <2>8, <2>9 DEF Next, Write
<1>2. \A c \in Copies : Log!ReadsHeldEntry(c)'
  BY DEF HistoryInv, GenerationNamesCorpus, ReadyMatchesStorage, Log!ReadsHeldEntry
<1> QED
  BY <1>1, <1>2 DEF Log!LNext, Held

\* For any number of replicas and mutations: the shard, with its messages,
\* failures and recoveries, implements the log of ShardLog, when no replica is
\* asked to resynchronise while it is resynchronising.
THEOREM ReplicationImplementsLog == ASSUME OneResync PROVE Spec => ImplementsLog
BY ForwardInvariant, InitRefines, NextRefines, PTL DEF Spec, ImplementsLog, Log!LSpec

-----------------------------------------------------------------------------
(* The environment that calms down *)

\* Whether the faults are over or not, a step of ReplicationRecovery is one of
\* Replication: a calm environment does less, never something else.
LEMMA CalmStepIsStep == CalmStep => Next
  <1> SUFFICES ASSUME CalmStep PROVE Next
    OBVIOUS
  <1>1. ASSUME NEW mutation \in Mutations, Commit(mutation) PROVE Next
    BY <1>1 DEF Next, Write
  <1>2. ASSUME WriterStep PROVE Next
    BY <1>2 DEF WriterStep, Next, Write
  <1>3. ASSUME NEW m \in requests, Handled(m) PROVE Next
    BY <1>3 DEF Handled, Next, Receive
  <1>4. ASSUME OperatePrimary PROVE Next
    BY <1>4 DEF OperatePrimary, Next
  <1>5. ASSUME NEW r \in Replicas, StartReplica(r) PROVE Next
    BY <1>5 DEF Next
  <1>6. ASSUME NEW r \in Replicas, RequestResync(r) PROVE Next
    BY <1>6 DEF RequestResync, Next
  <1>7. ASSUME NEW r \in Replicas, SyncStep(r) PROVE Next
    BY <1>7 DEF SyncStep, Next, Verify, Resync
  <1> QED BY <1>1, <1>2, <1>3, <1>4, <1>5, <1>6, <1>7 DEF CalmStep

\* ReplicationRecovery, whose environment calms down (restarts by the operator, writes
\* that go on), implements Replication, so every theorem above holds of it too.
THEOREM RecoveryIsReplication == RSpec => Spec
  <1>1. RInit => Init
    BY DEF RInit
  <1>2. [RNext]_rvars => [Next]_vars
    BY CalmStepIsStep DEF RNext, rvars
  <1> QED BY <1>1, <1>2, PTL DEF RSpec, Spec

=============================================================================

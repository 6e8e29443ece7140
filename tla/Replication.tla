----------------------------- MODULE Replication -----------------------------
(***************************************************************************)
(* One logical shard of PySearch: a primary and its replicas, each a       *)
(* process with a SQLite database (durable) and a SearchEngine (in         *)
(* memory), joined by HTTP.                                                *)
(*                                                                         *)
(*   Replicator           the primary's write path: commit locally, then   *)
(*                        send the mutation to every replica, in order     *)
(*   SearchEngine         apply_replicated_*: what a replica does with a   *)
(*                        mutation, decided by its generation              *)
(*   ReplicaSynchronizer  the startup check and the resynchronisation      *)
(*                                                                         *)
(* Every SearchEngine method holds the engine's lock from end to end, so   *)
(* it is one step here; what happens between two calls interleaves.        *)
(*                                                                         *)
(* The network.  A request is a member of `requests' from the time it is   *)
(* sent until a handler thread of the receiver takes it, however late that *)
(* is and even if the sender has given up meanwhile; a request that is     *)
(* lost is one that is never taken.  A node that stops takes the requests  *)
(* addressed to it along.  Requests are not duplicated (the HTTP client    *)
(* does not retry) but may be taken in any order.                          *)
(*                                                                         *)
(* A mutation fails without any effect when storage or the embedding model *)
(* fails before the commit; on the primary such a step changes nothing and *)
(* is not written down.                                                    *)
(***************************************************************************)
EXTENDS Integers

CONSTANTS
    Docs,           \* document ids
    Texts,          \* document texts
    NoText,         \* stands for the absence of a document
    NumReplicas,    \* replicas of the logical shard
    ResyncThreads,  \* requests to /internal/replica/resync one replica may
                    \* be serving at the same time
    MaxGeneration   \* bound: mutations the primary commits

ASSUME ConstantAssumption ==
    /\ NumReplicas \in Nat
    /\ MaxGeneration \in Nat
    /\ Docs # {}
    /\ NoText \notin Texts
    /\ "boot" \notin ResyncThreads

Primary == 0
Replicas == 1..NumReplicas      \* in the order of own_replica_addresses
Copies == 0..NumReplicas
Generations == 0..MaxGeneration

\* The threads of a replica that run the synchronizer: the one that starts
\* the application, and those that serve resync requests.
Boot == "boot"
Tasks == ResyncThreads \cup {Boot}

Corpora == [Docs -> Texts \cup {NoText}]
EmptyCorpus == [d \in Docs |-> NoText]
Snapshots == [docs : Corpora, gen : Generations]
EmptySnapshot == [docs |-> EmptyCorpus, gen |-> 0]

\* PUT stores a text, DELETE stores NoText.
Mutations == [doc : Docs, text : Texts \cup {NoText}]
Apply(corpus, op) == [corpus EXCEPT ![op.doc] = op.text]

NodeStates == {"starting", "recovering", "ready", "degraded", "out_of_sync"}

VARIABLES
    store,      \* store[c]: copy c's database, the corpus and the generation
    mem,        \* mem[c]: its engine's document cache and _generation
    state,      \* state[c]: its NodeState; "starting" while it is not running
    pc,         \* pc[r][t]: where thread t of replica r is in the synchronizer
    seen,       \* seen[r][t]: what that thread has read from the primary
    writer,     \* the mutation that holds the Replicator's lock
    requests,   \* replication requests sent and not yet handled
    history,    \* auxiliary: history[g] is the primary's corpus at generation g
    acked,      \* auxiliary: the generations answered with a 2xx
    floor       \* auxiliary: floor[r] is the primary's durable generation when
                \* the last recovery of replica r began

vars == <<store, mem, state, pc, seen, writer, requests, history, acked, floor>>

WriterStates == {"idle", "send", "wait", "accepted", "refused"}
NoMutation == [doc |-> CHOOSE d \in Docs : TRUE, text |-> NoText]
IdleWriter == [pc |-> "idle", target |-> 0, op |-> NoMutation, gen |-> 0]

Requests == [to : Replicas, op : Mutations, gen : Generations]

TaskStates == {"idle", "verify", "decide", "export", "install", "failed"}

\* The types of the variables.
TypeOK ==
    /\ store \in [Copies -> Snapshots]
    /\ mem \in [Copies -> Snapshots]
    /\ state \in [Copies -> NodeStates]
    /\ pc \in [Replicas -> [Tasks -> TaskStates]]
    /\ seen \in [Replicas -> [Tasks -> Snapshots]]
    /\ writer \in [pc : WriterStates, target : 0..(NumReplicas + 1),
                   op : Mutations, gen : Generations]
    /\ requests \subseteq Requests
    /\ history \in [Generations -> Corpora]
    /\ acked \subseteq Generations
    /\ floor \in [Replicas -> Generations]

\* A new database is empty and at generation 0; no process is running.
Init ==
    /\ store = [c \in Copies |-> EmptySnapshot]
    /\ mem = [c \in Copies |-> EmptySnapshot]
    /\ state = [c \in Copies |-> "starting"]
    /\ pc = [r \in Replicas |-> [t \in Tasks |-> "idle"]]
    /\ seen = [r \in Replicas |-> [t \in Tasks |-> EmptySnapshot]]
    /\ writer = IdleWriter
    /\ requests = {}
    /\ history = [g \in Generations |-> EmptyCorpus]
    /\ acked = {}
    /\ floor = [r \in Replicas |-> 0]

-----------------------------------------------------------------------------
(* The primary's write path: Replicator *)

\* The mutation is legal on the primary: a deletion must find its document in
\* the cache, and consumes no generation otherwise.
CanMutate(op) ==
    /\ writer.pc = "idle"
    /\ state[Primary] = "ready"
    /\ mem[Primary].gen < MaxGeneration
    /\ op.text = NoText => mem[Primary].docs[op.doc] # NoText

\* SearchEngine.index_document / delete_document: the document and the next
\* generation are committed in one transaction, then the cache follows.
CommitOnPrimary(op) ==
    LET gen == mem[Primary].gen + 1
        corpus == Apply(store[Primary].docs, op)
    IN  /\ store' = [store EXCEPT ![Primary] = [docs |-> corpus, gen |-> gen]]
        /\ mem' = [mem EXCEPT ![Primary] =
                      [docs |-> Apply(mem[Primary].docs, op), gen |-> gen]]
        /\ history' = [history EXCEPT ![gen] = corpus]

\* The writer takes the lock and commits; the mutation is next sent to the
\* replicas.
Commit(op) ==
    /\ CanMutate(op)
    /\ CommitOnPrimary(op)
    /\ writer' = [pc |-> "send", target |-> 1, op |-> op,
                  gen |-> mem[Primary].gen + 1]
    /\ UNCHANGED <<state, pc, seen, requests, acked, floor>>

\* A failure of the derived state that is logged and swallowed.
FailureIgnored(c) == UNCHANGED state

\* SearchEngine._degrade_on_failure: the derived state did not follow a commit.
DegradeOnFailure(c) == state' = [state EXCEPT ![c] = "degraded"]

\* The index or the vectors cannot follow the commit: the primary degrades,
\* the write fails and no replica hears of it.
CommitDegrades(op) ==
    /\ CanMutate(op)
    /\ CommitOnPrimary(op)
    /\ DegradeOnFailure(Primary)
    /\ UNCHANGED <<pc, seen, writer, requests, acked, floor>>

\* A replica accepts connections once its startup has finished.
Serving(r) == state[r] # "starting" /\ pc[r][Boot] = "idle"

\* The next replica is sent the mutation.
Send ==
    /\ writer.pc = "send"
    /\ writer.target \in Replicas
    /\ Serving(writer.target)
    /\ requests' = requests \cup
          {[to |-> writer.target, op |-> writer.op, gen |-> writer.gen]}
    /\ writer' = [writer EXCEPT !.pc = "wait"]
    /\ UNCHANGED <<store, mem, state, pc, seen, history, acked, floor>>

\* A writer that goes on to the next replica after a refusal.
AcceptedOrRefused ==
    /\ writer.pc \in {"accepted", "refused"}
    /\ writer' = [writer EXCEPT !.pc = "send", !.target = writer.target + 1]
    /\ UNCHANGED <<store, mem, state, pc, seen, requests, history, acked, floor>>

\* The replica answered 2xx: on to the next one.
Accepted ==
    /\ writer.pc = "accepted"
    /\ writer' = [writer EXCEPT !.pc = "send", !.target = writer.target + 1]
    /\ UNCHANGED <<store, mem, state, pc, seen, requests, history, acked, floor>>

\* A writer that waits for the answer however long it takes.
FailsOnAnswerOnly ==
    /\ \/ writer.pc = "send" /\ writer.target \in Replicas /\ ~Serving(writer.target)
       \/ writer.pc \in {"accepted", "refused"}
    /\ writer' = IdleWriter
    /\ UNCHANGED <<store, mem, state, pc, seen, requests, history, acked, floor>>

\* ReplicationError: the replica cannot be connected to, it answered 4xx or
\* 5xx, or no answer came in time (the request may be handled later, or may
\* have been handled and the answer lost).  The replicas that remain are not
\* contacted and the write is not acknowledged.
ReplicationFails ==
    /\ \/ writer.pc = "send" /\ writer.target \in Replicas /\ ~Serving(writer.target)
       \/ writer.pc \in {"wait", "accepted", "refused"}
    /\ writer' = IdleWriter
    /\ UNCHANGED <<store, mem, state, pc, seen, requests, history, acked, floor>>

\* Every replica has accepted: the write is answered with a 2xx.
Acknowledge ==
    /\ writer.pc = "send"
    /\ writer.target = NumReplicas + 1
    /\ acked' = acked \cup {writer.gen}
    /\ writer' = IdleWriter
    /\ UNCHANGED <<store, mem, state, pc, seen, requests, history, floor>>

-----------------------------------------------------------------------------
(* A replica applies a mutation: SearchEngine.apply_replicated_put/_delete *)

\* The handler of request m answers; only a writer that still waits for this
\* very request learns of it.
Answer(m, reply) ==
    /\ requests' = requests \ {m}
    /\ writer' = IF writer.pc = "wait" /\ writer.target = m.to /\ writer.gen = m.gen
                 THEN [writer EXCEPT !.pc = reply]
                 ELSE writer

Handles(m) == m \in requests /\ Serving(m.to)

\* A replica that takes any generation newer than its own.
IsNewer(m) == m.gen > mem[m.to].gen

\* SearchEngine._classify_generation_locked: the three cases.
IsDuplicate(m) == m.gen <= mem[m.to].gen
IsGap(m) == m.gen > mem[m.to].gen + 1
IsNext(m) == m.gen = mem[m.to].gen + 1

\* generation <= local: applied before, whatever state the replica is in.
ApplyDuplicate(m) ==
    /\ Handles(m)
    /\ IsDuplicate(m)
    /\ Answer(m, "accepted")
    /\ UNCHANGED <<store, mem, state, pc, seen, history, acked, floor>>

\* generation > local + 1: a mutation was missed; refuse and stop serving.
ApplyGap(m) ==
    /\ Handles(m)
    /\ IsGap(m)
    /\ state' = [state EXCEPT ![m.to] = "out_of_sync"]
    /\ Answer(m, "refused")
    /\ UNCHANGED <<store, mem, pc, seen, history, acked, floor>>

\* generation = local + 1, but the replica is not READY, or the embedding or
\* the transaction fails: nothing has changed.
ApplyRefused(m) ==
    /\ Handles(m)
    /\ IsNext(m)
    /\ Answer(m, "refused")
    /\ UNCHANGED <<store, mem, state, pc, seen, history, acked, floor>>

\* generation = local + 1 on a READY replica: commit, then advance.
ApplyNext(m) ==
    /\ Handles(m)
    /\ IsNext(m)
    /\ state[m.to] = "ready"
    /\ store' = [store EXCEPT ![m.to] =
                    [docs |-> Apply(store[m.to].docs, m.op), gen |-> m.gen]]
    /\ mem' = [mem EXCEPT ![m.to] =
                    [docs |-> Apply(mem[m.to].docs, m.op), gen |-> m.gen]]
    /\ Answer(m, "accepted")
    /\ UNCHANGED <<state, pc, seen, history, acked, floor>>

\* The same, but the index or the vectors fail after the commit: the replica
\* degrades with the mutation durable and _generation not advanced.
ApplyDegrades(m) ==
    /\ Handles(m)
    /\ IsNext(m)
    /\ state[m.to] = "ready"
    /\ store' = [store EXCEPT ![m.to] =
                    [docs |-> Apply(store[m.to].docs, m.op), gen |-> m.gen]]
    /\ mem' = [mem EXCEPT ![m.to] =
                    [docs |-> Apply(mem[m.to].docs, m.op), gen |-> mem[m.to].gen]]
    /\ DegradeOnFailure(m.to)
    /\ Answer(m, "refused")
    /\ UNCHANGED <<pc, seen, history, acked, floor>>

-----------------------------------------------------------------------------
(* Processes stop and start *)

\* A copy stops, at any point: its memory, its threads and the requests it has
\* not handled are gone, its database is not.
Stop(c) ==
    /\ state[c] # "starting"
    /\ state' = [state EXCEPT ![c] = "starting"]
    /\ mem' = [mem EXCEPT ![c] = EmptySnapshot]
    /\ UNCHANGED <<store, history, acked, floor>>

StopPrimary ==
    /\ Stop(Primary)
    /\ writer' = IdleWriter
    /\ UNCHANGED <<pc, seen, requests>>

StopReplica(r) ==
    /\ Stop(r)
    /\ pc' = [pc EXCEPT ![r] = [t \in Tasks |-> "idle"]]
    /\ seen' = [seen EXCEPT ![r] = [t \in Tasks |-> EmptySnapshot]]
    /\ requests' = {m \in requests : m.to # r}
    /\ UNCHANGED writer

\* A rebuild that forgets to read the generation back from storage.
RebuiltWithoutGeneration(c) == [docs |-> store[c].docs, gen |-> 0]

\* SearchEngine._rebuild_locked: the cache and the generation are read back
\* from storage, and swapped in when the whole rebuild has succeeded.
Rebuilt(c) == store[c]

\* SearchEngine.initialize on the primary: rebuild from storage, then serve.
StartPrimary ==
    /\ state[Primary] = "starting"
    /\ mem' = [mem EXCEPT ![Primary] = Rebuilt(Primary)]
    /\ state' = [state EXCEPT ![Primary] = "ready"]
    /\ UNCHANGED <<store, pc, seen, writer, requests, history, acked, floor>>

\* A replica rebuilds from its own storage and begins to verify itself against
\* the primary, before it accepts a connection.
StartReplica(r) ==
    /\ state[r] = "starting"
    /\ mem' = [mem EXCEPT ![r] = Rebuilt(r)]
    /\ state' = [state EXCEPT ![r] = "recovering"]
    /\ pc' = [pc EXCEPT ![r][Boot] = "verify"]
    /\ floor' = [floor EXCEPT ![r] = store[Primary].gen]
    /\ UNCHANGED <<store, seen, writer, requests, history, acked>>

-----------------------------------------------------------------------------
(* ReplicaSynchronizer *)

\* The primary reports its generation, in whatever state its engine is.
ReadPrimaryGeneration(r) ==
    /\ pc[r][Boot] = "verify"
    /\ state[Primary] # "starting"
    /\ seen' = [seen EXCEPT ![r][Boot] =
                   [docs |-> EmptyCorpus, gen |-> mem[Primary].gen]]
    /\ pc' = [pc EXCEPT ![r][Boot] = "decide"]
    /\ UNCHANGED <<store, mem, state, writer, requests, history, acked, floor>>

\* A replica that serves what it has when it cannot ask the primary.
UnreachableServes(r) ==
    /\ pc[r][Boot] = "verify"
    /\ pc' = [pc EXCEPT ![r][Boot] = "idle"]
    /\ state' = [state EXCEPT ![r] = "ready"]
    /\ UNCHANGED <<store, mem, seen, writer, requests, history, acked, floor>>

\* The primary does not answer: the replica starts, and does not serve.
PrimaryUnreachable(r) ==
    /\ pc[r][Boot] = "verify"
    /\ pc' = [pc EXCEPT ![r][Boot] = "idle"]
    /\ UNCHANGED <<store, mem, state, seen, writer, requests, history, acked, floor>>

\* The replica compares its generation with the one it has read.
Decide(r) ==
    LET local == mem[r].gen
        remote == seen[r][Boot].gen
    IN  /\ pc[r][Boot] = "decide"
        /\ state' = [state EXCEPT ![r] = IF local = remote THEN "ready"
                                         ELSE IF local > remote THEN "out_of_sync"
                                         ELSE "recovering"]
        /\ pc' = [pc EXCEPT ![r][Boot] = IF local < remote THEN "export" ELSE "idle"]
        /\ seen' = [seen EXCEPT ![r][Boot] = EmptySnapshot]
        /\ UNCHANGED <<store, mem, writer, requests, history, acked, floor>>

\* A resynchronisation that goes on serving while it waits for the snapshot.
ResyncWhileServing(r, t) ==
    /\ Serving(r)
    /\ pc[r][t] = "idle"
    /\ pc' = [pc EXCEPT ![r][t] = "export"]
    /\ floor' = [floor EXCEPT ![r] = store[Primary].gen]
    /\ UNCHANGED <<store, mem, state, seen, writer, requests, history, acked>>

\* POST /internal/replica/resync: stop serving, then ask for a snapshot.
BeginResync(r, t) ==
    /\ Serving(r)
    /\ pc[r][t] = "idle"
    /\ state' = [state EXCEPT ![r] = "recovering"]
    /\ pc' = [pc EXCEPT ![r][t] = "export"]
    /\ floor' = [floor EXCEPT ![r] = store[Primary].gen]
    /\ UNCHANGED <<store, mem, seen, writer, requests, history, acked>>

\* SearchEngine.export_snapshot on the primary, under its engine's lock: the
\* Replicator's lock is not taken, so a mutation may be half replicated.
Export(r, t) ==
    /\ pc[r][t] = "export"
    /\ state[Primary] = "ready"
    /\ seen' = [seen EXCEPT ![r][t] = mem[Primary]]
    /\ pc' = [pc EXCEPT ![r][t] = "install"]
    /\ UNCHANGED <<store, mem, state, writer, requests, history, acked, floor>>

\* No snapshot: the primary is down, not READY, or the answer is late.
ExportFails(r, t) ==
    /\ pc[r][t] = "export"
    /\ pc' = [pc EXCEPT ![r][t] = "failed"]
    /\ UNCHANGED <<store, mem, state, seen, writer, requests, history, acked, floor>>

\* A resynchronisation that does not return to service.
InstallWithoutServing(r, t) ==
    /\ pc[r][t] = "install"
    /\ store' = [store EXCEPT ![r] = seen[r][t]]
    /\ mem' = [mem EXCEPT ![r] = seen[r][t]]
    /\ pc' = [pc EXCEPT ![r][t] = "idle"]
    /\ seen' = [seen EXCEPT ![r][t] = EmptySnapshot]
    /\ UNCHANGED <<state, writer, requests, history, acked, floor>>

\* SearchEngine.resynchronize: replace the corpus, rebuild, serve.
Install(r, t) ==
    /\ pc[r][t] = "install"
    /\ store' = [store EXCEPT ![r] = seen[r][t]]
    /\ mem' = [mem EXCEPT ![r] = seen[r][t]]
    /\ state' = [state EXCEPT ![r] = "ready"]
    /\ pc' = [pc EXCEPT ![r][t] = "idle"]
    /\ seen' = [seen EXCEPT ![r][t] = EmptySnapshot]
    /\ UNCHANGED <<writer, requests, history, acked, floor>>

\* SearchEngine.resynchronize raises: in the transaction, which leaves the old
\* corpus, or in the rebuild, which leaves the new corpus in the database and
\* the old one in memory, or, when the generation cannot be read after the swap,
\* the new documents in memory with the old generation.
InstallFails(r, t) ==
    /\ pc[r][t] = "install"
    /\ \/ UNCHANGED <<store, mem>>
       \/ /\ store' = [store EXCEPT ![r] = seen[r][t]]
          /\ \/ UNCHANGED mem
             \/ mem' = [mem EXCEPT ![r].docs = seen[r][t].docs]
    /\ state' = [state EXCEPT ![r] = "recovering"]
    /\ pc' = [pc EXCEPT ![r][t] = "failed"]
    /\ seen' = [seen EXCEPT ![r][t] = EmptySnapshot]
    /\ UNCHANGED <<writer, requests, history, acked, floor>>

\* A failure reported as a state that no NodeState names.
GiveUpUnnamed(r, t) ==
    /\ pc[r][t] = "failed"
    /\ state' = [state EXCEPT ![r] = "unavailable"]
    /\ pc' = [pc EXCEPT ![r][t] = "idle"]
    /\ UNCHANGED <<store, mem, seen, writer, requests, history, acked, floor>>

\* The synchronizer reports the failure.
GiveUp(r, t) ==
    /\ pc[r][t] = "failed"
    /\ state' = [state EXCEPT ![r] = "out_of_sync"]
    /\ pc' = [pc EXCEPT ![r][t] = "idle"]
    /\ UNCHANGED <<store, mem, seen, writer, requests, history, acked, floor>>

-----------------------------------------------------------------------------
Write ==
    \/ \E op \in Mutations : Commit(op) \/ CommitDegrades(op)
    \/ Send \/ Accepted \/ ReplicationFails \/ Acknowledge

Receive(m) ==
    \/ ApplyDuplicate(m) \/ ApplyGap(m) \/ ApplyRefused(m)
    \/ ApplyNext(m) \/ ApplyDegrades(m)

Verify(r) == ReadPrimaryGeneration(r) \/ PrimaryUnreachable(r) \/ Decide(r)

Resync(r, t) ==
    \/ Export(r, t) \/ ExportFails(r, t)
    \/ Install(r, t) \/ InstallFails(r, t) \/ GiveUp(r, t)

Next ==
    \/ Write
    \/ \E m \in requests : Receive(m)
    \/ StopPrimary \/ StartPrimary
    \/ \E r \in Replicas :
          \/ StopReplica(r) \/ StartReplica(r) \/ Verify(r)
          \/ \E t \in ResyncThreads : BeginResync(r, t)
          \/ \E t \in Tasks : Resync(r, t)

Spec == Init /\ [][Next]_vars

-----------------------------------------------------------------------------
(* Properties *)

\* A generation names a corpus: whatever was lost, late, refused or restarted
\* on the way, a copy whose database is at generation g holds exactly what the
\* primary held at g.  This is what contiguous generations are for: equality
\* of generations is evidence of synchronisation.
GenerationNamesCorpus ==
    \A c \in Copies : store[c].docs = history[store[c].gen]

\* The primary is the most advanced copy, on disk and as far as a starting
\* replica can tell: the branch of synchronize() for a replica ahead of its
\* primary is never taken.
PrimaryIsAhead ==
    /\ \A c \in Copies : store[c].gen <= store[Primary].gen
    /\ \A r \in Replicas :
          pc[r][Boot] = "decide" => mem[r].gen <= seen[r][Boot].gen

\* A copy that serves answers from exactly what its database holds, so nothing
\* it has answered can change when it restarts (SearchEngine.validate).
ReadyMatchesStorage ==
    \A c \in Copies : state[c] = "ready" => mem[c] = store[c]

\* The headline guarantee: a write that was answered with a 2xx is durable on
\* every configured copy, from then on and through every later failure,
\* restart and resynchronisation.
AckedOnEveryCopy ==
    \A g \in acked, c \in Copies : g <= store[c].gen

\* A replica proves itself before it serves: once READY again it holds
\* everything, acknowledged or not, that the primary had committed when the
\* recovery began.
RecoveryCatchesUp ==
    \A r \in Replicas : state[r] = "ready" => floor[r] <= mem[r].gen

\* No copy's database ever goes back to an earlier generation.
NeverBackwards ==
    [][\A c \in Copies : store[c].gen <= store'[c].gen]_vars

\* The shard as its clients see it: a log of which every copy durably holds an
\* entry, and a READY copy answers from its cache.
Log == INSTANCE ShardLog WITH
    Values <- Texts \cup {NoText},
    Nothing <- NoText,
    log <- history,
    at <- [c \in Copies |-> store[c].gen],
    read <- [c \in Copies |-> IF state[c] = "ready" THEN mem[c].docs ELSE NoText]

\* The replicated shard, with its messages, failures and recoveries, does
\* nothing that the log does not allow.
ImplementsLog == Log!LSpec

=============================================================================

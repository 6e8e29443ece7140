# PySearch in TLA+

A verification project for PySearch, a small distributed search engine: BM25,
exact vector search and their fusion, over logical shards with a primary and
replicas, behind a coordinator.  TLA+ modules model the parts of the system that
have state or an algorithm worth arguing about, TLC checks them on small
instances, and TLAPS proves every safety property of the runs for every instance.

Paths below are relative to the repository (`src/`).

## 1. The system

```
   client ──HTTP──▶ coordinator ──HTTP──▶ primary of shard 0 ──HTTP──▶ replicas
                        │                  (SQLite + SearchEngine)     (the same)
                        └───────HTTP──▶ primary of shard 1 ──HTTP──▶ replicas
```

| Component | State | Operations | Talks to |
|---|---|---|---|
| Coordinator `app/cluster/coordinator.py` | one asyncio lock; nothing else | `index_document`, `delete_document`, `search`, `semantic_search`, `hybrid_search`, `index_stats`, `readiness`, `cluster_status` | shards, through `HttpShardClient` |
| Shard client `app/cluster/client.py` | none | one HTTP request per call, with a timeout and no retry | a copy of a shard |
| Routing and topology `app/cluster/routing.py`, `topology.py`, `app/core/config.py` | constant | owner of a document, serving order of the copies | – |
| Replicator `app/cluster/replication.py:102` | a thread lock | `put`, `delete`: commit locally, then each replica in turn | the primary's engine, the replicas |
| ReplicaSynchronizer `app/cluster/replication.py:181` | none across calls | `synchronize` (startup check), `resync` (snapshot) | the primary, the replica's engine |
| SearchEngine `app/search/engine.py` | `NodeState`, `_generation`, document cache, index, vectors, a lock that is not reentrant | initialise, mutate, apply a replicated mutation, export, resynchronise, query | the store, both indexes, the embedder |
| Document store `app/storage/sqlite_store.py` | the durable corpus and its generation | `put`, `delete`, `replace_all` (a transaction each), reads | SQLite |
| InvertedIndex `app/search/index.py` | postings, term sets, lengths, total length | `add_document`, `remove_document`, statistics | – |
| ExactVectorIndex `app/semantic/vector_index.py` | id list, positions, matrix | `add`, `remove`, `clear`, `search` | – |
| Ranking, fusion, analysis, embedder | none | pure functions | – |
| HTTP API, lifecycle, health `app/api`, `app/main.py` | none of their own | validation, delegation, start and stop of a process, `/ready`, `/cluster/status` | all of the above |
| Launcher `scripts/run_cluster.py` | the processes it has started | start, await, announce, stop | every process, by its port |

What is hard here, and what the properties are for:

* **Replication without consensus.**  A mutation is committed on the primary
  before any replica has heard of it.  A crash, a timeout or a refusal in
  between leaves copies that differ; the contiguous *generation* is the only
  thing that tells them apart, and late requests go on arriving.
* **Recovery.**  A replica checks itself against a primary that goes on
  committing.  Reading the generation, exporting the snapshot and installing it
  are three steps with no lock across them.
* **Derived state.**  Cache, index and vectors follow a transaction that cannot
  be taken back; a failure in between must take the copy out of service.
* **The coordinator's lock** covers what the coordinator awaits, not what a
  shard goes on doing after a timeout.
* **Failover.**  Every read may be answered by a copy other than the primary,
  and the two rounds of a BM25 search must be answered by the same one.
* **Starting a cluster.**  Processes find each other by URLs that were written
  down in advance; a readiness report is put together from answers of different
  moments, without a lock, while nodes come and go.
* **Long sequences** of additions, replacements and removals, which two indexes
  follow incrementally.

`PROJECT.json` lists the hazards one by one, at the lines where they bite.

## 2. The modules

| Module | What it is |
|---|---|
| `ShardLog` | abstract: what a logical shard promises |
| `Replication` | one logical shard: Replicator, replicas, ReplicaSynchronizer, crashes |
| `ReplicationRecovery` | `Replication` in an environment whose faults come to an end |
| `ReplicationProofs` | theorems on `Replication`; it implements `ShardLog` |
| `Coordinator`, `CoordinatorProofs` | the coordinator over shards that are `ShardLog`s; theorems |
| `VectorMap` | abstract: what a vector index promises |
| `VectorIndex`, `VectorSearch` | `ExactVectorIndex`; its `search` |
| `VectorIndexProofs` | theorems on both; the index implements `VectorMap` |
| `InvertedIndex`, `InvertedIndexProofs` | `InvertedIndex` with its statistics; theorems |
| `Ranking`, `RankingProofs` | BM25, semantic and hybrid search on one engine and over shards, on top of `InvertedIndex`; theorems |
| `SearchEngine`, `SearchEngineProofs` | the inside of one node: lock, database and derived structures, sub-step by sub-step; theorems, those on `EngineAtomicity` too |
| `AtomicEngine`, `EngineAtomicity` | abstract: the engine as `Replication` takes it, a step per method; `SearchEngine`, seen between methods, implements it |
| `Topology` | from a coordinator's settings to its topology: parsing, validation, `build_topology` |
| `Cluster`, `ClusterProofs` | the processes of a cluster: launcher, ports, startup, `/ready` and `/cluster/status`; uses `Topology`; theorems on both |
| `FiniteSetLemmas` | sums over finite sets, places in a strict order, least numbers: what the proofs need of data |
| `MCReplication`, `MCCoordinator`, `MCVectorIndex`, `MCRanking`, `MCCluster` | instances for TLC, and the statements of the documentation that the code does not keep |

Definitions whose comment begins "A ... that ..." just before an action or
operator (`ResyncWhileServing`, `ScoreAnywhere`, ...) are wrong variants of the
next definition, used to show that the properties notice the difference; no
specification uses them.

### Replication

`store[c]` is copy c's database, `mem[c]` the engine's cache and `_generation`,
`state[c]` its `NodeState` (`"starting"` also stands for a process that is not
running).  `writer` is the mutation that holds the Replicator's lock.
`pc[r][t]` and `seen[r][t]` are the program counter and the local value of
thread `t` of replica `r` in the synchronizer: `"boot"` is the startup thread,
the others serve `POST /internal/replica/resync`.  `requests` are replication
requests that no handler has taken.  `history`, `acked` and `floor` are auxiliary.

| Code | Actions |
|---|---|
| `Replicator.put`/`delete` with `SearchEngine.index_document`/`delete_document` | `Commit`, `CommitDegrades` |
| `Replicator._replicate`, `HttpNodeLink` | `Send`, `Accepted`, `ReplicationFails`, `Acknowledge` |
| `apply_replicated_put`/`_delete`, `_classify_generation_locked` | `ApplyDuplicate`, `ApplyGap`, `ApplyRefused`, `ApplyNext`, `ApplyDegrades` |
| `_node_lifespan`, `SearchEngine.initialize`, `_rebuild_locked`, `close` | `StartPrimary`, `StartReplica`, `StopPrimary`, `StopReplica` |
| `ReplicaSynchronizer.synchronize` | `ReadPrimaryGeneration`, `PrimaryUnreachable`, `Decide` |
| `ReplicaSynchronizer.resync`, `export_snapshot`, `resynchronize` | `BeginResync`, `Export`, `ExportFails`, `Install`, `InstallFails`, `GiveUp` |

Every engine method holds the engine's lock from beginning to end and every
query goes through that lock too, so a method is one step (`EngineAtomicity`
shows that this is so, from the sub-steps of `SearchEngine`), with a separate
action for each outcome: nothing committed, committed and followed, committed
and not followed (`InstallFails` has three: the old corpus, the new one in the
database only, the new one in memory too with the old generation, when reading it
raises after the swap).  Between methods everything interleaves.  A copy may stop in
any state; its database survives.  A request may be handled at any later time,
also after its sender gave up, or never; answers may be lost (`ReplicationFails`
is possible in `"accepted"`).  Requests are not duplicated because nothing in
the code sends one twice; the duplicate case is reached by a late request that
meets a resynchronised replica.

### Coordinator

A shard is a `ShardLog`: `log[s]`, the generation `at[s][c]` of every copy and
whether it is `serving`.  That is justified by the theorem
`ReplicationImplementsLog`, under its hypothesis (one resynchronisation at a time
per replica), and `ShardsAreLogs` checks that the environment written here does
no more than a `ShardLog` may.  `op` holds the coordinator's lock; `leg[p][s]` is
one path of the operation on one shard, with the copy that is being asked and
the generations that its first and its second answer describe.  `write[w]` is a
routed mutation; it has a life of its own, because a write that the coordinator
gave up goes on at the primary.  `semantic_search` and `index_stats` are the one-round path
`"plain"`, `search` the two-round path `"lexical"`, `hybrid_search` both at once.

### The indexes

`VectorIndex` keeps `_ids`, `_positions` and `_matrix` as they are in the code,
with rows numbered from 1; embeddings are opaque, except in `VectorSearch`, where
they are integers and similarity is the product.  `InvertedIndex` keeps
`_postings`, `_document_terms`, `_document_lengths` and `_total_length`; a text is
the count of each term that `analyze()` leaves.  The two `validate` methods, which
a rebuild calls before it serves, are the operators `Valid`; they are checked in both
directions, against the index itself and against every index with a wrong entry
(in the vector index, with one in each of its two structures; the width, the
finiteness and the norm of vectors, which `validate` checks after that, are part of
what makes an opaque embedding one).  Statistics are
those of ranking (`CorpusStats`, `MergeCorpusStats`) and those of `/index/stats`
(`IndexStats`, `ClusterStats`), averages in thousandths.

A sorted list is defined by places, here and in `Ranking`: the sort keys order the
hits strictly (no document has two hits), so a hit's place in the list is one more
than the number of hits with a smaller key.  That is what `sorted` computes, and it
is a definition that can be reasoned about.

### SearchEngine

`store` is the database, `derived` the cache, the index and the vectors, each as
the map of texts it was built from; `lock` is `_lock` and `call[t]` the method that
thread `t` is in: where it is, its argument, the structures it has still to
change or to read, and the corpora it has seen.

| Code | Actions |
|---|---|
| `index_document`, `delete_document`, `apply_replicated_*` | `Mutate` or `ApplyReplicated`, then `Commit` or `CommitFails`, then `Follow` per structure or `FollowFails`, then `Mutated`; `ApplyGap` |
| `search`, `semantic_search`, `hybrid_search`, `corpus_stats`, `stats`, `export_snapshot` | `Query`, `Read` per structure, `Answer` |
| `resynchronize`, `_rebuild_locked` | `Resynchronize`, `Replace`, `Rebuild` per structure, `ServeAgain` or `ResynchronizeFails` |
| `mark_recovering`, `mark_out_of_sync` | `Mark` |
| `initialize`, `close`, a crash | `Start`, `Stop` |

A structure that raises in `FollowFails` may have kept or lost anything it had
for the document.  What a replica is told to apply or to install is arbitrary here;
what it is told in fact is `Replication`'s matter.

`EngineAtomicity` adds `shown`, the database, the memory and the state when the
lock was last free: what anybody who has to take the lock can see.  `AtomicEngine`
has one action per outcome of a method, named in its comments after the actions
of `Replication` that it stands for.  A crash in the middle of a method is one
step there and two in `Replication` (the commit, then the stop).

### Cluster

`process[n]` is what the operating system and a poll can tell of a process:
not started, starting (in the lifespan hook, not listening), answering `/ready`
with 200 or 503, stopping, killed, exited.  A request goes to a port, and whoever
holds it answers (`Says`); ports are relative to `--base-port`.  `launcher` is the
launcher's place in `main`, `processes` its list.  `topology` is the coordinator's,
`answer[s][i]` what copy i of shard s has said to the `probe` that is under way, or
that its answer was lost.
`faults` counts what went wrong by itself; `beenReady`, `served` and `quiet` are auxiliary.

| Code | Actions |
|---|---|
| `run_cluster.main`, `start_node` | `StartPrimaries`, `StartReplicas`, `StartCoordinator` |
| `wait_until_ready` | `NodeSeenReady`, `ClusterSeenReady`, `WaitTimesOut` |
| Ctrl-C, the `finally` clause | `Interrupt`, `Terminate`, `Reap`; `ProcessExits` |
| `_node_lifespan`, `_attach_replication_role` | `NodeStarts` |
| `Settings._check_topology`, `build_topology`, `_coordinator_lifespan`, `Coordinator.__init__` | `CoordinatorStarts` |
| `Coordinator.readiness`, `cluster_status` and their endpoints | `BeginProbe`, `CopyAnswers` or `AnswerLost` per copy, `EndProbe` |
| a crash, loss of READY, a resynchronisation | `ProcessStops`, `NodeFails`, `ReplicaResyncs` |

What a node holds, and when it may be READY, is `Replication`'s matter.  A probe
takes no lock and changes nothing, so one at a time stands for any number.  In
half of the initial states there is no launcher but a coordinator with settings
that somebody wrote by hand.

`AnnouncedWholeCluster` holds of every port: a coordinator port that is a node's
port takes away what that node then hides (the coordinator, and a replica whose port
is a primary's), and nothing else.  `TopologyIsSound` speaks of positions: blank
entries are not counted, so those after a gap move up, and a replica group belongs to
the shard of its own position.  `QuietReportsAreExact` is about probes during which no
node changes, with any number of lost answers: `quiet` is not reset by a lost answer,
which counts against the copy it came from alone.

### Ranking

The steps are those of `InvertedIndex`, which reach every corpus; in each of them
every query is answered twice, by an engine that holds everything and by the
coordinator's algorithm over every way of routing the documents to shards.
Scores are integers of the form of the code's: BM25 with k1 = 1.2 and b = 0.75
without the logarithm, a similarity that is a product, reciprocal ranks
over a common denominator.  Equal numbers are ties here; in the code two sums of the
same terms in another order may differ in the last bit, but a document's score is
computed by one engine in the order of the query's terms wherever it lives, so
that does not depend on the shards.

## 3. The runs

| Run | Instance | Shows |
|---|---|---|
| `replication` | 2 replicas, 2 documents, 2 mutations, one resync thread | all safety properties of the shard, and that it implements `ShardLog` |
| `recovery` | 1 replica, 3 mutations | liveness: the lock is released; the shard heals, writes or no writes |
| `coordinator` | 2 shards with a replica each, 2 writes, searches | freshness and completeness of reads, agreement of the two rounds |
| `hybrid` | 1 shard with a replica, 2 writes, every kind of read | the same for concurrent paths; operations end; the shard is a log |
| `vector_index` | 4 documents, 3 embeddings, capacity 1 → 2 → 4 | the index is a map, its search exact, its `validate` complete |
| `ranking` | 4 documents with up to 2 tokens of 2 terms, 2 shards, 3 queries, limits 1–3, depth at most 3 | the index and its total are derived, `validate` accepts it and nothing damaged, statistics merge exactly; distributed answers, lexical, semantic and hybrid, are those of one engine; fusion keeps agreement |
| `engine` | 2 documents, 2 threads, 3 generations | a READY engine agrees with its database, queries are atomic, the lock is given back; methods are the steps that `Replication` takes them for |
| `cluster` | up to 3 shards with and without replicas, 2 faults; hand-written settings | what is announced is whole, addresses are in their places, reports hold though nodes change and answers are lost, no process is left behind |
| four more | small | the findings of section 5 |

**Bounds.**  A skipped mutation is visible only if two mutations touch different
documents and a third state can come after, so `replication` has two documents
and two generations: gap, duplicate and late arrival all occur.  Two replicas are
the least for which one can have a mutation, the other not, and the writer fail
between them.  Overlapping resynchronisations are left to the theorems, which
hold for any number of them, and to the first finding.  A single text is enough because a deletion is the
other value a document can be given.  In `recovery` three generations let late
requests of two writes and a gap survive into the calm phase.  At the
coordinator, two shards are the least for a partial failure of a fan-out, one
replica for failover, two writes for a stale copy of an acknowledged one; what
has two paths is checked on one shard because the paths do not interact across
shards.  `vector_index` starts from a capacity of 1 instead of
`_INITIAL_CAPACITY` so that four documents make the matrix grow twice, and every
order of insertion, replacement and swap of four rows occurs.  In `ranking`, four
documents are one more than the candidate depth, so lists are cut off with ties at
the cut, two shards split them in every way (an empty shard among them), texts of 0, 1 and
2 tokens give zero, equal and different lengths, and a query repeats a term; `rrf_k` is 1
instead of 60 and the depth 3 instead of 100 so that small ranks weigh differently and
cuts happen.  In `engine` one thread is in a method and the other waits, queries or
crashes with it; a second document tells half a corpus from a whole one.  In
`cluster` the replica ports begin 2 above the primaries' instead of 100, so that with
three shards a replica's port is a primary's (101 shards in the code); the
coordinator's port is a free one or that of a primary; two faults let a node stop
while the launcher waits for another and a second one fail during a probe.  The
hand-written settings are all of up to two entries from three addresses and the
blank, in up to two groups: repetitions, overlaps, gaps, unequal and missing groups.

`CHECK_DEADLOCK FALSE` is used in `recovery`, where a shard that has healed has
nothing left to do, and in `cluster`, where a launcher that has ended has not.

**Fairness.**  `ReplicationRecovery`: the thread that holds the Replicator's lock
goes on (each request has `replication_timeout`); once the faults are over the
operator starts what is down, restarts a degraded primary and asks for a
resynchronisation, and the replica's threads run.  Nothing is assumed while the
faults last, and nothing of clients.  Writes go on in the calm phase.  One that the
replica refuses between its export and its installation leaves it one behind, and
the next one finds a gap and puts it out of sync again; `RecoveryConverges` holds
because each such round uses up a write and writes are bounded.  An endless stream
of writes that falls between export and installation every time would keep the
replica out for ever; the code has nothing against that but the operator's retries.
`Coordinator`: weak fairness of each leg, of each round and of the answer,
because every await of the coordinator is an HTTP request with a timeout; none
for clients, shards or writes that were given up.  `SearchEngine`: weak fairness of
the steps of a thread that is in a method, because threads are scheduled and
storage and the model return or raise; none for calls to arrive.  `Cluster`: the
launcher runs and its timeouts expire, and a process that was sent SIGKILL exits;
nothing is assumed of nodes, which may never become ready and may ignore SIGTERM.

## 4. The proofs

Every invariant, action property and refinement that a passing run checks is
also a theorem, for every value of the constants (four of them under a
hypothesis, `OneResync`, that finding 1 shows to be necessary). Each rests on an
inductive invariant, proved action by action. What the invariants add to the
properties:

**Replication** (`ReplicationProofs`), for any number of replicas, documents,
texts and mutations:

* `TypeCorrect`, from `TypeInv` (the types, and the writer's target while it
  waits).
* `GenerationsNameCorpora`, `PrimaryMostAdvanced`, `ReadyServesStorage` from
  `HistoryInv`, for any number of overlapping resynchronisations. None of the
  three is inductive. That a replica applying g+1 gets the corpus that the
  primary had at g+1 needs: every request under way, and the writer's own
  mutation, is what led from `history[g-1]` to `history[g]`
  (`RequestsCommitted`, `WriterCommitted`); the primary's memory is never behind
  its disk while it runs (`PrimaryGeneration`); every snapshot that a thread
  holds is an entry of the history (`SnapshotsCommitted`); and the startup
  thread is alone in its process (`BootAlone`).
* `AckedWritesSurvive`, `RecoveredReplicaIsCurrent`, `GenerationsNeverFall` from
  `ForwardInv`, under the hypothesis `OneResync`: a replica serves at most one
  resync request at a time. The code does not enforce it and the properties fail
  without it (finding 1). The invariant says that a snapshot about to be
  installed is not behind the database it replaces (`SyncForward`: while a
  thread is between export and installation the replica is not READY, so it
  cannot apply a mutation), and that the replicas the writer has passed hold the
  mutation (`WriterProgress`).
* `ReplicationImplementsLog`: with `OneResync`, the initial states of
  `Replication` map to those of `ShardLog` and every step to a step or a
  stutter.
* `RecoveryIsReplication`: `ReplicationRecovery` implements `Replication`, so
  what is proved of the latter holds in the environment of the liveness
  properties too.

**SearchEngine** (`SearchEngineProofs`), for any documents, texts and threads:

* `EngineTypes`, `EngineConsistent`, `AnswersAreAtomic`: `EngineInv` is
  inductive. Neither of the last two is: in the middle of a method the
  structures do differ. The invariant says that only the holder of the lock is
  in a method (`Exclusive`) and, for each method, what it owes: a query runs on
  a consistent engine and has seen nothing else (`ReadInv`); after a commit
  every structure that has not followed is exactly one application of the
  mutation away from the database (`FollowInv`); a rebuild is not served before
  every structure is in place (`RebuildInv`).
* `EngineMethodsAreAtomic`: `EngineAtomicity` implements `AtomicEngine`.
  `ShownInv` adds to `EngineInv` what `shown` has to do with the method under
  way: before the commit it is the engine as it is, after it the corpus before
  the mutation, during a resynchronisation the replica before it. Steps that
  keep the lock stutter (`InsideStep`); the step that gives it back takes the
  abstract action of the outcome (`OutsideStep`).

**Coordinator** (`CoordinatorProofs`), for any number of shards, copies, writes
and documents: `CoordinatorTypes`, `CoordinatorReadsAreFresh`,
`CoordinatorRoundsAgree` and `CoordinatorShardsAreLogs`. `CoordinatorInv`
follows a write through the copies: those its primary has passed hold it
(`WriteInv`), so an acknowledged write is on every copy, and the acknowledged
ones that a read has to show are too (`AckInv`); a leg of a read has been told
something fresh, and the copy it is pinned to is still at the generation it
answered, unless a write that was given up has changed the shard from outside
(`LegInv`); legs exist only while a read holds the lock (`OpInv`). That a commit
stays within the generations is a pigeonhole argument: every generation of a
shard is a different write's (`GenerationsAreWrites`, `RoomForCommit`).

**Cluster** (`ClusterProofs`), for any number of shards, any arguments and any
hand-written settings: `ClusterTypes`, `ClusterAnnounced`,
`ClusterTopologySound`, `ClusterReadyReportsHold`, `ClusterQuietReportsExact`.
`ClusterInv` says how far the launcher has got (`LaunchInv`), that only what was
asked for is started (`StartInv`), that what it has waited for was ready, except
a replica that has a primary's port (`SeenInv`), that a coordinator that is up
works with settings it accepted (`UpInv`), and what the answers of a probe under
way are worth, lost ones included (`ProbeInv`). Under it lie lemmas on address
lists: what `Entries` keeps of a list with blanks and where each entry ends up
(`CountSteps`, `EntriesFacts`, `InFront`), that the copies of an accepted
topology are all different (`DistinctCopies`, `AcceptedTopology`) and that the
launcher's own settings are well formed (`LauncherSettings`).

**ExactVectorIndex** (`VectorIndexProofs`), for any documents, embeddings and
initial capacity: `IndexTypes`, `IndexIsValid`, `IndexImplementsMap`,
`SearchIsAlwaysExact` and `ValidateIsAlwaysComplete`. `IndexInv` (types, and
rows and positions are inverse) is inductive; under it each operation is the
map's operation, growth and swaps included. The search is exact because the rows
are ordered strictly by their hits, exactly as their documents are preferred
(`RowsAreOrdered`). `validate` compares only lengths and looks only from rows to
positions; `ValidMeansInverse` shows that counting makes up for the rest.

**InvertedIndex** (`InvertedIndexProofs`), for any documents, texts and shards:
`InvertedIndexTypes`, `IndexAlwaysDerived`, `ValidateIsExact` and
`ShardStatsMerge`. `DerivedInv` (the corpus has its type, and the three maps are
the functions of it that a rebuild computes) is inductive, and with it
`CountInv` (the corpus is finite, the total is the sum of the lengths); the two
together give the types and that the whole index is derived. A sum over a corpus
is the sum of the sums over its parts (`SumParts`), which is all that merging
statistics needs; that `validate` refuses every damaged entry is one lemma per
structure (`TotalsAreSeen`, `FrequencyIsSeen`, `ListsAreSeen`,
`LostTermIsSeen`).

**Ranking** (`RankingProofs`), for any corpus, routing, query, limit and depth:

* `SearchIsAlwaysSingleNode`, `HybridIsAlwaysSingleNode`. A document's score
  depends on its own postings and on the merged statistics (`ScoresAgree`,
  `StatsAgree`), so the shards' hits are a partition of the single node's.
  Merging is exact although each shard sends `limit` hits only: a hit with fewer
  than `limit` hits ahead of it in all has fewer in its shard, so it is sent,
  and what is ahead of it is sent too (`BestOfParts`, `FirstPlacesAgree`).
* `FusionAlwaysKeepsAgreement`. Reciprocal ranks over the common denominator are
  whole numbers that fall strictly with the rank (`RanksDivide`,
  `ReciprocalsFall`), so a document that both lists rank higher is worth more
  (`DominatingIsWorthMore`).

**How data is handled.** The provers cannot instantiate an induction theorem.
What is needed by induction is derived from the least number with a property
(`LeastNatural`, `UpTo`) and, for sums over finite sets, from a smallest set
that breaks it (`SmallerFirst`). Recursive functions are shown to satisfy their
equations in the same way (`EntriesDefined`, `DenominatorDefined`).

**Assumptions on constants** are `ConstantAssumption`, `EngineAssumption`,
`CoordinatorAssumption`, `ClusterAssumption`, `VectorAssumption`,
`SearchAssumption`, `TextAssumption` and `RankingAssumption`. They give the
constants their types and say what the code gives for certain: there is at least
one shard (`Settings.shard_count`), a vocabulary and a set of shards are finite,
`rrf_k` and the multiplier are positive (`FusionConfig`) and so is the depth
(100 everywhere), a blank entry of a URL list is no URL, and a list of replica
groups has at least one, since `split` never returns an empty list. `Docs # {}`
in three of them makes a placeholder mutation possible. TLC evaluates them on
the runs.

**Only model-checked**: `LockIsReleased`, `RecoveryConverges`, `OperationsEnd`,
`LockIsFreed` and `LauncherSettles`. They are liveness properties; fairness is
defined with `ENABLED`, which is out of the prover's reach.

## 5. Findings

Each is a run that is expected to be violated, with the line of the
documentation that it contradicts.

1. `overlapping_resyncs_lose_writes`: two overlapping `POST
   /internal/replica/resync` undo an acknowledged write on a READY replica.  The
   slower request installs a snapshot that it exported before the write
   (`replication.py:231-238`; contradicts `docs/consistency.md:23`).
2. `lagging_replica`: a replica that missed a mutation does not know it and
   goes on serving until a later mutation or a restart (contradicts
   `docs/consistency.md:97`).  What it lacks was never acknowledged.
3. `late_write_between_rounds`: a write that timed out at the coordinator is
   committed between the two rounds of the next search (contradicts
   `docs/consistency.md:212`).
4. `hybrid_reads_two_copies`: the two halves of a hybrid search may describe
   copies that differ (contradicts `docs/consistency.md:245`).

### Observations

Seen while modelling, without a run of their own:

* `docs/consistency.md:157` says that with a replica out of sync writes work.
  `_classify_generation_locked` refuses the mutation (`ApplyGap`, `ApplyRefused`) and
  `_replicate` then fails the write, as with a replica that is down.
* `run_cluster.py` does not compare `--coordinator-port` with the nodes' ports.  With
  `--base-port 8000` and the default coordinator port, the coordinator cannot bind and
  exits, the primary on 8000 answers the launcher's last poll, and a cluster without a
  coordinator is announced.  `AnnouncedWholeCluster` says what still holds then.
* In the same way an older process that still holds a port answers for the new
  one; `Cluster` starts with free ports.
* `process.kill()` in the launcher's `finally` clause is not waited for, and a second
  Ctrl-C during that clause leaves it.
* `_check_topology` compares URLs as texts while `HttpShardClient` strips a trailing
  slash, so `http://a:1` and `http://a:1/` pass for two copies.
* `SearchEngine.validate` compares the documents of index and vectors with the cache by
  id only; a degraded engine whose index or vectors kept the old text of a replaced
  document passes it.  `ReadyIsConsistent` is the stronger statement.
* A delete retried after a 503 is answered 404, while a replica that missed the
  first attempt may still serve the document (a consequence of finding 2).

## 6. Plan

Done, in this order: `ShardLog`, `Replication`, `ReplicationRecovery` with their
theorems; `VectorMap`, `VectorIndex`, `VectorSearch`; `InvertedIndex`;
`Coordinator`; `SearchEngine` with its theorems; `Ranking`; `Topology` and `Cluster`;
`AtomicEngine` and `EngineAtomicity`; both `validate` methods.

Then the proofs: `ReplicationRecovery`, `EngineAtomicity`, `CoordinatorProofs`, `ClusterProofs`,
`FiniteSetLemmas`, the rest of `VectorIndexProofs` and `InvertedIndexProofs`, and
`RankingProofs`.

Left: invariants of the situations that the liveness properties are about (which steps a
writer that holds the lock can take, that a round of recovery uses up a write), short of
`ENABLED` itself; the properties behind the findings, proved where their hypotheses hold.

## 7. Not modelled

Text analysis (a document is its bag of terms), floating point and the logarithm
of BM25, the numbers of embeddings and the identity of the model (a copy with another
model is a copy that refuses), HTTP encoding and error texts, request validation,
logging, the SQLite schema, hashing of document ids (routing is an arbitrary
constant function), the demonstration, evaluation and benchmark scripts.  They are
pure or pure I/O; where they can fail, the models let them fail.  A primary that
loses its disk is not modelled: the branch of `synchronize` for a replica ahead of its
primary exists for that case and is shown unreachable without it.

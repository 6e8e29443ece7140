----------------------------- MODULE AtomicEngine -----------------------------
(***************************************************************************)
(* A SearchEngine as Replication takes it: a database and a memory that    *)
(* change together, one method at a time.  Each action is what one of      *)
(* Replication's does to one copy.  The memory is the document cache and   *)
(* the generation; the index and the vectors cannot be told from the cache *)
(* in a READY engine.                                                      *)
(***************************************************************************)
EXTENDS Integers

CONSTANTS Docs, Texts, NoText, MaxGeneration

VARIABLES
    role,       \* settings.replica_role
    engine      \* the database, the memory and the NodeState

Corpora == [Docs -> Texts \cup {NoText}]
Snapshots == [docs : Corpora, gen : 0..MaxGeneration]
Empty == [docs |-> [d \in Docs |-> NoText], gen |-> 0]

AInit ==
    /\ role \in {"primary", "replica"}
    /\ engine = [store |-> Empty, mem |-> Empty, state |-> "starting"]

\* The snapshot after one more mutation.
After(snapshot, d, text) ==
    [docs |-> [snapshot.docs EXCEPT ![d] = text], gen |-> snapshot.gen + 1]

\* Commit, ApplyNext: only a READY engine, one generation at a time; what it
\* serves is what it has stored.
Mutated ==
    /\ engine.state = "ready"
    /\ engine.mem = engine.store
    /\ \E d \in Docs, text \in Texts \cup {NoText} :
          LET next == After(engine.store, d, text)
          IN  engine' = [store |-> next, mem |-> next, state |-> "ready"]

\* CommitDegrades, ApplyDegrades: the mutation is durable, and nobody may rely
\* on the memory.  A primary has noted the generation, a replica has not.
MutatedDegraded ==
    /\ engine.state = "ready"
    /\ \E d \in Docs, text \in Texts \cup {NoText}, docs \in Corpora :
          LET next == After(engine.store, d, text)
              gen == IF role = "primary" THEN next.gen ELSE engine.mem.gen
          IN  engine' = [store |-> next, mem |-> [docs |-> docs, gen |-> gen],
                         state |-> "degraded"]

\* ApplyGap, BeginResync, GiveUp: a replica goes out of service.
Marked ==
    /\ role = "replica" /\ engine.state # "starting"
    /\ \E state \in {"recovering", "out_of_sync"} : engine' = [engine EXCEPT !.state = state]

\* Install: another corpus, and back in service with it.
Installed ==
    /\ role = "replica" /\ engine.state # "starting"
    /\ \E snapshot \in Snapshots :
          engine' = [store |-> snapshot, mem |-> snapshot, state |-> "ready"]

\* InstallFails: in the transaction, or after it; the generation stays.
InstallFailed ==
    /\ role = "replica" /\ engine.state # "starting"
    /\ \E stored \in Snapshots : \E docs \in {engine.mem.docs, stored.docs} :
          engine' = [store |-> stored, mem |-> [engine.mem EXCEPT !.docs = docs],
                     state |-> "recovering"]

\* Stop, perhaps in a method whose transaction is there already: a mutation, or
\* a replica's new corpus.  The memory is gone.
Stopped ==
    /\ engine.state # "starting"
    /\ \E stored \in Snapshots :
          /\ \/ stored = engine.store
             \/ engine.state = "ready" /\ \E d \in Docs, text \in Texts \cup {NoText} :
                                             stored = After(engine.store, d, text)
             \/ role = "replica"
          /\ engine' = [store |-> stored, mem |-> Empty, state |-> "starting"]

\* StartPrimary, StartReplica: the memory is rebuilt from the database; a
\* primary serves, a replica if its primary agrees.
Started ==
    /\ engine.state = "starting"
    /\ \E state \in IF role = "primary" THEN {"ready"}
                    ELSE {"ready", "recovering", "out_of_sync"} :
          engine' = [store |-> engine.store, mem |-> engine.store, state |-> state]

ANext ==
    /\ \/ Mutated \/ MutatedDegraded \/ Marked \/ Installed \/ InstallFailed
       \/ Stopped \/ Started
    /\ UNCHANGED role

ASpec == AInit /\ [][ANext]_<<role, engine>>

=============================================================================

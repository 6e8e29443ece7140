----------------------------- MODULE SearchEngine -----------------------------
(***************************************************************************)
(* The inside of one node: SearchEngine with its storage and the three     *)
(* structures derived from it, step by step.  Replication takes a method   *)
(* of the engine for one atomic step; here is why it may.                  *)
(*                                                                         *)
(* A derived structure is a map from documents to the text it was built    *)
(* from (InvertedIndex and VectorIndex say why).  Analysis and embedding   *)
(* come before the lock or before the commit, and change nothing when they *)
(* fail.                                                                   *)
(***************************************************************************)
EXTENDS Integers, Sequences

CONSTANTS
    Docs, Texts, NoText,    \* documents, their texts, no document
    Threads,                \* threads that serve requests
    Nobody,                 \* the holder of a lock that is free
    MaxGeneration           \* bound: mutations

ASSUME EngineAssumption ==
    /\ Docs # {}
    /\ NoText \notin Texts
    /\ Nobody \notin Threads
    /\ MaxGeneration \in Nat

Generations == 0..MaxGeneration
Corpora == [Docs -> Texts \cup {NoText}]
EmptyCorpus == [d \in Docs |-> NoText]
Mutations == [doc : Docs, text : Texts \cup {NoText}]
Apply(corpus, op) == [corpus EXCEPT ![op.doc] = op.text]

\* The queries, and the structures each of them reads, in order.
Reads == [search   |-> <<"index", "cache">>,
          semantic |-> <<"vectors", "cache">>,
          hybrid   |-> <<"index", "cache", "vectors", "cache">>,
          stats    |-> <<"index">>,
          export   |-> <<"cache">>]
Queries == DOMAIN Reads

VARIABLES
    role,       \* settings.replica_role
    store,      \* the database: corpus and generation
    derived,    \* derived.cache, .index, .vectors: _documents, _index, _vectors
    gen,        \* _generation
    state,      \* _state
    lock,       \* who holds _lock
    call        \* call[t]: the method that thread t is in

vars == <<role, store, derived, gen, state, lock, call>>

Structures == {"cache", "index", "vectors"}
NothingDerived == [s \in Structures |-> EmptyCorpus]
NoCall == [pc |-> "idle", op |-> [doc |-> CHOOSE d \in Docs : TRUE, text |-> NoText],
           gen |-> 0, snapshot |-> EmptyCorpus, todo |-> << >>, seen |-> {}]

Calls == [pc : {"idle", "read", "commit", "follow", "replace", "rebuild"},
          op : Mutations, gen : Generations, snapshot : Corpora,
          todo : Seq(Structures), seen : SUBSET Corpora]

\* The types of the variables.
TypeOK ==
    /\ role \in {"primary", "replica"}
    /\ store \in [docs : Corpora, gen : Generations]
    /\ derived \in [Structures -> Corpora]
    /\ gen \in Generations
    /\ state \in {"starting", "recovering", "ready", "degraded", "out_of_sync"}
    /\ lock \in Threads \cup {Nobody}
    /\ call \in [Threads -> Calls]

Init ==
    /\ role \in {"primary", "replica"}
    /\ store = [docs |-> EmptyCorpus, gen |-> 0]
    /\ derived = NothingDerived
    /\ gen = 0
    /\ state = "starting"
    /\ lock = Nobody
    /\ call = [t \in Threads |-> NoCall]

-----------------------------------------------------------------------------
\* A method that does not wait for the lock.
EnterUnlocked(t, c) ==
    /\ state # "starting"
    /\ call[t].pc = "idle"
    /\ lock' = t
    /\ call' = [call EXCEPT ![t] = c]

\* with self._lock: thread t is in a method, in the state `c'.
Enter(t, c) ==
    /\ state # "starting"
    /\ lock = Nobody
    /\ call[t].pc = "idle"
    /\ lock' = t
    /\ call' = [call EXCEPT ![t] = c]

\* The method returns or raises.
Leave(t) ==
    /\ lock' = Nobody
    /\ call' = [call EXCEPT ![t] = NoCall]

At(t, pc) == lock = t /\ call[t].pc = pc
Goto(t, pc, todo) == call' = [call EXCEPT ![t].pc = pc, ![t].todo = todo]

\* The order in which the structures follow a mutation, and that in which a
\* rebuild puts them in place.
FollowOrder == <<"cache", "index", "vectors">>
SwapOrder == <<"index", "cache", "vectors">>

-----------------------------------------------------------------------------
(* Mutations *)

\* index_document, delete_document on a primary: the next generation.  A
\* deletion must find its document in the cache.
Mutate(t, op) ==
    /\ role = "primary"
    /\ state = "ready"
    /\ gen < MaxGeneration
    /\ op.text = NoText => derived["cache"][op.doc] # NoText
    /\ Enter(t, [NoCall EXCEPT !.pc = "commit", !.op = op, !.gen = gen + 1])
    /\ UNCHANGED <<role, store, derived, gen, state>>

\* apply_replicated_put, apply_replicated_delete on a replica: the generation
\* that was sent must be the next one.
ApplyReplicated(t, op) ==
    /\ role = "replica"
    /\ state = "ready"
    /\ gen < MaxGeneration
    /\ Enter(t, [NoCall EXCEPT !.pc = "commit", !.op = op, !.gen = gen + 1])
    /\ UNCHANGED <<role, store, derived, gen, state>>

\* A later generation was sent: a mutation has been missed.
ApplyGap ==
    /\ role = "replica"
    /\ state # "starting"
    /\ lock = Nobody
    /\ gen + 1 < MaxGeneration
    /\ state' = "out_of_sync"
    /\ UNCHANGED <<role, store, derived, gen, lock, call>>

\* The transaction: the document and the generation.  A primary notes the
\* generation at once, a replica when all has been done.
Commit(t) ==
    /\ At(t, "commit")
    /\ store' = [docs |-> Apply(store.docs, call[t].op), gen |-> call[t].gen]
    /\ gen' = IF role = "primary" THEN call[t].gen ELSE gen
    /\ Goto(t, "follow", FollowOrder)
    /\ UNCHANGED <<role, derived, state, lock>>

\* StorageError: nothing has changed.
CommitFails(t) ==
    /\ At(t, "commit")
    /\ Leave(t)
    /\ UNCHANGED <<role, store, derived, gen, state>>

\* _apply_derived_locked, _remove_derived_locked: the structures follow, one
\* after the other.
Follow(t) ==
    LET s == Head(call[t].todo) IN
    /\ At(t, "follow")
    /\ call[t].todo # << >>
    /\ derived' = [derived EXCEPT ![s] = Apply(derived[s], call[t].op)]
    /\ call' = [call EXCEPT ![t].todo = Tail(call[t].todo)]
    /\ UNCHANGED <<role, store, gen, state, lock>>

\* A failure that is reported to the caller and to nobody else.
FollowFailsSilently(t) ==
    /\ At(t, "follow")
    /\ call[t].todo # << >>
    /\ Leave(t)
    /\ UNCHANGED <<role, store, derived, gen, state>>

\* A structure raises, and may have lost or kept anything it had for the
\* document: _degrade_on_failure.
FollowFails(t) ==
    LET s == Head(call[t].todo) IN
    /\ At(t, "follow")
    /\ call[t].todo # << >>
    /\ \E rest \in Texts \cup {NoText} :
          derived' = [derived EXCEPT ![s] = Apply(derived[s], [call[t].op EXCEPT !.text = rest])]
    /\ state' = "degraded"
    /\ Leave(t)
    /\ UNCHANGED <<role, store, gen>>

\* The method returns.
Mutated(t) ==
    /\ At(t, "follow")
    /\ call[t].todo = << >>
    /\ gen' = call[t].gen
    /\ Leave(t)
    /\ UNCHANGED <<role, store, derived, state>>

-----------------------------------------------------------------------------
(* Queries *)

\* search, semantic_search, hybrid_search, corpus_stats and stats,
\* export_snapshot: only a READY engine answers.
Query(t, kind) ==
    /\ state = "ready"
    /\ Enter(t, [NoCall EXCEPT !.pc = "read", !.todo = Reads[kind]])
    /\ UNCHANGED <<role, store, derived, gen, state>>

\* A query that takes the lock for each structure anew.
ReadUnlocked(t) ==
    /\ lock \in {t, Nobody}
    /\ call[t].pc = "read"
    /\ call[t].todo # << >>
    /\ call' = [call EXCEPT ![t].seen = @ \cup {derived[Head(call[t].todo)]},
                            ![t].todo = Tail(call[t].todo)]
    /\ lock' = IF Len(call[t].todo) = 1 THEN t ELSE Nobody
    /\ UNCHANGED <<role, store, derived, gen, state>>

\* A hybrid search that calls semantic_search, which takes the lock again.
ReadTakesLockAgain(t) ==
    /\ At(t, "read")
    /\ call[t].todo # << >>
    /\ Len(call[t].todo) # 2 \/ call[t].seen = {}
    /\ call' = [call EXCEPT ![t].seen = @ \cup {derived[Head(call[t].todo)]},
                            ![t].todo = Tail(call[t].todo)]
    /\ UNCHANGED <<role, store, derived, gen, state, lock>>

\* The next structure is read.
Read(t) ==
    /\ At(t, "read")
    /\ call[t].todo # << >>
    /\ call' = [call EXCEPT ![t].seen = @ \cup {derived[Head(call[t].todo)]},
                            ![t].todo = Tail(call[t].todo)]
    /\ UNCHANGED <<role, store, derived, gen, state, lock>>

\* The answer is returned.
Answer(t) ==
    /\ At(t, "read")
    /\ call[t].todo = << >>
    /\ Leave(t)
    /\ UNCHANGED <<role, store, derived, gen, state>>

-----------------------------------------------------------------------------
(* Resynchronisation *)

\* mark_recovering and mark_out_of_sync, by the synchronizer.
Mark ==
    /\ role = "replica"
    /\ state # "starting"
    /\ lock = Nobody
    /\ state' \in {"recovering", "out_of_sync"}
    /\ UNCHANGED <<role, store, derived, gen, lock, call>>

\* resynchronize: the snapshot is whatever the primary has exported.
Resynchronize(t, corpus, g) ==
    /\ role = "replica"
    /\ Enter(t, [NoCall EXCEPT !.pc = "replace", !.snapshot = corpus, !.gen = g])
    /\ state' = "recovering"
    /\ UNCHANGED <<role, store, derived, gen>>

\* replace_all: one transaction.
Replace(t) ==
    /\ At(t, "replace")
    /\ store' = [docs |-> call[t].snapshot, gen |-> call[t].gen]
    /\ Goto(t, "rebuild", SwapOrder)
    /\ UNCHANGED <<role, derived, gen, state, lock>>

\* _rebuild_locked builds all structures aside and then puts them in place, one
\* after the other, ...
Rebuild(t) ==
    /\ At(t, "rebuild")
    /\ call[t].todo # << >>
    /\ derived' = [derived EXCEPT ![Head(call[t].todo)] = store.docs]
    /\ call' = [call EXCEPT ![t].todo = Tail(call[t].todo)]
    /\ UNCHANGED <<role, store, gen, state, lock>>

\* A rebuild that counts itself as a mutation.
ServeAgainAdvanced(t) ==
    /\ At(t, "rebuild")
    /\ call[t].todo = << >>
    /\ gen' = store.gen + 1
    /\ state' = "ready"
    /\ Leave(t)
    /\ UNCHANGED <<role, store, derived>>

\* ... and reads the generation last.  The engine serves again.
ServeAgain(t) ==
    /\ At(t, "rebuild")
    /\ call[t].todo = << >>
    /\ gen' = store.gen
    /\ state' = "ready"
    /\ Leave(t)
    /\ UNCHANGED <<role, store, derived>>

\* The transaction fails, or the building of a structure before any of them is
\* in place, or the reading of the generation when all are: the engine goes on
\* RECOVERING with what it has.
ResynchronizeFails(t) ==
    /\ \/ At(t, "replace")
       \/ At(t, "rebuild") /\ call[t].todo \in {SwapOrder, << >>}
    /\ Leave(t)
    /\ UNCHANGED <<role, store, derived, gen, state>>

-----------------------------------------------------------------------------
(* The process *)

\* It stops, in the middle of anything.
Stop ==
    /\ state # "starting"
    /\ state' = "starting"
    /\ derived' = NothingDerived
    /\ gen' = 0
    /\ lock' = Nobody
    /\ call' = [t \in Threads |-> NoCall]
    /\ UNCHANGED <<role, store>>

\* initialize rebuilds everything from storage.  A primary is READY then; a
\* replica is what its check against the primary makes of it.
Start ==
    /\ state = "starting"
    /\ derived' = [s \in Structures |-> store.docs]
    /\ gen' = store.gen
    /\ state' \in IF role = "primary" THEN {"ready"} ELSE {"ready", "recovering", "out_of_sync"}
    /\ UNCHANGED <<role, store, lock, call>>

-----------------------------------------------------------------------------
\* The thread that is in a method goes on.
Step(t) ==
    \/ Commit(t) \/ CommitFails(t) \/ Follow(t) \/ FollowFails(t) \/ Mutated(t)
    \/ Read(t) \/ Answer(t)
    \/ Replace(t) \/ Rebuild(t) \/ ServeAgain(t) \/ ResynchronizeFails(t)

Next ==
    \/ \E t \in Threads :
          \/ \E op \in Mutations : Mutate(t, op) \/ ApplyReplicated(t, op)
          \/ \E kind \in Queries : Query(t, kind)
          \/ \E corpus \in Corpora, g \in Generations : Resynchronize(t, corpus, g)
          \/ Step(t)
    \/ ApplyGap \/ Mark \/ Stop \/ Start

\* A thread that runs is scheduled, and storage and the model answer.
Fairness == \A t \in Threads : WF_vars(Step(t))

Spec == Init /\ [][Next]_vars
FairSpec == Spec /\ Fairness

-----------------------------------------------------------------------------
(* Properties *)

\* What validate() is there to check, and more: between two methods, a READY
\* engine's cache, index and vectors hold exactly the stored documents, with
\* the stored texts, and it is at the stored generation, whatever failed, at
\* whatever step, in the methods before.
ReadyIsConsistent ==
    state = "ready" /\ lock = Nobody =>
        /\ \A s \in Structures : derived[s] = store.docs
        /\ gen = store.gen

\* A query is atomic: everything it has read, from one structure or from
\* several, describes the one corpus that is in the database when it answers.
\* So no answer shows a write that a crash could undo, or half of one, and no
\* hit is without its text.
QueriesAreAtomic ==
    [][\A t \in Threads : Answer(t) => call[t].seen = {store.docs}]_vars

\* The lock, which is not reentrant, is always given back.
LockIsFreed == lock # Nobody ~> lock = Nobody

=============================================================================

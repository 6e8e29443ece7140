-------------------------- MODULE SearchEngineProofs --------------------------
(***************************************************************************)
(* A READY engine is consistent with its storage, its queries are atomic   *)
(* and it implements AtomicEngine, for any documents, texts, threads and   *)
(* number of mutations.                                                    *)
(***************************************************************************)
EXTENDS EngineAtomicity, TLAPS

\* Only the holder of the lock is in a method; nobody is while the process is
\* not running.
Exclusive ==
    /\ \A t \in Threads : call[t].pc # "idle" => lock = t
    /\ state = "starting" => lock = Nobody

Consistent ==
    /\ \A s \in Structures : derived[s] = store.docs
    /\ gen = store.gen

\* The structures that a method has still to bring up to date.
Pending(c) == {c.todo[i] : i \in 1..Len(c.todo)}

\* A query sees a consistent engine and has seen nothing else.
ReadInv(c) ==
    c.pc = "read" =>
        /\ state = "ready"
        /\ Consistent
        /\ c.seen \subseteq {store.docs}
        /\ c.seen = {} => c.todo # << >>

\* A mutation begins with a consistent engine, ...
CommitInv(c) ==
    c.pc = "commit" => state = "ready" /\ Consistent

\* ... and when it has been committed, every structure is one mutation behind
\* or has followed already.
FollowInv(c) ==
    c.pc = "follow" =>
        /\ state = "ready"
        /\ c.gen = store.gen
        /\ \A s \in Structures : Apply(derived[s], c.op) = store.docs
        /\ \A s \in Structures \ Pending(c) : derived[s] = store.docs

\* A resynchronisation does not serve before every structure is in place.
RebuildInv(c) ==
    /\ c.pc \in {"replace", "rebuild"} => state = "recovering"
    /\ c.pc = "rebuild" => \A s \in Structures \ Pending(c) : derived[s] = store.docs

MethodInv ==
    \A t \in Threads :
        ReadInv(call[t]) /\ CommitInv(call[t]) /\ FollowInv(call[t]) /\ RebuildInv(call[t])

\* The inductive invariant.
EngineInv == TypeOK /\ Exclusive /\ ReadyIsConsistent /\ MethodInv

-----------------------------------------------------------------------------
\* An idle call is a call, and satisfies what is said of methods.
LEMMA NoCallType == NoCall \in Calls /\ NoCall.pc = "idle"
  <1>1. (CHOOSE d \in Docs : TRUE) \in Docs
    BY EngineAssumption
  <1>2. << >> \in Seq(Structures)
    OBVIOUS
  <1> QED
    BY <1>1, <1>2, EngineAssumption
    DEF NoCall, Calls, Mutations, Generations, Corpora, EmptyCorpus

\* A mutation leads from a corpus to a corpus, and applying it again changes
\* nothing.
LEMMA ApplyType ==
    ASSUME NEW c \in Corpora, NEW op \in Mutations
    PROVE  /\ Apply(c, op) \in Corpora
           /\ Apply(Apply(c, op), op) = Apply(c, op)
  BY DEF Apply, Corpora, Mutations

\* Every query has something to read.
LEMMA ReadsType ==
    ASSUME NEW kind \in Queries
    PROVE  Reads[kind] \in Seq(Structures) /\ Reads[kind] # << >>
  <1>1. kind \in {"search", "semantic", "hybrid", "stats", "export"}
    BY DEF Queries, Reads
  <1>2. CASE kind = "search"
    <2>1. Reads[kind] = <<"index", "cache">>
      BY <1>2 DEF Reads
    <2> QED BY <2>1 DEF Structures
  <1>3. CASE kind = "semantic"
    <2>1. Reads[kind] = <<"vectors", "cache">>
      BY <1>3 DEF Reads
    <2> QED BY <2>1 DEF Structures
  <1>4. CASE kind = "hybrid"
    <2>1. Reads[kind] = <<"index", "cache", "vectors", "cache">>
      BY <1>4 DEF Reads
    <2> QED BY <2>1 DEF Structures
  <1>5. CASE kind = "stats"
    <2>1. Reads[kind] = <<"index">>
      BY <1>5 DEF Reads
    <2> QED BY <2>1 DEF Structures
  <1>6. CASE kind = "export"
    <2>1. Reads[kind] = <<"cache">>
      BY <1>6 DEF Reads
    <2> QED BY <2>1 DEF Structures
  <1> QED BY <1>1, <1>2, <1>3, <1>4, <1>5, <1>6

\* What is left to do is again a sequence of structures.
LEMMA TailType ==
    ASSUME NEW c \in Calls, c.todo # << >>
    PROVE  Tail(c.todo) \in Seq(Structures)
  <1>1. c.todo \in Seq(Structures)
    BY DEF Calls
  <1> QED BY <1>1

\* When the first of the pending structures has been dealt with, the others are
\* pending.
LEMMA PendingTail ==
    ASSUME NEW c \in Calls, NEW d \in Calls, c.todo # << >>, d.todo = Tail(c.todo)
    PROVE  /\ Head(c.todo) \in Structures
           /\ Pending(c) \subseteq Pending(d) \cup {Head(c.todo)}
  <1>1. c.todo \in Seq(Structures) /\ Len(c.todo) \in Nat \ {0}
    BY DEF Calls
  <1>2. Head(c.todo) = c.todo[1] /\ Head(c.todo) \in Structures
    BY <1>1
  <1>3. ASSUME NEW i \in 1..Len(c.todo), i # 1
        PROVE  c.todo[i] \in Pending(d)
    <2>1. i - 1 \in 1..Len(d.todo) /\ d.todo[i - 1] = c.todo[i]
      BY <1>1, <1>3
    <2> QED BY <2>1 DEF Pending
  <1> QED BY <1>2, <1>3 DEF Pending

\* Both orders name every structure.
LEMMA OrdersComplete ==
    ASSUME NEW c \in Calls, c.todo \in {FollowOrder, SwapOrder}
    PROVE  Structures \subseteq Pending(c)
  <1>1. /\ Len(c.todo) = 3
        /\ {c.todo[1], c.todo[2], c.todo[3]} = Structures
    BY DEF FollowOrder, SwapOrder, Structures
  <1> QED BY <1>1 DEF Pending

\* Both orders are sequences of structures.
LEMMA OrdersType == FollowOrder \in Seq(Structures) /\ SwapOrder \in Seq(Structures)
  BY DEF FollowOrder, SwapOrder, Structures

-----------------------------------------------------------------------------
\* The initial states satisfy the invariant.
LEMMA InitEngine == Init => EngineInv
  <1> SUFFICES ASSUME Init PROVE EngineInv
    OBVIOUS
  <1>1. EmptyCorpus \in Corpora
    BY DEF EmptyCorpus, Corpora
  <1>2. TypeOK
    BY <1>1, NoCallType, EngineAssumption
    DEF Init, TypeOK, NothingDerived, Generations
  <1>3. \A t \in Threads : call[t] = NoCall
    BY DEF Init
  <1> QED
    BY <1>2, <1>3, NoCallType
    DEF Init, EngineInv, Exclusive, ReadyIsConsistent, MethodInv, ReadInv, CommitInv,
        FollowInv, RebuildInv

-----------------------------------------------------------------------------
\* A thread enters a method: the lock was free, so everyone else is idle.
LEMMA EnterFacts ==
    ASSUME EngineInv, NEW t \in Threads, NEW c \in Calls, Enter(t, c)
    PROVE  /\ call' \in [Threads -> Calls]
           /\ call'[t] = c
           /\ lock' = t
           /\ \A u \in Threads \ {t} : call'[u].pc = "idle"
  <1>1. \A u \in Threads : call[u].pc = "idle"
    BY EngineAssumption DEF EngineInv, Exclusive, Enter
  <1> QED BY <1>1 DEF Enter, EngineInv, TypeOK

\* A thread leaves its method: everyone is idle.
LEMMA LeaveFacts ==
    ASSUME EngineInv, NEW t \in Threads, lock = t, Leave(t)
    PROVE  /\ call' \in [Threads -> Calls]
           /\ lock' = Nobody
           /\ \A u \in Threads : call'[u].pc = "idle"
  <1>1. \A u \in Threads \ {t} : call[u].pc = "idle"
    BY DEF EngineInv, Exclusive
  <1> QED BY <1>1, NoCallType DEF Leave, EngineInv, TypeOK

\* With every call idle, nothing more is to be shown of methods.
LEMMA AllIdle ==
    ASSUME \A u \in Threads : call'[u].pc = "idle", lock' = Nobody
    PROVE  Exclusive' /\ MethodInv'
  BY DEF Exclusive, MethodInv, ReadInv, CommitInv, FollowInv, RebuildInv

\* The holder of the lock changes its call: everyone else is idle.
LEMMA HolderFacts ==
    ASSUME EngineInv, NEW t \in Threads, lock = t, NEW c \in Calls,
           call' = [call EXCEPT ![t] = c], lock' = lock
    PROVE  /\ call' \in [Threads -> Calls]
           /\ call'[t] = c
           /\ \A u \in Threads \ {t} : call'[u].pc = "idle"
           /\ lock # Nobody
  BY EngineAssumption DEF EngineInv, Exclusive, TypeOK

\* With one thread in a method, its own clause is all there is to show.
LEMMA OneBusy ==
    ASSUME NEW t \in Threads, \A u \in Threads \ {t} : call'[u].pc = "idle",
           lock' = t, state' # "starting", ReadInv(call[t])', CommitInv(call[t])',
           FollowInv(call[t])', RebuildInv(call[t])'
    PROVE  Exclusive' /\ ReadyIsConsistent' /\ MethodInv'
  <1>1. t # Nobody
    BY EngineAssumption
  <1> QED
    BY <1>1 DEF Exclusive, ReadyIsConsistent, MethodInv, ReadInv, CommitInv, FollowInv,
                RebuildInv

-----------------------------------------------------------------------------
(* Every step preserves the invariant. *)

(* Steps that enter a method. *)

\* A mutation begins with a READY, consistent engine.
LEMMA MutateInv ==
    ASSUME EngineInv, NEW t \in Threads, NEW op \in Mutations,
           Mutate(t, op) \/ ApplyReplicated(t, op)
    PROVE  EngineInv'
  <1> DEFINE c == [NoCall EXCEPT !.pc = "commit", !.op = op, !.gen = gen + 1]
  <1>1. gen + 1 \in Generations
    BY EngineAssumption DEF Mutate, ApplyReplicated, EngineInv, TypeOK, Generations
  <1>2. c \in Calls /\ c.pc = "commit"
    BY <1>1, NoCallType DEF Calls
  <1>3. /\ Enter(t, c)
        /\ state = "ready"
        /\ UNCHANGED <<role, store, derived, gen, state>>
    BY DEF Mutate, ApplyReplicated
  <1>4. Consistent
    BY <1>3 DEF EngineInv, ReadyIsConsistent, Consistent, Enter
  <1> HIDE DEF c
  <1>5. /\ call' \in [Threads -> Calls]
        /\ call'[t] = c
        /\ lock' = t
        /\ \A u \in Threads \ {t} : call'[u].pc = "idle"
    BY <1>2, <1>3, EnterFacts
  <1>6. TypeOK'
    BY <1>3, <1>5 DEF EngineInv, TypeOK
  <1>7. /\ ReadInv(call[t])' /\ CommitInv(call[t])'
        /\ FollowInv(call[t])' /\ RebuildInv(call[t])'
    BY <1>2, <1>3, <1>4, <1>5 DEF ReadInv, CommitInv, FollowInv, RebuildInv, Consistent
  <1> QED
    BY <1>3, <1>5, <1>6, <1>7, OneBusy DEF EngineInv

\* A query begins with a READY, consistent engine and has seen nothing.
LEMMA QueryInv ==
    ASSUME EngineInv, NEW t \in Threads, NEW kind \in Queries, Query(t, kind)
    PROVE  EngineInv'
  <1> DEFINE c == [NoCall EXCEPT !.pc = "read", !.todo = Reads[kind]]
  <1>1. c \in Calls /\ c.pc = "read" /\ c.todo # << >> /\ c.seen = {}
    BY ReadsType, NoCallType DEF Calls, NoCall
  <1>2. /\ Enter(t, c)
        /\ state = "ready"
        /\ UNCHANGED <<role, store, derived, gen, state>>
    BY DEF Query
  <1>3. Consistent
    BY <1>2 DEF EngineInv, ReadyIsConsistent, Consistent, Enter
  <1> HIDE DEF c
  <1>4. /\ call' \in [Threads -> Calls]
        /\ call'[t] = c
        /\ lock' = t
        /\ \A u \in Threads \ {t} : call'[u].pc = "idle"
    BY <1>1, <1>2, EnterFacts
  <1>5. TypeOK'
    BY <1>2, <1>4 DEF EngineInv, TypeOK
  <1>6. /\ ReadInv(call[t])' /\ CommitInv(call[t])'
        /\ FollowInv(call[t])' /\ RebuildInv(call[t])'
    BY <1>1, <1>2, <1>3, <1>4 DEF ReadInv, CommitInv, FollowInv, RebuildInv, Consistent
  <1> QED
    BY <1>2, <1>4, <1>5, <1>6, OneBusy DEF EngineInv

\* A resynchronisation takes the engine out of service.
LEMMA ResynchronizeInv ==
    ASSUME EngineInv, NEW t \in Threads, NEW corpus \in Corpora, NEW g \in Generations,
           Resynchronize(t, corpus, g)
    PROVE  EngineInv'
  <1> DEFINE c == [NoCall EXCEPT !.pc = "replace", !.snapshot = corpus, !.gen = g]
  <1>1. c \in Calls /\ c.pc = "replace"
    BY NoCallType DEF Calls
  <1>2. /\ Enter(t, c)
        /\ state' = "recovering"
        /\ UNCHANGED <<role, store, derived, gen>>
    BY DEF Resynchronize
  <1> HIDE DEF c
  <1>3. /\ call' \in [Threads -> Calls]
        /\ call'[t] = c
        /\ lock' = t
        /\ \A u \in Threads \ {t} : call'[u].pc = "idle"
    BY <1>1, <1>2, EnterFacts
  <1>4. TypeOK'
    BY <1>2, <1>3 DEF EngineInv, TypeOK
  <1>5. /\ ReadInv(call[t])' /\ CommitInv(call[t])'
        /\ FollowInv(call[t])' /\ RebuildInv(call[t])'
    BY <1>1, <1>2, <1>3 DEF ReadInv, CommitInv, FollowInv, RebuildInv
  <1> QED
    BY <1>2, <1>3, <1>4, <1>5, OneBusy DEF EngineInv

(* Steps of the thread that is in a method. *)

\* The transaction puts every structure one mutation behind.
LEMMA CommitStepInv ==
    ASSUME EngineInv, NEW t \in Threads, Commit(t)
    PROVE  EngineInv'
  <1> DEFINE c == [call[t] EXCEPT !.pc = "follow", !.todo = FollowOrder]
  <1>1. call[t] \in Calls /\ lock = t /\ call[t].pc = "commit"
    BY DEF EngineInv, TypeOK, Commit, At
  <1>2. /\ c \in Calls /\ c.pc = "follow" /\ c.todo = FollowOrder
        /\ c.op = call[t].op /\ c.gen = call[t].gen
    BY <1>1, OrdersType DEF Calls
  <1>3. /\ call' = [call EXCEPT ![t] = c]
        /\ lock' = lock /\ state' = state /\ derived' = derived /\ role' = role
        /\ store' = [docs |-> Apply(store.docs, call[t].op), gen |-> call[t].gen]
        /\ gen' \in {gen, call[t].gen}
    BY <1>1 DEF Commit, Goto, EngineInv, TypeOK
  <1>4. state = "ready" /\ Consistent
    BY <1>1 DEF EngineInv, MethodInv, CommitInv
  <1> HIDE DEF c
  <1>5. /\ call' \in [Threads -> Calls]
        /\ call'[t] = c
        /\ \A u \in Threads \ {t} : call'[u].pc = "idle"
    BY <1>1, <1>2, <1>3, HolderFacts
  <1>6. call[t].op \in Mutations /\ call[t].gen \in Generations
    BY <1>1 DEF Calls
  <1>7. TypeOK'
    BY <1>3, <1>5, <1>6, ApplyType DEF EngineInv, TypeOK
  <1>8. FollowInv(call[t])'
    <2>1. \A s \in Structures : Apply(derived[s], c.op) = store'.docs
      BY <1>2, <1>3, <1>4 DEF Consistent
    <2>2. Structures \subseteq Pending(c)
      BY <1>2, OrdersComplete
    <2> QED BY <1>2, <1>3, <1>4, <1>5, <2>1, <2>2 DEF FollowInv
  <1>9. ReadInv(call[t])' /\ CommitInv(call[t])' /\ RebuildInv(call[t])'
    BY <1>2, <1>5 DEF ReadInv, CommitInv, RebuildInv
  <1> QED
    BY <1>1, <1>3, <1>4, <1>5, <1>7, <1>8, <1>9, OneBusy DEF EngineInv

\* A structure that follows has the stored corpus, and stays with it.
LEMMA FollowStepInv ==
    ASSUME EngineInv, NEW t \in Threads, Follow(t)
    PROVE  EngineInv'
  <1> DEFINE c == [call[t] EXCEPT !.todo = Tail(call[t].todo)]
             s == Head(call[t].todo)
  <1>1. call[t] \in Calls /\ lock = t /\ call[t].pc = "follow" /\ call[t].todo # << >>
    BY DEF EngineInv, TypeOK, Follow, At
  <1>2. /\ c \in Calls /\ c.pc = "follow" /\ c.todo = Tail(call[t].todo)
        /\ c.op = call[t].op /\ c.gen = call[t].gen
    BY <1>1, TailType DEF Calls
  <1>3. /\ call' = [call EXCEPT ![t] = c]
        /\ lock' = lock
        /\ UNCHANGED <<role, store, gen, state>>
        /\ derived' = [derived EXCEPT ![s] = Apply(derived[s], call[t].op)]
    BY <1>1 DEF Follow, EngineInv, TypeOK
  <1>4. s \in Structures /\ Pending(call[t]) \subseteq Pending(c) \cup {s}
    BY <1>1, <1>2, PendingTail
  <1>5. FollowInv(call[t]) /\ derived \in [Structures -> Corpora] /\ call[t].op \in Mutations
    BY <1>1 DEF EngineInv, MethodInv, TypeOK, Calls
  <1> HIDE DEF c, s
  <1>6. /\ call' \in [Threads -> Calls]
        /\ call'[t] = c
        /\ \A u \in Threads \ {t} : call'[u].pc = "idle"
    BY <1>1, <1>2, <1>3, HolderFacts
  <1>7. Apply(derived[s], call[t].op) \in Corpora
    BY <1>4, <1>5, ApplyType
  <1>8. TypeOK'
    BY <1>3, <1>4, <1>6, <1>7 DEF EngineInv, TypeOK
  <1>9. FollowInv(call[t])'
    <2>1. /\ state = "ready" /\ call[t].gen = store.gen
          /\ \A r \in Structures : Apply(derived[r], call[t].op) = store.docs
          /\ \A r \in Structures \ Pending(call[t]) : derived[r] = store.docs
      BY <1>1, <1>5 DEF FollowInv
    <2>2. derived'[s] = store.docs /\ \A r \in Structures \ {s} : derived'[r] = derived[r]
      BY <1>3, <1>4, <1>5, <2>1
    <2>3. \A r \in Structures : Apply(derived'[r], call[t].op) = store.docs
      <3>1. Apply(store.docs, call[t].op) = store.docs
        BY <1>4, <1>5, <2>1, ApplyType
      <3> QED BY <2>1, <2>2, <3>1
    <2>4. \A r \in Structures \ Pending(c) : derived'[r] = store.docs
      BY <1>4, <2>1, <2>2
    <2> QED BY <1>2, <1>3, <1>6, <2>1, <2>3, <2>4 DEF FollowInv
  <1>10. ReadInv(call[t])' /\ CommitInv(call[t])' /\ RebuildInv(call[t])'
    BY <1>2, <1>6 DEF ReadInv, CommitInv, RebuildInv
  <1>11. state' # "starting"
    BY <1>1, <1>3, <1>5 DEF FollowInv
  <1> QED
    BY <1>1, <1>3, <1>6, <1>8, <1>9, <1>10, <1>11, OneBusy DEF EngineInv

\* What a query reads is the stored corpus.
LEMMA ReadStepInv ==
    ASSUME EngineInv, NEW t \in Threads, Read(t)
    PROVE  EngineInv'
  <1> DEFINE s == Head(call[t].todo)
             c == [call[t] EXCEPT !.seen = call[t].seen \cup {derived[s]},
                                  !.todo = Tail(call[t].todo)]
  <1>1. call[t] \in Calls /\ lock = t /\ call[t].pc = "read" /\ call[t].todo # << >>
    BY DEF EngineInv, TypeOK, Read, At
  <1>2. s \in Structures
    BY <1>1 DEF Calls
  <1>3. derived[s] \in Corpora
    BY <1>2 DEF EngineInv, TypeOK
  <1>4. c \in Calls /\ c.pc = "read" /\ c.seen = call[t].seen \cup {derived[s]}
    <2>1. Tail(call[t].todo) \in Seq(Structures)
      BY <1>1, TailType
    <2>2. call[t].seen \cup {derived[s]} \in SUBSET Corpora
      BY <1>1, <1>3 DEF Calls
    <2> HIDE DEF s
    <2> QED BY <1>1, <2>1, <2>2 DEF Calls
  <1>5. /\ call' = [call EXCEPT ![t] = c]
        /\ lock' = lock
        /\ UNCHANGED <<role, store, derived, gen, state>>
    BY <1>1 DEF Read, EngineInv, TypeOK
  <1>6. ReadInv(call[t])
    BY DEF EngineInv, MethodInv
  <1> HIDE DEF c, s
  <1>7. /\ call' \in [Threads -> Calls]
        /\ call'[t] = c
        /\ \A u \in Threads \ {t} : call'[u].pc = "idle"
    BY <1>1, <1>4, <1>5, HolderFacts
  <1>8. TypeOK'
    BY <1>5, <1>7 DEF EngineInv, TypeOK
  <1>9. ReadInv(call[t])'
    BY <1>1, <1>2, <1>4, <1>5, <1>6, <1>7 DEF ReadInv, Consistent
  <1>10. CommitInv(call[t])' /\ FollowInv(call[t])' /\ RebuildInv(call[t])'
    BY <1>4, <1>7 DEF CommitInv, FollowInv, RebuildInv
  <1>11. state' # "starting"
    BY <1>1, <1>5, <1>6 DEF ReadInv
  <1> QED
    BY <1>1, <1>5, <1>7, <1>8, <1>9, <1>10, <1>11, OneBusy DEF EngineInv

\* The corpus is replaced; every structure is pending.
LEMMA ReplaceInv ==
    ASSUME EngineInv, NEW t \in Threads, Replace(t)
    PROVE  EngineInv'
  <1> DEFINE c == [call[t] EXCEPT !.pc = "rebuild", !.todo = SwapOrder]
  <1>1. call[t] \in Calls /\ lock = t /\ call[t].pc = "replace"
    BY DEF EngineInv, TypeOK, Replace, At
  <1>2. c \in Calls /\ c.pc = "rebuild" /\ c.todo = SwapOrder
    BY <1>1, OrdersType DEF Calls
  <1>3. /\ call' = [call EXCEPT ![t] = c]
        /\ lock' = lock
        /\ UNCHANGED <<role, derived, gen, state>>
        /\ store' = [docs |-> call[t].snapshot, gen |-> call[t].gen]
    BY <1>1 DEF Replace, Goto, EngineInv, TypeOK
  <1>4. state = "recovering"
    BY <1>1 DEF EngineInv, MethodInv, RebuildInv
  <1> HIDE DEF c
  <1>5. /\ call' \in [Threads -> Calls]
        /\ call'[t] = c
        /\ \A u \in Threads \ {t} : call'[u].pc = "idle"
    BY <1>1, <1>2, <1>3, HolderFacts
  <1>6. call[t].snapshot \in Corpora /\ call[t].gen \in Generations
    BY <1>1 DEF Calls
  <1>7. TypeOK'
    BY <1>3, <1>5, <1>6 DEF EngineInv, TypeOK
  <1>8. RebuildInv(call[t])'
    <2>1. Structures \subseteq Pending(c)
      BY <1>2, OrdersComplete
    <2> QED BY <1>2, <1>3, <1>4, <1>5, <2>1 DEF RebuildInv
  <1>9. ReadInv(call[t])' /\ CommitInv(call[t])' /\ FollowInv(call[t])'
    BY <1>2, <1>5 DEF ReadInv, CommitInv, FollowInv
  <1> QED
    BY <1>1, <1>3, <1>4, <1>5, <1>7, <1>8, <1>9, OneBusy DEF EngineInv

\* A structure is put in place.
LEMMA RebuildStepInv ==
    ASSUME EngineInv, NEW t \in Threads, Rebuild(t)
    PROVE  EngineInv'
  <1> DEFINE c == [call[t] EXCEPT !.todo = Tail(call[t].todo)]
             s == Head(call[t].todo)
  <1>1. call[t] \in Calls /\ lock = t /\ call[t].pc = "rebuild" /\ call[t].todo # << >>
    BY DEF EngineInv, TypeOK, Rebuild, At
  <1>2. c \in Calls /\ c.pc = "rebuild" /\ c.todo = Tail(call[t].todo)
    BY <1>1, SMTT(20) DEF Calls
  <1>3. /\ call' = [call EXCEPT ![t] = c]
        /\ lock' = lock
        /\ UNCHANGED <<role, store, gen, state>>
        /\ derived' = [derived EXCEPT ![s] = store.docs]
    BY <1>1 DEF Rebuild, EngineInv, TypeOK
  <1>4. s \in Structures /\ Pending(call[t]) \subseteq Pending(c) \cup {s}
    BY <1>1, <1>2, PendingTail
  <1>5. RebuildInv(call[t]) /\ derived \in [Structures -> Corpora] /\ store.docs \in Corpora
    BY DEF EngineInv, MethodInv, TypeOK
  <1> HIDE DEF c, s
  <1>6. /\ call' \in [Threads -> Calls]
        /\ call'[t] = c
        /\ \A u \in Threads \ {t} : call'[u].pc = "idle"
    BY <1>1, <1>2, <1>3, HolderFacts
  <1>7. TypeOK'
    BY <1>3, <1>4, <1>5, <1>6 DEF EngineInv, TypeOK
  <1>8. RebuildInv(call[t])'
    <2>1. state = "recovering" /\ \A r \in Structures \ Pending(call[t]) : derived[r] = store.docs
      BY <1>1, <1>5 DEF RebuildInv
    <2>2. derived'[s] = store.docs /\ \A r \in Structures \ {s} : derived'[r] = derived[r]
      BY <1>3, <1>4, <1>5
    <2>3. \A r \in Structures \ Pending(c) : derived'[r] = store.docs
      BY <1>4, <2>1, <2>2
    <2> QED BY <1>2, <1>3, <1>6, <2>1, <2>3 DEF RebuildInv
  <1>9. ReadInv(call[t])' /\ CommitInv(call[t])' /\ FollowInv(call[t])'
    BY <1>2, <1>6 DEF ReadInv, CommitInv, FollowInv
  <1>10. state' # "starting"
    BY <1>1, <1>3, <1>5 DEF RebuildInv
  <1> QED
    BY <1>1, <1>3, <1>6, <1>7, <1>8, <1>9, <1>10, OneBusy DEF EngineInv

\* Steps that leave a method: the engine is consistent, or not READY.
LEMMA LeaveInv ==
    ASSUME EngineInv, NEW t \in Threads,
           \/ CommitFails(t) \/ FollowFails(t) \/ Mutated(t) \/ Answer(t)
           \/ ServeAgain(t) \/ ResynchronizeFails(t)
    PROVE  EngineInv'
  <1>1. lock = t /\ Leave(t) /\ call[t] \in Calls
    BY DEF CommitFails, FollowFails, Mutated, Answer, ServeAgain, ResynchronizeFails, At,
           EngineInv, TypeOK
  <1>2. /\ call' \in [Threads -> Calls]
        /\ lock' = Nobody
        /\ \A u \in Threads : call'[u].pc = "idle"
    BY <1>1, LeaveFacts
  <1>3. Exclusive' /\ MethodInv'
    BY <1>2, AllIdle
  <1>4. /\ ReadInv(call[t]) /\ CommitInv(call[t])
        /\ FollowInv(call[t]) /\ RebuildInv(call[t])
    BY DEF EngineInv, MethodInv
  <1>5. call[t].todo = << >> => Pending(call[t]) = {}
    BY DEF Pending
  <1>6. CASE CommitFails(t) \/ Answer(t)
    <2>1. Consistent /\ UNCHANGED <<role, store, derived, gen, state>>
      BY <1>4, <1>6 DEF CommitFails, Answer, At, CommitInv, ReadInv
    <2> QED
      BY <1>2, <1>3, <2>1 DEF EngineInv, TypeOK, ReadyIsConsistent, Consistent
  <1>7. CASE Mutated(t)
    <2>1. /\ \A s \in Structures : derived[s] = store.docs
          /\ call[t].gen = store.gen
      BY <1>4, <1>5, <1>7 DEF Mutated, At, FollowInv
    <2>2. gen' = call[t].gen /\ gen' \in Generations /\ UNCHANGED <<role, store, derived, state>>
      BY <1>1, <1>7 DEF Mutated, Calls
    <2> QED
      BY <1>2, <1>3, <2>1, <2>2 DEF EngineInv, TypeOK, ReadyIsConsistent
  <1>8. CASE FollowFails(t)
    <2>1. PICK rest \in Texts \cup {NoText} :
             derived' = [derived EXCEPT ![Head(call[t].todo)] =
                 Apply(derived[Head(call[t].todo)], [call[t].op EXCEPT !.text = rest])]
      BY <1>8 DEF FollowFails
    <2>2. Head(call[t].todo) \in Structures
      BY <1>1, <1>8 DEF FollowFails, Calls
    <2>3. [call[t].op EXCEPT !.text = rest] \in Mutations
      BY <1>1 DEF Calls, Mutations
    <2>4. derived' \in [Structures -> Corpora]
      BY <2>1, <2>2, <2>3, ApplyType DEF EngineInv, TypeOK
    <2> QED
      BY <1>2, <1>3, <1>8, <2>4 DEF FollowFails, EngineInv, TypeOK, ReadyIsConsistent
  <1>9. CASE ServeAgain(t)
    <2>1. \A s \in Structures : derived[s] = store.docs
      BY <1>4, <1>5, <1>9 DEF ServeAgain, At, RebuildInv
    <2> QED
      BY <1>2, <1>3, <1>9, <2>1 DEF ServeAgain, EngineInv, TypeOK, ReadyIsConsistent
  <1>10. CASE ResynchronizeFails(t)
    <2>1. state = "recovering" /\ UNCHANGED <<role, store, derived, gen, state>>
      BY <1>4, <1>10 DEF ResynchronizeFails, At, RebuildInv
    <2> QED
      BY <1>2, <1>3, <2>1 DEF EngineInv, TypeOK, ReadyIsConsistent
  <1> QED
    BY <1>6, <1>7, <1>8, <1>9, <1>10

\* Steps outside of every method.
LEMMA OutsideInv ==
    ASSUME EngineInv, ApplyGap \/ Mark \/ Stop \/ Start
    PROVE  EngineInv'
  <1>1. CASE ApplyGap \/ Mark
    <2>1. /\ lock = Nobody /\ state' \in {"recovering", "out_of_sync"}
          /\ UNCHANGED <<role, store, derived, gen, lock, call>>
      BY <1>1 DEF ApplyGap, Mark
    <2>2. \A u \in Threads : call'[u].pc = "idle"
      BY <2>1, EngineAssumption DEF EngineInv, Exclusive
    <2> QED
      BY <2>1, <2>2, AllIdle DEF EngineInv, TypeOK, ReadyIsConsistent
  <1>2. CASE Stop
    <2>1. \A u \in Threads : call'[u] = NoCall
      BY <1>2 DEF Stop
    <2>2. EmptyCorpus \in Corpora /\ 0 \in Generations
      BY EngineAssumption DEF EmptyCorpus, Corpora, Generations
    <2>3. TypeOK'
      BY <1>2, <2>2, NoCallType DEF Stop, EngineInv, TypeOK, NothingDerived
    <2> QED
      BY <1>2, <2>1, <2>3, NoCallType, AllIdle DEF Stop, EngineInv, ReadyIsConsistent
  <1>3. CASE Start
    <2>1. lock = Nobody /\ UNCHANGED <<role, store, lock, call>>
      BY <1>3 DEF Start, EngineInv, Exclusive
    <2>2. \A u \in Threads : call'[u].pc = "idle"
      BY <2>1, EngineAssumption DEF EngineInv, Exclusive
    <2>3. TypeOK'
      BY <1>3, <2>1 DEF Start, EngineInv, TypeOK
    <2> QED
      BY <1>3, <2>1, <2>2, <2>3, AllIdle DEF Start, EngineInv, ReadyIsConsistent
  <1> QED BY <1>1, <1>2, <1>3

\* The invariant is inductive.
LEMMA EngineInductive == EngineInv /\ [Next]_vars => EngineInv'
  <1> SUFFICES ASSUME EngineInv, [Next]_vars PROVE EngineInv'
    OBVIOUS
  <1>1. CASE UNCHANGED vars
    BY <1>1 DEF vars, EngineInv, TypeOK, Exclusive, ReadyIsConsistent, MethodInv, ReadInv,
                CommitInv, FollowInv, RebuildInv, Consistent, Pending
  <1>2. ASSUME NEW t \in Threads, NEW op \in Mutations, Mutate(t, op) \/ ApplyReplicated(t, op)
        PROVE  EngineInv'
    BY <1>2, MutateInv
  <1>3. ASSUME NEW t \in Threads, NEW kind \in Queries, Query(t, kind)
        PROVE  EngineInv'
    BY <1>3, QueryInv
  <1>4. ASSUME NEW t \in Threads, NEW corpus \in Corpora, NEW g \in Generations,
               Resynchronize(t, corpus, g)
        PROVE  EngineInv'
    BY <1>4, ResynchronizeInv
  <1>5. ASSUME NEW t \in Threads, Step(t)
        PROVE  EngineInv'
    BY <1>5, CommitStepInv, FollowStepInv, ReadStepInv, ReplaceInv, RebuildStepInv, LeaveInv
    DEF Step
  <1>6. CASE ApplyGap \/ Mark \/ Stop \/ Start
    BY <1>6, OutsideInv
  <1> QED
    BY <1>1, <1>2, <1>3, <1>4, <1>5, <1>6 DEF Next

\* The invariant holds in every reachable state.
LEMMA EngineAlways == Spec => []EngineInv
  BY InitEngine, EngineInductive, PTL DEF Spec

-----------------------------------------------------------------------------
\* Between two methods a READY engine agrees with its storage, whatever has
\* failed before (SearchEngine.validate).
THEOREM EngineConsistent == Spec => []ReadyIsConsistent
  <1>1. EngineInv => ReadyIsConsistent
    BY DEF EngineInv
  <1> QED BY <1>1, EngineAlways, PTL

\* Every answer describes exactly the corpus that is in the database when it is
\* given: search, semantic, hybrid, statistics and export are atomic.
THEOREM AnswersAreAtomic == Spec => QueriesAreAtomic
  <1>1. ASSUME EngineInv, NEW t \in Threads, Answer(t)
        PROVE  call[t].seen = {store.docs}
    <2>1. ReadInv(call[t]) /\ call[t].pc = "read" /\ call[t].todo = << >>
      BY <1>1 DEF EngineInv, MethodInv, Answer, At
    <2> QED BY <2>1 DEF ReadInv
  <1>2. EngineInv => [\A t \in Threads : Answer(t) => call[t].seen = {store.docs}]_vars
    BY <1>1
  <1> QED BY <1>2, EngineAlways, PTL DEF QueriesAreAtomic

\* The engine stays within its types: a call, what it has seen and the
\* structures it has still to do are what the methods make of them.
THEOREM EngineTypes == Spec => []TypeOK
  <1>1. EngineInv => TypeOK
    BY DEF EngineInv
  <1> QED BY <1>1, EngineAlways, PTL

-----------------------------------------------------------------------------
(* SearchEngine implements AtomicEngine. *)

\* What the engine showed last, while thread t is in the method c: the engine as
\* it is, the corpus before the mutation, or a replica's before a resync.
ShownDuring(c) ==
    /\ c.pc \in {"read", "commit"} => shown = Shown
    /\ c.pc = "commit" => c.gen = gen + 1
    /\ c.pc = "follow" =>
          /\ shown.state = "ready"
          /\ shown.mem = shown.store
          /\ store.docs = Apply(shown.store.docs, c.op)
          /\ store.gen = shown.store.gen + 1
          /\ gen = IF role = "primary" THEN store.gen ELSE shown.mem.gen
    /\ c.pc \in {"replace", "rebuild"} =>
          role = "replica" /\ shown.state # "starting" /\ gen = shown.mem.gen
    /\ c.pc = "replace" => store = shown.store /\ derived["cache"] = shown.mem.docs
    /\ c.pc = "rebuild" => derived["cache"] \in {shown.mem.docs, store.docs}

ShownType ==
    shown \in [store : Atomic!Snapshots, mem : Atomic!Snapshots,
               state : {"starting", "recovering", "ready", "degraded", "out_of_sync"}]

\* Added to EngineInv, the inductive invariant of the refinement.
ShownInv ==
    /\ ShownType
    /\ lock = Nobody => shown = Shown
    /\ \A t \in Threads : lock = t => call[t].pc # "idle" /\ ShownDuring(call[t])

-----------------------------------------------------------------------------
\* The two modules mean the same by a snapshot and by a mutation.
LEMMA SameNotions ==
    /\ Atomic!Snapshots = [docs : Corpora, gen : Generations]
    /\ Atomic!Corpora = Corpora
    /\ Atomic!Empty = [docs |-> EmptyCorpus, gen |-> 0]
    /\ \A snapshot \in Atomic!Snapshots, op \in Mutations :
          Atomic!After(snapshot, op.doc, op.text)
             = [docs |-> Apply(snapshot.docs, op), gen |-> snapshot.gen + 1]
  BY DEF Atomic!Snapshots, Atomic!Corpora, Atomic!Empty, Atomic!After, Corpora, Generations,
         EmptyCorpus, Apply, Mutations

\* The lock is free after the step: what is shown is the engine.
LEMMA ShownFree ==
    ASSUME TypeOK', lock' = Nobody, shown' = Shown'
    PROVE  ShownInv'
  <1>1. derived'["cache"] \in Corpora
    BY DEF TypeOK, Structures
  <1>2. /\ store' \in Atomic!Snapshots
        /\ [docs |-> derived'["cache"], gen |-> gen'] \in Atomic!Snapshots
    BY <1>1, SameNotions DEF TypeOK
  <1>3. ShownType'
    BY <1>2 DEF Shown, ShownType, TypeOK
  <1> QED BY <1>3, EngineAssumption DEF ShownInv

\* A thread holds the lock after the step: nothing new is shown.
LEMMA ShownBusy ==
    ASSUME ShownInv, shown' = shown, NEW t \in Threads, lock' = t,
           call'[t].pc # "idle", ShownDuring(call[t])'
    PROVE  ShownInv'
  <1>1. t # Nobody
    BY EngineAssumption
  <1>2. ShownType'
    BY DEF ShownInv, ShownType
  <1> QED BY <1>1, <1>2 DEF ShownInv
-----------------------------------------------------------------------------
(* Inside a method nothing new is shown. *)

\* A method begins: the lock was free, so the engine is what is shown.
LEMMA ShownEnter ==
    ASSUME EngineInv, ShownInv, shown' = shown, NEW t \in Threads, NEW c \in Calls,
           Enter(t, c), UNCHANGED <<role, store, derived, gen>>,
           \/ c.pc = "read" /\ UNCHANGED state
           \/ c.pc = "commit" /\ c.gen = gen + 1 /\ UNCHANGED state
           \/ c.pc = "replace" /\ role = "replica"
    PROVE  ShownInv'
  <1>1. call'[t] = c /\ lock' = t
    BY EnterFacts
  <1>2. shown = Shown /\ state # "starting"
    BY DEF Enter, ShownInv
  <1>3. ShownDuring(call[t])'
    BY <1>1, <1>2 DEF ShownDuring, Shown
  <1> QED BY <1>1, <1>3, ShownBusy

\* The transaction of a mutation.
LEMMA ShownCommit ==
    ASSUME EngineInv, ShownInv, shown' = shown, NEW t \in Threads, Commit(t)
    PROVE  ShownInv'
  <1>1. /\ lock = t /\ lock' = t /\ call[t].pc = "commit" /\ call[t] \in Calls
        /\ call' = [call EXCEPT ![t].pc = "follow", ![t].todo = FollowOrder]
        /\ store' = [docs |-> Apply(store.docs, call[t].op), gen |-> call[t].gen]
        /\ gen' = IF role = "primary" THEN call[t].gen ELSE gen
        /\ UNCHANGED <<role, derived, state>>
    BY DEF Commit, At, Goto, EngineInv, TypeOK
  <1>2. /\ shown = Shown /\ call[t].gen = gen + 1
        /\ state = "ready" /\ derived["cache"] = store.docs /\ gen = store.gen
    BY <1>1 DEF ShownInv, ShownDuring, EngineInv, MethodInv, CommitInv, Consistent, Structures
  <1>3. call'[t].pc = "follow" /\ call'[t].op = call[t].op
    BY <1>1 DEF EngineInv, TypeOK, Calls
  <1>4. shown.state = "ready" /\ shown.store = store /\ shown.mem = store
    BY <1>2 DEF Shown, EngineInv, TypeOK
  <1>5. ShownDuring(call[t])'
    BY <1>1, <1>2, <1>3, <1>4 DEF ShownDuring
  <1> QED BY <1>1, <1>3, <1>5, ShownBusy

\* The structures follow, or are read.
LEMMA ShownFollow ==
    ASSUME EngineInv, ShownInv, shown' = shown, NEW t \in Threads, Follow(t) \/ Read(t)
    PROVE  ShownInv'
  <1>1. /\ lock = t /\ lock' = t /\ call[t] \in Calls
        /\ call[t].pc \in {"follow", "read"}
        /\ UNCHANGED <<role, store, gen, state>>
        /\ call[t].pc = "read" => UNCHANGED derived
    BY DEF Follow, Read, At, EngineInv, TypeOK
  <1>2. call'[t].pc = call[t].pc /\ call'[t].op = call[t].op
    BY DEF Follow, Read, EngineInv, TypeOK, Calls
  <1>3. ShownDuring(call[t])'
    BY <1>1, <1>2 DEF ShownInv, ShownDuring, Shown
  <1> QED BY <1>1, <1>2, <1>3, ShownBusy

\* A replica's corpus is replaced, and its structures are put in place.
LEMMA ShownReplace ==
    ASSUME EngineInv, ShownInv, shown' = shown, NEW t \in Threads, Replace(t) \/ Rebuild(t)
    PROVE  ShownInv'
  <1>1. /\ lock = t /\ lock' = t /\ call[t] \in Calls
        /\ call[t].pc \in {"replace", "rebuild"}
        /\ UNCHANGED <<role, gen, state>>
    BY DEF Replace, Rebuild, At, EngineInv, TypeOK
  <1>2. call'[t].pc = "rebuild"
    BY DEF Replace, Rebuild, At, Goto, EngineInv, TypeOK, Calls
  <1>3. derived'["cache"] \in {shown.mem.docs, store'.docs}
    <2>1. CASE Replace(t)
      BY <1>1, <2>1 DEF Replace, At, ShownInv, ShownDuring
    <2>2. CASE Rebuild(t)
      <3>1. derived'["cache"] \in {derived["cache"], store.docs} /\ UNCHANGED store
        BY <2>2 DEF Rebuild, EngineInv, TypeOK, Structures
      <3> QED BY <1>1, <2>2, <3>1 DEF Rebuild, At, ShownInv, ShownDuring
    <2> QED BY <2>1, <2>2
  <1>4. ShownDuring(call[t])'
    BY <1>1, <1>2, <1>3 DEF ShownInv, ShownDuring
  <1> QED BY <1>1, <1>2, <1>4, ShownBusy

-----------------------------------------------------------------------------
(* At the end of a method its whole effect is shown. *)

\* A mutation has been committed and every structure has followed.
LEMMA MutatedRefines ==
    ASSUME EngineInv, ShownInv, NEW t \in Threads, Mutated(t), shown' = Shown'
    PROVE  Atomic!ANext
  <1> DEFINE op == call[t].op
  <1>1. /\ lock = t /\ call[t].pc = "follow" /\ call[t].todo = << >> /\ gen' = call[t].gen
        /\ UNCHANGED <<role, store, derived, state>>
    BY DEF Mutated, At
  <1>2. op \in Mutations
    BY DEF EngineInv, TypeOK, Calls
  <1>3. derived["cache"] = store.docs /\ call[t].gen = store.gen /\ state = "ready"
    <2>1. Pending(call[t]) = {}
      BY <1>1 DEF Pending
    <2> QED BY <1>1, <2>1 DEF EngineInv, MethodInv, FollowInv, Structures
  <1>4. /\ shown.state = "ready" /\ shown.mem = shown.store /\ shown.store \in Atomic!Snapshots
        /\ store.docs = Apply(shown.store.docs, op) /\ store.gen = shown.store.gen + 1
    BY <1>1 DEF ShownInv, ShownType, ShownDuring
  <1>5. store = Atomic!After(shown.store, op.doc, op.text)
    <2>1. store = [docs |-> store.docs, gen |-> store.gen]
      BY DEF EngineInv, TypeOK
    <2> QED BY <1>2, <1>4, <2>1, SameNotions
  <1>6. shown' = [store |-> store, mem |-> store, state |-> "ready"]
    <2>1. store = [docs |-> store.docs, gen |-> store.gen]
      BY DEF EngineInv, TypeOK
    <2> QED BY <1>1, <1>3, <2>1 DEF Shown
  <1>7. op.doc \in Docs /\ op.text \in Texts \cup {NoText}
    BY <1>2 DEF Mutations
  <1> HIDE DEF op
  <1>8. Atomic!Mutated
    BY <1>4, <1>5, <1>6, <1>7 DEF Atomic!Mutated
  <1> QED BY <1>1, <1>8 DEF Atomic!ANext

\* A structure has failed to follow: the mutation is durable, the memory not to
\* be relied on.
LEMMA DegradedRefines ==
    ASSUME EngineInv, EngineInv', ShownInv, NEW t \in Threads, FollowFails(t), shown' = Shown'
    PROVE  Atomic!ANext
  <1> DEFINE op == call[t].op
  <1>1. /\ lock = t /\ call[t].pc = "follow" /\ state' = "degraded"
        /\ UNCHANGED <<role, store, gen>>
    BY DEF FollowFails, At
  <1>2. op \in Mutations
    BY DEF EngineInv, TypeOK, Calls
  <1>3. /\ shown.state = "ready" /\ shown.mem = shown.store /\ shown.store \in Atomic!Snapshots
        /\ store.docs = Apply(shown.store.docs, op) /\ store.gen = shown.store.gen + 1
        /\ gen = IF role = "primary" THEN store.gen ELSE shown.mem.gen
    BY <1>1 DEF ShownInv, ShownType, ShownDuring
  <1>4. store = Atomic!After(shown.store, op.doc, op.text)
    <2>1. store = [docs |-> store.docs, gen |-> store.gen]
      BY DEF EngineInv, TypeOK
    <2> QED BY <1>2, <1>3, <2>1, SameNotions
  <1>5. /\ shown' = [store |-> store, mem |-> [docs |-> derived'["cache"], gen |-> gen],
                     state |-> "degraded"]
        /\ derived'["cache"] \in Atomic!Corpora
    BY <1>1, SameNotions DEF Shown, EngineInv, TypeOK, Structures
  <1>6. op.doc \in Docs /\ op.text \in Texts \cup {NoText}
    BY <1>2 DEF Mutations
  <1> HIDE DEF op
  <1>7. Atomic!MutatedDegraded
    BY <1>3, <1>4, <1>5, <1>6 DEF Atomic!MutatedDegraded
  <1> QED BY <1>1, <1>7 DEF Atomic!ANext

\* A resynchronisation has ended, and serves, or has failed somewhere.
LEMMA ResynchronizedRefines ==
    ASSUME EngineInv, ShownInv, NEW t \in Threads, ServeAgain(t) \/ ResynchronizeFails(t),
           shown' = Shown'
    PROVE  Atomic!ANext
  <1>1. /\ lock = t /\ call[t].pc \in {"replace", "rebuild"}
        /\ UNCHANGED <<role, store, derived>>
        /\ store \in Atomic!Snapshots /\ store = [docs |-> store.docs, gen |-> store.gen]
    BY SameNotions DEF ServeAgain, ResynchronizeFails, At, EngineInv, TypeOK
  <1>2. /\ role = "replica" /\ shown.state # "starting" /\ gen = shown.mem.gen
        /\ derived["cache"] \in {shown.mem.docs, store.docs}
    BY <1>1 DEF ShownInv, ShownDuring
  <1>3. CASE ServeAgain(t)
    <2>1. derived["cache"] = store.docs
      <3>1. Pending(call[t]) = {} /\ call[t].pc = "rebuild"
        BY <1>3 DEF ServeAgain, At, Pending
      <3> QED BY <3>1 DEF EngineInv, MethodInv, RebuildInv, Structures
    <2>2. shown' = [store |-> store, mem |-> store, state |-> "ready"]
      BY <1>1, <1>3, <2>1 DEF ServeAgain, Shown
    <2>3. Atomic!Installed
      BY <1>1, <1>2, <2>2 DEF Atomic!Installed
    <2> QED BY <1>1, <2>3 DEF Atomic!ANext
  <1>4. CASE ResynchronizeFails(t)
    <2>1. state = "recovering" /\ UNCHANGED <<gen, state>>
      BY <1>1, <1>4 DEF ResynchronizeFails, EngineInv, MethodInv, RebuildInv
    <2>2. [shown.mem EXCEPT !.docs = derived["cache"]] = [docs |-> derived["cache"], gen |-> gen]
      BY <1>2, SameNotions DEF ShownInv, ShownType
    <2>3. shown' = [store |-> store, mem |-> [shown.mem EXCEPT !.docs = derived["cache"]],
                    state |-> "recovering"]
      BY <1>1, <2>1, <2>2 DEF Shown
    <2>4. Atomic!InstallFailed
      BY <1>1, <1>2, <2>3 DEF Atomic!InstallFailed
    <2> QED BY <1>1, <2>4 DEF Atomic!ANext
  <1> QED BY <1>3, <1>4

\* A mark or a gap, outside of every method.
LEMMA MarkRefines ==
    ASSUME EngineInv, ShownInv, ApplyGap \/ Mark, shown' = Shown'
    PROVE  Atomic!ANext
  <1>1. /\ lock = Nobody /\ role = "replica" /\ state # "starting"
        /\ state' \in {"recovering", "out_of_sync"}
        /\ UNCHANGED <<role, store, derived, gen>>
    BY DEF ApplyGap, Mark
  <1>2. shown = Shown
    BY <1>1 DEF ShownInv
  <1>3. shown' = [shown EXCEPT !.state = state'] /\ shown.state # "starting"
    BY <1>1, <1>2 DEF Shown
  <1>4. Atomic!Marked
    BY <1>1, <1>3 DEF Atomic!Marked
  <1> QED BY <1>1, <1>4 DEF Atomic!ANext

\* A start rebuilds the memory from the database.
LEMMA StartRefines ==
    ASSUME EngineInv, ShownInv, Start, shown' = Shown'
    PROVE  Atomic!ANext
  <1>1. /\ lock = Nobody /\ state = "starting"
        /\ UNCHANGED <<role, store>>
        /\ derived'["cache"] = store.docs /\ gen' = store.gen
        /\ state' \in IF role = "primary" THEN {"ready"} ELSE {"ready", "recovering", "out_of_sync"}
        /\ store = [docs |-> store.docs, gen |-> store.gen]
    BY DEF Start, EngineInv, Exclusive, Structures, TypeOK
  <1>2. shown.store = store /\ shown.state = "starting"
    BY <1>1 DEF ShownInv, Shown
  <1>3. shown' = [store |-> shown.store, mem |-> shown.store, state |-> state']
    BY <1>1, <1>2 DEF Shown
  <1>4. Atomic!Started
    BY <1>1, <1>2, <1>3 DEF Atomic!Started
  <1> QED BY <1>1, <1>4 DEF Atomic!ANext

\* A crash, in the middle of whatever is going on.
LEMMA StopRefines ==
    ASSUME EngineInv, ShownInv, Stop, shown' = Shown'
    PROVE  Atomic!ANext
  <1>1. /\ state # "starting" /\ UNCHANGED <<role, store>>
        /\ shown' = [store |-> store, mem |-> Atomic!Empty, state |-> "starting"]
    BY SameNotions DEF Stop, Shown, NothingDerived, Structures
  <1>2. store \in Atomic!Snapshots /\ store = [docs |-> store.docs, gen |-> store.gen]
    BY SameNotions DEF EngineInv, TypeOK
  <1>3. /\ shown.state # "starting"
        /\ \/ store = shown.store
           \/ shown.state = "ready" /\ \E d \in Docs, text \in Texts \cup {NoText} :
                                          store = Atomic!After(shown.store, d, text)
           \/ role = "replica"
    <2>1. CASE shown = Shown
      BY <1>1, <2>1 DEF Shown
    <2>2. CASE shown # Shown
      <3>1. lock \in Threads
        BY <2>2 DEF ShownInv, EngineInv, TypeOK
      <3> DEFINE c == call[lock]
      <3>2. ShownDuring(c) /\ c \in Calls /\ c.pc # "idle"
        BY <3>1 DEF ShownInv, EngineInv, TypeOK
      <3>3. c.pc \in {"follow", "replace", "rebuild"} /\ c.op \in Mutations
        <4> HIDE DEF c
        <4> QED BY <2>2, <3>2 DEF ShownDuring, Calls
      <3> HIDE DEF c
      <3>4. CASE c.pc = "follow"
        <4>1. /\ shown.state = "ready" /\ shown.store \in Atomic!Snapshots
              /\ store.docs = Apply(shown.store.docs, c.op) /\ store.gen = shown.store.gen + 1
          BY <3>2, <3>4 DEF ShownDuring, ShownInv, ShownType
        <4>2. store = Atomic!After(shown.store, c.op.doc, c.op.text)
          BY <1>2, <3>3, <4>1, SameNotions
        <4>3. c.op.doc \in Docs /\ c.op.text \in Texts \cup {NoText}
          BY <3>3 DEF Mutations
        <4> QED BY <4>1, <4>2, <4>3
      <3>5. CASE c.pc \in {"replace", "rebuild"}
        BY <3>2, <3>5 DEF ShownDuring
      <3> QED BY <3>3, <3>4, <3>5
    <2> QED BY <2>1, <2>2
  <1>4. Atomic!Stopped
    BY <1>1, <1>2, <1>3 DEF Atomic!Stopped
  <1> QED BY <1>1, <1>4 DEF Atomic!ANext

-----------------------------------------------------------------------------
\* A step inside a method keeps the invariant and shows nothing.
LEMMA InsideStep ==
    ASSUME EngineInv, ShownInv, ShownNext, NEW t \in Threads, lock' = t
    PROVE  ShownInv' /\ UNCHANGED <<role, shown>>
  <1>1. shown' = shown /\ lock' # Nobody /\ Next
    BY EngineAssumption DEF ShownNext
  <1>2. ASSUME NEW u \in Threads, NEW op \in Mutations, Mutate(u, op) \/ ApplyReplicated(u, op)
        PROVE  ShownInv' /\ UNCHANGED role
    <2> DEFINE c == [NoCall EXCEPT !.pc = "commit", !.op = op, !.gen = gen + 1]
    <2>1. gen + 1 \in Generations
      BY <1>2, EngineAssumption DEF Mutate, ApplyReplicated, EngineInv, TypeOK, Generations
    <2>2. c \in Calls /\ c.pc = "commit" /\ c.gen = gen + 1
      BY <2>1, NoCallType DEF Calls
    <2>3. Enter(u, c) /\ UNCHANGED <<role, store, derived, gen, state>>
      BY <1>2 DEF Mutate, ApplyReplicated
    <2> HIDE DEF c
    <2> QED BY <1>1, <2>2, <2>3, ShownEnter
  <1>3. ASSUME NEW u \in Threads, NEW kind \in Queries, Query(u, kind)
        PROVE  ShownInv' /\ UNCHANGED role
    <2> DEFINE c == [NoCall EXCEPT !.pc = "read", !.todo = Reads[kind]]
    <2>1. c \in Calls /\ c.pc = "read"
      BY NoCallType, ReadsType DEF Calls
    <2>2. Enter(u, c) /\ UNCHANGED <<role, store, derived, gen, state>>
      BY <1>3 DEF Query
    <2> HIDE DEF c
    <2> QED BY <1>1, <2>1, <2>2, ShownEnter
  <1>4. ASSUME NEW u \in Threads, NEW corpus \in Corpora, NEW g \in Generations,
               Resynchronize(u, corpus, g)
        PROVE  ShownInv' /\ UNCHANGED role
    <2> DEFINE c == [NoCall EXCEPT !.pc = "replace", !.snapshot = corpus, !.gen = g]
    <2>1. c \in Calls /\ c.pc = "replace"
      BY NoCallType DEF Calls
    <2>2. Enter(u, c) /\ UNCHANGED <<role, store, derived, gen>> /\ role = "replica"
      BY <1>4 DEF Resynchronize
    <2> HIDE DEF c
    <2> QED BY <1>1, <2>1, <2>2, ShownEnter
  <1>5. ASSUME NEW u \in Threads, Step(u)
        PROVE  ShownInv' /\ UNCHANGED role
    <2>1. CASE Commit(u)
      BY <1>1, <2>1, ShownCommit DEF Commit
    <2>2. CASE Follow(u) \/ Read(u)
      BY <1>1, <2>2, ShownFollow DEF Follow, Read
    <2>3. CASE Replace(u) \/ Rebuild(u)
      BY <1>1, <2>3, ShownReplace DEF Replace, Rebuild
    <2>4. CASE Leave(u)
      BY <1>1, <2>4 DEF Leave
    <2> QED
      BY <1>5, <2>1, <2>2, <2>3, <2>4
      DEF Step, CommitFails, FollowFails, Mutated, Answer, ServeAgain, ResynchronizeFails
  <1>6. CASE ApplyGap \/ Mark \/ Stop \/ Start
    <2>1. lock' = Nobody
      BY <1>6 DEF ApplyGap, Mark, Stop, Start, EngineInv, Exclusive
    <2> QED BY <1>1, <2>1
  <1> QED BY <1>1, <1>2, <1>3, <1>4, <1>5, <1>6 DEF Next

\* A step that leaves the lock free shows a step of the atomic engine.
LEMMA OutsideStep ==
    ASSUME EngineInv, EngineInv', ShownInv, ShownNext, lock' = Nobody
    PROVE  ShownInv' /\ (Atomic!ANext \/ UNCHANGED <<role, shown>>)
  <1>1. shown' = Shown' /\ Next
    BY DEF ShownNext
  <1>2. ShownInv'
    BY <1>1, ShownFree DEF EngineInv
  <1>3. ASSUME NEW t \in Threads,
               CommitFails(t) \/ Answer(t)
        PROVE  UNCHANGED <<role, shown>>
    <2>1. lock = t /\ call[t].pc \in {"commit", "read"} /\ UNCHANGED <<role, store, derived, gen, state>>
      BY <1>3 DEF CommitFails, Answer, At
    <2>2. shown = Shown
      BY <2>1 DEF ShownInv, ShownDuring
    <2> QED BY <1>1, <2>1, <2>2 DEF Shown
  <1>4. ASSUME NEW t \in Threads, Step(t)
        PROVE  Atomic!ANext \/ UNCHANGED <<role, shown>>
    <2>1. CASE CommitFails(t) \/ Answer(t)
      BY <1>3, <2>1 DEF CommitFails, Answer, At
    <2>2. CASE Mutated(t)
      BY <1>1, <2>2, MutatedRefines
    <2>3. CASE FollowFails(t)
      BY <1>1, <2>3, DegradedRefines
    <2>4. CASE ServeAgain(t) \/ ResynchronizeFails(t)
      BY <1>1, <2>4, ResynchronizedRefines
    <2>5. CASE Commit(t) \/ Follow(t) \/ Read(t) \/ Replace(t) \/ Rebuild(t)
      <3>1. lock' = t
        BY <2>5 DEF Commit, Follow, Read, Replace, Rebuild, At
      <3> QED BY <3>1, EngineAssumption
    <2> QED BY <1>4, <2>1, <2>2, <2>3, <2>4, <2>5 DEF Step
  <1>5. CASE ApplyGap \/ Mark \/ Stop \/ Start
    BY <1>1, <1>2, <1>5, MarkRefines, StopRefines, StartRefines
  <1>6. ASSUME NEW t \in Threads, NEW c, Enter(t, c) PROVE FALSE
    BY <1>6, EngineAssumption DEF Enter
  <1>7. ASSUME NEW t \in Threads
        PROVE  /\ \A op \in Mutations : ~Mutate(t, op) /\ ~ApplyReplicated(t, op)
               /\ \A kind \in Queries : ~Query(t, kind)
               /\ \A corpus \in Corpora, g \in Generations : ~Resynchronize(t, corpus, g)
    BY <1>6 DEF Mutate, ApplyReplicated, Query, Resynchronize
  <1> QED BY <1>1, <1>2, <1>4, <1>5, <1>7 DEF Next

\* Whoever looks at the engine when its lock is free sees methods that happen
\* at once: SearchEngine implements AtomicEngine, crashes and failures of every
\* single step included.
THEOREM EngineMethodsAreAtomic == ShownSpec => MethodsAreAtomic
  <1>1. ShownInit => EngineInv /\ ShownInv /\ Atomic!AInit
    <2> SUFFICES ASSUME ShownInit PROVE EngineInv /\ ShownInv /\ Atomic!AInit
      OBVIOUS
    <2>1. EngineInv /\ lock = Nobody /\ shown = Shown
      BY InitEngine DEF ShownInit, Init
    <2>2. Atomic!AInit
      BY SameNotions DEF ShownInit, Init, Atomic!AInit, Shown, NothingDerived, Structures
    <2>3. ShownInv
      <3>1. derived["cache"] \in Corpora
        BY <2>1 DEF EngineInv, TypeOK, Structures
      <3>2. store \in Atomic!Snapshots /\ [docs |-> derived["cache"], gen |-> gen] \in Atomic!Snapshots
        BY <2>1, <3>1, SameNotions DEF EngineInv, TypeOK
      <3>3. ShownType
        BY <2>1, <3>2 DEF Shown, ShownType, EngineInv, TypeOK
      <3> QED BY <2>1, <3>3, EngineAssumption DEF ShownInv
    <2> QED BY <2>1, <2>2, <2>3
  <1>2. EngineInv /\ ShownInv /\ [ShownNext]_<<vars, shown>>
           => EngineInv' /\ ShownInv' /\ [Atomic!ANext]_<<role, shown>>
    <2> SUFFICES ASSUME EngineInv, ShownInv, [ShownNext]_<<vars, shown>>
                 PROVE  EngineInv' /\ ShownInv' /\ [Atomic!ANext]_<<role, shown>>
      OBVIOUS
    <2>1. EngineInv'
      BY EngineInductive DEF ShownNext
    <2>2. CASE ShownNext
      <3>1. lock' \in Threads \cup {Nobody}
        BY <2>1 DEF EngineInv, TypeOK
      <3>2. CASE lock' \in Threads
        BY <2>1, <2>2, <3>2, InsideStep
      <3>3. CASE lock' = Nobody
        BY <2>1, <2>2, <3>3, OutsideStep
      <3> QED BY <3>1, <3>2, <3>3
    <2>3. CASE UNCHANGED <<vars, shown>>
      <3>1. ShownInv'
        BY <2>3 DEF vars, ShownInv, ShownType, ShownDuring, Shown
      <3> QED BY <2>1, <2>3, <3>1 DEF vars
    <2> QED BY <2>2, <2>3
  <1> QED BY <1>1, <1>2, PTL DEF ShownSpec, MethodsAreAtomic, Atomic!ASpec

=============================================================================

-------------------------- MODULE CoordinatorProofs --------------------------
(***************************************************************************)
(* For any shards, documents, replicas and number of writes: what a read   *)
(* answers is complete and fresh, its two rounds agree, and every shard    *)
(* behaves as the log that the replicated shard implements.                *)
(***************************************************************************)
EXTENDS Coordinator, FiniteSetLemmas

\* A write has a generation only from its commit on, and no copy that it has
\* been through is behind it.
WriteInv ==
    \A w \in Writes :
        /\ write[w].pc \in {"none", "sent"} => write[w].gen = 0
        /\ write[w].pc = "committed" =>
              \A c \in Copies : c < write[w].target => write[w].gen <= at[Owner(w)][c]
        /\ write[w].pc = "committed" => write[w].target >= 1
        /\ write[w].pc = "ok" =>
              \A c \in Copies : write[w].gen <= at[Owner(w)][c]

\* Every generation of a shard is some write's.
GenerationsAreWrites ==
    \A s \in Shards : \A g \in 1..at[s][Primary] :
        \E w \in Writes : Owner(w) = s /\ write[w].gen = g

\* What has been acknowledged, and what a read has to show, is on every copy.
AckInv ==
    \A s \in Shards, c \in Copies :
        /\ \A g \in acked[s] : g <= at[s][c]
        /\ due[s] <= at[s][c]

\* Legs belong to the read that holds the lock, which has not been answered.
OpInv ==
    /\ op.kind = "write" => op.write \in Writes
    /\ op.kind \in Kinds => reply = "none"
    /\ op.kind \notin Kinds => leg = NoLegs

\* What a leg has been told is fresh, and the copy it is pinned to has stayed
\* as it was unless the shard was changed from outside.
LegInv ==
    \A p \in Paths, s \in Shards :
        LET l == leg[p][s] IN
        /\ l.pc \in {"pinned", "score", "done"} => due[s] <= l.first
        /\ l.pc \in {"pinned", "score"} => at[s][l.copy] = l.first \/ s \in outside
        /\ l.first = l.second \/ s \in outside

\* The inductive invariant.
CoordinatorInv ==
    TypeOK /\ WriteInv /\ GenerationsAreWrites /\ AckInv /\ OpInv /\ LegInv

-----------------------------------------------------------------------------
(* Constants *)

\* Bounds and the values that stand for "nothing" have their types.
LEMMA ConstantTypes ==
    /\ NumReplicas \in Nat /\ MaxWrites \in Nat
    /\ Primary \in Copies /\ 0 \in Generations
    /\ Route \in [Docs -> Shards]
    /\ NoContent \in Contents
    /\ NoWrite \in WriteRecords
    /\ NoWrite.pc = "none" /\ NoWrite.gen = 0
    /\ NoLeg \in LegRecords
    /\ "idle" \notin Kinds /\ "write" \notin Kinds
  <1>1. (CHOOSE d \in Docs : TRUE) \in Docs
    BY CoordinatorAssumption
  <1>2. NumReplicas \in Nat /\ MaxWrites \in Nat /\ Route \in [Docs -> Shards]
    BY CoordinatorAssumption
  <1>3. Primary \in Copies /\ 0 \in Generations /\ NoContent \in Contents
    BY <1>2 DEF Primary, Copies, Generations, NoContent, Contents
  <1>4. "idle" \notin Kinds /\ "write" \notin Kinds
    BY CoordinatorAssumption
  <1> QED
    BY <1>1, <1>2, <1>3, <1>4 DEF NoWrite, WriteRecords, NoLeg, LegRecords, Generations

\* The greatest of some generations is one of them.
LEMMA LatestType ==
    ASSUME NEW gens \in SUBSET Generations
    PROVE  /\ Latest(gens) \in Generations
           /\ gens # {} => Latest(gens) \in gens
  <1>1. CASE gens = {}
    BY <1>1, ConstantTypes DEF Latest
  <1>2. CASE gens # {}
    <2> DEFINE bounds == {n \in Nat : \A h \in gens : h <= n}
    <2>1. MaxWrites \in bounds
      BY ConstantTypes DEF Generations
    <2>2. PICK n \in bounds : \A m \in bounds : n <= m
      <3>1. bounds \in SUBSET Nat /\ bounds # {}
        BY <2>1
      <3> HIDE DEF bounds
      <3> QED BY <3>1, LeastNatural
    <2>3. n \in gens
      <3> SUFFICES ASSUME n \notin gens PROVE FALSE
        OBVIOUS
      <3>1. \A h \in gens : h \in Nat /\ h < n
        BY ConstantTypes DEF Generations
      <3>2. n - 1 \in bounds
        BY <1>2, <3>1
      <3> QED BY <2>2, <3>2
    <2>4. \E g \in gens : \A h \in gens : h <= g
      BY <2>3
    <2> QED BY <1>2, <2>4 DEF Latest
  <1> QED BY <1>1, <1>2

-----------------------------------------------------------------------------
(* What a step may change, one piece at a time *)

\* A legal write never runs out of generations: those of its shard are other
\* writes', and it is a write without one.
LEMMA RoomForCommit ==
    ASSUME TypeOK, WriteInv, GenerationsAreWrites, NEW w \in Writes, write[w].pc = "sent"
    PROVE  at[Owner(w)][Primary] + 1 \in Generations
  <1> DEFINE s == Owner(w)
             n == at[s][Primary]
             others == {v \in Writes \ {w} : Owner(v) = s /\ write[v].gen \in 1..n}
             number == [v \in others |-> write[v].gen]
  <1>1. s \in Shards /\ n \in 0..MaxWrites /\ MaxWrites \in Nat
    BY ConstantTypes DEF TypeOK, WriteRecords, Owner, Generations
  <1>2. number \in Surjection(others, 1..n)
    <2>1. number \in [others -> 1..n]
      OBVIOUS
    <2>2. ASSUME NEW g \in 1..n
          PROVE  \E v \in others : number[v] = g
      <3>1. PICK v \in Writes : Owner(v) = s /\ write[v].gen = g
        BY <1>1 DEF GenerationsAreWrites
      <3>2. v # w
        BY <1>1, <3>1 DEF WriteInv
      <3> QED BY <3>1, <3>2
    <2> HIDE DEF number, others, n
    <2> QED BY <2>1, <2>2 DEF Surjection
  <1>3. /\ IsFiniteSet(Writes) /\ Cardinality(Writes) = MaxWrites
        /\ Cardinality(1..n) = n
    <2> HIDE DEF n
    <2>1. \A m \in Nat : IsFiniteSet(1..m) /\ Cardinality(1..m) = m
      BY FS_Interval
    <2> QED BY <1>1, <2>1 DEF Writes
  <1>4. IsFiniteSet(Writes \ {w}) /\ Cardinality(Writes \ {w}) = MaxWrites - 1
    BY <1>3, FS_RemoveElement
  <1>5. IsFiniteSet(others) /\ Cardinality(others) <= MaxWrites - 1
    BY <1>4, FS_Subset
  <1> HIDE DEF number, others, n
  <1>6. n <= Cardinality(others)
    BY <1>2, <1>3, <1>5, FS_Surjection
  <1>7. Cardinality(others) \in Nat
    BY <1>5, FS_CardinalityType
  <1>8. n + 1 \in 0..MaxWrites
    BY <1>1, <1>5, <1>6, <1>7
  <1> QED BY <1>8 DEF n, Generations

\* One write changes.
LEMMA OneWrite ==
    ASSUME TypeOK, NEW w \in Writes, NEW r \in WriteRecords, write' = [write EXCEPT ![w] = r]
    PROVE  /\ write' \in [Writes -> WriteRecords]
           /\ write'[w] = r
           /\ \A v \in Writes \ {w} : write'[v] = write[v]
  BY DEF TypeOK

\* The owner of a write is a shard, and its generation a number.
LEMMA WriteTypes ==
    ASSUME TypeOK, NEW w \in Writes
    PROVE  /\ write[w] \in WriteRecords /\ write[w].doc \in Docs /\ Owner(w) \in Shards
           /\ write[w].gen \in Generations /\ write[w].gen \in Int
  <1>1. write[w] \in WriteRecords
    BY DEF TypeOK
  <1>2. write[w].doc \in Docs /\ write[w].gen \in Generations
    BY <1>1 DEF WriteRecords
  <1> QED BY <1>1, <1>2, ConstantTypes DEF Owner, Generations

\* The lock is free again, and the legs of a read are gone with it.
LEMMA NoLegsType ==
    /\ NoLegs \in [Paths -> [Shards -> LegRecords]]
    /\ \A p \in Paths, s \in Shards : NoLegs[p][s] = NoLeg
  BY ConstantTypes DEF NoLegs

\* Nothing happens to writes or copies.
LEMMA WritesStay ==
    ASSUME CoordinatorInv, UNCHANGED <<write, at>>
    PROVE  WriteInv' /\ GenerationsAreWrites'
  BY DEF CoordinatorInv, WriteInv, GenerationsAreWrites, Owner

\* Copies move forward only, and what moves while a read is on is noted: what
\* was acknowledged stays on every copy, and legs keep what they were told.
LEMMA CopiesAdvance ==
    ASSUME CoordinatorInv, TypeOK',
           \A s \in Shards, c \in Copies :
               /\ at[s][c] <= at'[s][c]
               /\ op.kind \in Kinds /\ at'[s][c] # at[s][c] => s \in outside',
           outside \subseteq outside',
           UNCHANGED <<op, leg, reply, acked, due>>
    PROVE  AckInv' /\ OpInv' /\ LegInv'
  <1>1. OpInv'
    BY DEF CoordinatorInv, OpInv
  <1>2. AckInv'
    <2> SUFFICES ASSUME NEW s \in Shards, NEW c \in Copies, NEW g \in acked[s] \cup {due[s]}
                 PROVE  g <= at'[s][c]
      BY DEF AckInv
    <2>1. g \in Int /\ at[s][c] \in Int /\ at'[s][c] \in Int
      BY ConstantTypes DEF CoordinatorInv, TypeOK, Generations
    <2>2. g <= at[s][c]
      BY DEF CoordinatorInv, AckInv
    <2> QED BY <2>1, <2>2
  <1>3. LegInv'
    <2> SUFFICES ASSUME NEW p \in Paths, NEW s \in Shards
                 PROVE  LET l == leg[p][s] IN
                        /\ l.pc \in {"pinned", "score", "done"} => due[s] <= l.first
                        /\ l.pc \in {"pinned", "score"} => at'[s][l.copy] = l.first \/ s \in outside'
                        /\ l.first = l.second \/ s \in outside'
      BY DEF LegInv
    <2>1. leg[p][s].copy \in Copies
      BY DEF CoordinatorInv, TypeOK, LegRecords
    <2>2. leg[p][s].pc \in {"pinned", "score"} => op.kind \in Kinds
      BY NoLegsType DEF CoordinatorInv, OpInv, NoLeg
    <2> QED BY <2>1, <2>2 DEF CoordinatorInv, LegInv
  <1> QED BY <1>1, <1>2, <1>3

\* The operation ends: nothing is left to be said of it.
LEMMA OperationEnds ==
    ASSUME CoordinatorInv, ReleaseLock, leg' = NoLegs, UNCHANGED at,
           \A s \in Shards, c \in Copies : \A g \in acked'[s] : g <= at[s][c]
    PROVE  /\ op' \in [kind : Kinds \cup {"idle", "write"}, write : 0..MaxWrites]
           /\ leg' \in [Paths -> [Shards -> LegRecords]]
           /\ due' \in [Shards -> Generations]
           /\ outside' \subseteq Shards
           /\ AckInv' /\ OpInv' /\ LegInv'
  <1>1. /\ op' = Idle /\ op'.kind = "idle"
        /\ op' \in [kind : Kinds \cup {"idle", "write"}, write : 0..MaxWrites]
    BY ConstantTypes DEF ReleaseLock, Idle
  <1>2. /\ due' \in [Shards -> Generations] /\ outside' \subseteq Shards
        /\ \A s \in Shards : due'[s] = 0
    BY ConstantTypes DEF ReleaseLock, NothingDue
  <1>3. AckInv'
    <2>1. \A s \in Shards, c \in Copies : 0 <= at[s][c]
      BY ConstantTypes DEF CoordinatorInv, TypeOK, Generations
    <2> QED BY <1>2, <2>1 DEF AckInv
  <1>4. OpInv'
    BY <1>1, ConstantTypes DEF OpInv
  <1>5. LegInv'
    BY NoLegsType DEF LegInv, NoLeg
  <1> QED BY <1>1, <1>2, <1>3, <1>4, <1>5, NoLegsType

-----------------------------------------------------------------------------
(* Every step preserves the invariant. *)

\* The initial states satisfy the invariant.
LEMMA InitCoordinator == Init => CoordinatorInv
  <1> SUFFICES ASSUME Init PROVE CoordinatorInv
    OBVIOUS
  <1>1. /\ log \in [Shards -> [Generations -> Contents]]
        /\ at \in [Shards -> [Copies -> Generations]]
        /\ serving \in [Shards -> [Copies -> BOOLEAN]]
    BY ConstantTypes DEF Init
  <1>2. TypeOK
    BY <1>1, NoLegsType, ConstantTypes DEF Init, TypeOK, Idle, NothingDue
  <1>3. \A s \in Shards, c \in Copies : at[s][c] = 0 /\ acked[s] = {} /\ due[s] = 0
    BY DEF Init, NothingDue
  <1>4. \A w \in Writes : write[w].pc = "none" /\ write[w].gen = 0
    BY ConstantTypes DEF Init
  <1>5. WriteInv
    BY <1>4 DEF WriteInv
  <1>6. GenerationsAreWrites /\ AckInv
    BY <1>3, ConstantTypes DEF GenerationsAreWrites, AckInv
  <1>7. OpInv /\ LegInv
    BY NoLegsType, ConstantTypes DEF Init, OpInv, LegInv, Idle, NoLeg
  <1> QED BY <1>2, <1>5, <1>6, <1>7 DEF CoordinatorInv

\* index_document, delete_document: a write without a generation.
LEMMA BeginWriteInv ==
    ASSUME CoordinatorInv, NEW w \in Writes, NEW d \in Docs, NEW to \in {"present", "absent"},
           BeginWrite(w, d, to)
    PROVE  CoordinatorInv'
  <1> DEFINE r == [NoWrite EXCEPT !.pc = IF serving[Route[d]][Primary] THEN "sent" ELSE "failed",
                                  !.doc = d, !.to = to]
  <1>1. r \in WriteRecords /\ r.pc \in {"sent", "failed"} /\ r.gen = 0
    BY ConstantTypes DEF WriteRecords
  <1>2. /\ write' = [write EXCEPT ![w] = r] /\ write[w].pc = "none"
        /\ UNCHANGED <<log, at, serving, leg, acked, due, outside>>
        /\ op = Idle /\ op' = [kind |-> "write", write |-> w] /\ reply' = "none"
    BY DEF BeginWrite, TakeLock, shardVars
  <1> HIDE DEF r
  <1>3. /\ write' \in [Writes -> WriteRecords]
        /\ write'[w] = r
        /\ \A v \in Writes \ {w} : write'[v] = write[v]
    BY <1>1, <1>2, OneWrite DEF CoordinatorInv
  <1>4. TypeOK'
    BY <1>2, <1>3, ConstantTypes DEF CoordinatorInv, TypeOK, Writes
  <1>5. WriteInv'
    BY <1>1, <1>2, <1>3 DEF CoordinatorInv, WriteInv, Owner
  <1>6. GenerationsAreWrites'
    <2> SUFFICES ASSUME NEW s \in Shards, NEW g \in 1..at[s][Primary]
                 PROVE  \E v \in Writes : Route[write'[v].doc] = s /\ write'[v].gen = g
      BY <1>2 DEF GenerationsAreWrites, Owner
    <2>1. PICK v \in Writes : Owner(v) = s /\ write[v].gen = g
      BY DEF CoordinatorInv, GenerationsAreWrites
    <2>2. v # w
      BY <1>2, <2>1 DEF CoordinatorInv, WriteInv
    <2> QED BY <1>3, <2>1, <2>2 DEF Owner
  <1>7. AckInv' /\ OpInv' /\ LegInv'
    BY <1>2, ConstantTypes DEF CoordinatorInv, AckInv, OpInv, LegInv, Idle
  <1> QED BY <1>4, <1>5, <1>6, <1>7 DEF CoordinatorInv

\* The primary commits: the next generation is this write's.
LEMMA PrimaryCommitsInv ==
    ASSUME CoordinatorInv, NEW w \in Writes, PrimaryCommits(w)
    PROVE  CoordinatorInv'
  <1> DEFINE s == Owner(w)
             g == at[s][Primary]
             r == [write[w] EXCEPT !.pc = "committed", !.target = 1, !.gen = g + 1]
  <1>1. write[w] \in WriteRecords /\ write[w].doc \in Docs /\ s \in Shards
    BY WriteTypes DEF CoordinatorInv
  <1>2. write[w].pc = "sent" /\ write[w].gen = 0
    BY DEF PrimaryCommits, CoordinatorInv, WriteInv
  <1>3. g \in Generations /\ g + 1 \in Generations
    BY <1>1, <1>2, ConstantTypes, RoomForCommit DEF CoordinatorInv, TypeOK
  <1>4. r \in WriteRecords /\ r.pc = "committed" /\ r.target = 1 /\ r.gen = g + 1
        /\ r.doc = write[w].doc
    <2>1. 1 \in 0..(NumReplicas + 1)
      BY ConstantTypes
    <2> HIDE DEF s, g
    <2> QED BY <1>1, <1>3, <2>1 DEF WriteRecords
  <1>5. /\ write' = [write EXCEPT ![w] = r]
        /\ at' = [at EXCEPT ![s][Primary] = g + 1]
        /\ log' = [log EXCEPT ![s][g + 1] = [log[s][g] EXCEPT ![write[w].doc] = write[w].to]]
        /\ outside' = IF op.kind \in Kinds THEN outside \cup {s} ELSE outside
        /\ UNCHANGED <<serving, op, leg, reply, acked, due>>
    BY <1>1 DEF PrimaryCommits, NoteChange, queryVars, CoordinatorInv, TypeOK
  <1>6. log' \in [Shards -> [Generations -> Contents]]
    <2>1. [log[s][g] EXCEPT ![write[w].doc] = write[w].to] \in Contents
      BY <1>1, <1>3 DEF CoordinatorInv, TypeOK, WriteRecords, Contents
    <2> QED BY <1>1, <1>3, <1>5, <2>1 DEF CoordinatorInv, TypeOK
  <1> HIDE DEF r
  <1>7. /\ write' \in [Writes -> WriteRecords]
        /\ write'[w] = r
        /\ \A v \in Writes \ {w} : write'[v] = write[v]
    BY <1>4, <1>5, OneWrite DEF CoordinatorInv
  <1>8. /\ at' \in [Shards -> [Copies -> Generations]]
        /\ at'[s][Primary] = g + 1
        /\ \A t \in Shards, b \in Copies : <<t, b>> # <<s, Primary>> => at'[t][b] = at[t][b]
    <2>1. TypeOK /\ Primary \in Copies /\ at' = [at EXCEPT ![s][Primary] = g + 1]
      BY <1>5, ConstantTypes DEF CoordinatorInv
    <2> HIDE DEF s, g
    <2> QED BY <1>1, <1>3, <2>1 DEF TypeOK
  <1>9. TypeOK'
    BY <1>1, <1>5, <1>6, <1>7, <1>8 DEF CoordinatorInv, TypeOK
  <1>10. \A t \in Shards, b \in Copies :
            /\ at[t][b] \in Int /\ at'[t][b] \in Int /\ at[t][b] <= at'[t][b]
            /\ at'[t][b] # at[t][b] => t = s
    BY <1>3, <1>8, ConstantTypes DEF CoordinatorInv, TypeOK, Generations
  <1> HIDE DEF s, g
  <1>11. WriteInv'
    <2>1. \A v \in Writes : Owner(v)' = Owner(v) /\ Owner(v) \in Shards /\ write[v].gen \in Int
      BY <1>4, <1>7, WriteTypes DEF Owner, CoordinatorInv
    <2>2. ASSUME NEW v \in Writes \ {w}
          PROVE  /\ write'[v].pc \in {"none", "sent"} => write'[v].gen = 0
                 /\ write'[v].pc = "committed" =>
                      \A c \in Copies : c < write'[v].target => write'[v].gen <= at'[Owner(v)][c]
                 /\ write'[v].pc = "committed" => write'[v].target >= 1
                 /\ write'[v].pc = "ok" =>
                      \A c \in Copies : write'[v].gen <= at'[Owner(v)][c]
      BY <1>7, <1>10, <2>1 DEF CoordinatorInv, WriteInv
    <2>3. ASSUME NEW c \in Copies, c < 1 PROVE c = Primary
      BY <2>3 DEF Copies, Primary
    <2>4. g + 1 <= g + 1
      BY <1>3 DEF Generations
    <2> QED BY <1>4, <1>7, <1>8, <2>1, <2>2, <2>3, <2>4 DEF WriteInv, s
  <1>12. GenerationsAreWrites'
    <2> SUFFICES ASSUME NEW t \in Shards, NEW h \in 1..at'[t][Primary]
                 PROVE  \E v \in Writes : Route[write'[v].doc] = t /\ write'[v].gen = h
      BY DEF GenerationsAreWrites, Owner
    <2>1. CASE h \in 1..at[t][Primary]
      <3>1. PICK v \in Writes : Owner(v) = t /\ write[v].gen = h
        BY <2>1 DEF CoordinatorInv, GenerationsAreWrites
      <3>2. v # w
        BY <1>2, <2>1, <3>1
      <3> QED BY <1>7, <3>1, <3>2 DEF Owner
    <2>2. CASE h \notin 1..at[t][Primary]
      <3>1. t = s
        BY <1>10, <2>2, ConstantTypes
      <3>2. h = g + 1
        BY <1>3, <1>8, <2>2, <3>1 DEF g, Generations
      <3> QED BY <1>4, <1>7, <3>1, <3>2 DEF s, Owner
    <2> QED BY <2>1, <2>2
  <1>13. AckInv' /\ OpInv' /\ LegInv'
    BY <1>5, <1>9, <1>10, CopiesAdvance
  <1> QED BY <1>9, <1>11, <1>12, <1>13 DEF CoordinatorInv

\* The primary answers 404 or fails, a replica refuses, or the write is done:
\* only how far the write has got changes.
LEMMA WriteTurnsInv ==
    ASSUME CoordinatorInv, NEW w \in Writes,
           PrimaryFindsNothing(w) \/ PrimaryRefuses(w) \/ ReplicationFails(w) \/ PrimarySucceeds(w)
    PROVE  CoordinatorInv'
  <1>1. PICK turn \in {"absent", "failed", "ok"} :
           /\ write' = [write EXCEPT ![w].pc = turn]
           /\ turn = "ok" => PrimarySucceeds(w)
    BY DEF PrimaryFindsNothing, PrimaryRefuses, ReplicationFails, PrimarySucceeds
  <1> DEFINE r == [write[w] EXCEPT !.pc = turn]
  <1>2. /\ r \in WriteRecords /\ r.pc = turn /\ r.doc = write[w].doc /\ r.gen = write[w].gen
        /\ write' = [write EXCEPT ![w] = r]
    <2>1. write[w] \in WriteRecords /\ write \in [Writes -> WriteRecords]
      BY DEF CoordinatorInv, TypeOK
    <2>2. r \in WriteRecords /\ r.pc = turn /\ r.doc = write[w].doc /\ r.gen = write[w].gen
      BY <2>1 DEF WriteRecords
    <2> QED BY <1>1, <2>1, <2>2
  <1>3. UNCHANGED <<log, at, serving, op, leg, reply, acked, due, outside>>
    BY DEF PrimaryFindsNothing, PrimaryRefuses, ReplicationFails, PrimarySucceeds,
           shardVars, queryVars
  <1> HIDE DEF r
  <1>4. /\ write' \in [Writes -> WriteRecords]
        /\ write'[w] = r
        /\ \A v \in Writes \ {w} : write'[v] = write[v]
    BY <1>2, OneWrite DEF CoordinatorInv
  <1>5. TypeOK'
    BY <1>3, <1>4 DEF CoordinatorInv, TypeOK
  <1>6. \A v \in Writes : Owner(v)' = Owner(v) /\ write'[v].gen = write[v].gen
    BY <1>2, <1>4 DEF Owner
  <1>7. turn = "ok" => \A c \in Copies : write[w].gen <= at[Owner(w)][c]
    <2> SUFFICES ASSUME turn = "ok", NEW c \in Copies PROVE write[w].gen <= at[Owner(w)][c]
      OBVIOUS
    <2>1. write[w].pc = "committed" /\ write[w].target = NumReplicas + 1
      BY <1>1 DEF PrimarySucceeds
    <2>2. c < write[w].target
      BY <2>1, ConstantTypes DEF Copies
    <2> QED BY <2>1, <2>2 DEF CoordinatorInv, WriteInv
  <1>8. WriteInv'
    BY <1>1, <1>2, <1>3, <1>4, <1>6, <1>7 DEF CoordinatorInv, WriteInv
  <1>9. GenerationsAreWrites'
    BY <1>3, <1>6 DEF CoordinatorInv, GenerationsAreWrites
  <1>10. AckInv' /\ OpInv' /\ LegInv'
    BY <1>3 DEF CoordinatorInv, AckInv, OpInv, LegInv
  <1> QED BY <1>5, <1>8, <1>9, <1>10 DEF CoordinatorInv

\* A replica takes the mutation, or has it: the write has been through it.
LEMMA ReplicaAppliesInv ==
    ASSUME CoordinatorInv, NEW w \in Writes, ReplicaApplies(w)
    PROVE  CoordinatorInv'
  <1> DEFINE s == Owner(w)
             b == write[w].target
             r == [write[w] EXCEPT !.target = b + 1]
  <1>1. /\ write[w] \in WriteRecords /\ s \in Shards /\ b \in Copies
        /\ write[w].pc = "committed" /\ write[w].gen \in Generations
    BY ConstantTypes DEF ReplicaApplies, CoordinatorInv, TypeOK, WriteRecords, Owner
  <1>2. b \in 0..NumReplicas /\ NumReplicas \in Nat
    BY <1>1, ConstantTypes DEF Copies
  <1>3. /\ r \in WriteRecords /\ r.pc = "committed" /\ r.target = b + 1
        /\ r.gen = write[w].gen /\ r.doc = write[w].doc
    BY <1>1, <1>2 DEF WriteRecords
  <1>4. /\ write' = [write EXCEPT ![w] = r]
        /\ UNCHANGED <<log, serving, op, leg, reply, acked, due>>
    BY <1>1 DEF ReplicaApplies, queryVars, CoordinatorInv, TypeOK
  <1>5. \/ at[s][b] >= write[w].gen /\ UNCHANGED <<at, outside>>
        \/ /\ at[s][b] + 1 = write[w].gen /\ at' = [at EXCEPT ![s][b] = write[w].gen]
           /\ outside' = IF op.kind \in Kinds THEN outside \cup {s} ELSE outside
    BY DEF ReplicaApplies, NoteChange
  <1> HIDE DEF r, s, b
  <1>6. /\ write' \in [Writes -> WriteRecords]
        /\ write'[w] = r
        /\ \A v \in Writes \ {w} : write'[v] = write[v]
    BY <1>3, <1>4, OneWrite DEF CoordinatorInv
  <1>7. /\ at' \in [Shards -> [Copies -> Generations]]
        /\ at'[s][b] >= write[w].gen
        /\ \A t \in Shards, c \in Copies :
              /\ at[t][c] \in Int /\ at'[t][c] \in Int /\ at[t][c] <= at'[t][c]
              /\ at'[t][c] # at[t][c] => t = s /\ c = b /\ at[s][b] + 1 = write[w].gen
    <2>1. \A t \in Shards, c \in Copies : at[t][c] \in Int
      BY ConstantTypes DEF CoordinatorInv, TypeOK, Generations
    <2>2. CASE at[s][b] >= write[w].gen /\ UNCHANGED <<at, outside>>
      BY <1>1, <2>1, <2>2 DEF CoordinatorInv, TypeOK
    <2>3. CASE at[s][b] + 1 = write[w].gen /\ at' = [at EXCEPT ![s][b] = write[w].gen]
      <3>1. /\ at' \in [Shards -> [Copies -> Generations]]
            /\ at'[s][b] = write[w].gen
            /\ \A t \in Shards, c \in Copies : <<t, c>> # <<s, b>> => at'[t][c] = at[t][c]
        <4>1. TypeOK
          BY DEF CoordinatorInv
        <4>2. PICK g \in Generations : g = write[w].gen
          BY <1>1
        <4>3. s \in Shards /\ b \in Copies /\ at' = [at EXCEPT ![s][b] = g]
          BY <1>1, <2>3, <4>2
        <4>4. /\ at' \in [Shards -> [Copies -> Generations]]
              /\ at'[s][b] = g
              /\ \A t \in Shards, c \in Copies : <<t, c>> # <<s, b>> => at'[t][c] = at[t][c]
          BY <4>1, <4>3 DEF TypeOK
        <4> QED BY <4>2, <4>4
      <3>2. at[s][b] \in Int /\ write[w].gen \in Int
        BY <1>1, <2>1, ConstantTypes DEF Generations
      <3> QED BY <2>1, <2>3, <3>1, <3>2
    <2> QED BY <1>5, <2>2, <2>3
  <1>8. outside \subseteq outside' /\ outside' \subseteq Shards
        /\ (op.kind \in Kinds /\ at' # at => s \in outside')
    BY <1>1, <1>5 DEF CoordinatorInv, TypeOK
  <1>9. TypeOK'
    BY <1>4, <1>6, <1>7, <1>8 DEF CoordinatorInv, TypeOK
  <1>10. \A v \in Writes : /\ Owner(v)' = Owner(v) /\ Owner(v) \in Shards
                           /\ write'[v].gen = write[v].gen /\ write[v].gen \in Int
    BY <1>3, <1>6, WriteTypes DEF Owner, CoordinatorInv
  <1>11. WriteInv'
    <2>1. ASSUME NEW v \in Writes \ {w}
          PROVE  /\ write'[v].pc \in {"none", "sent"} => write'[v].gen = 0
                 /\ write'[v].pc = "committed" =>
                      \A c \in Copies : c < write'[v].target => write'[v].gen <= at'[Owner(v)][c]
                 /\ write'[v].pc = "committed" => write'[v].target >= 1
                 /\ write'[v].pc = "ok" =>
                      \A c \in Copies : write'[v].gen <= at'[Owner(v)][c]
      BY <1>6, SMTT(20), <1>7, <1>10 DEF CoordinatorInv, WriteInv
    <2>2. ASSUME NEW c \in Copies, c < b + 1
          PROVE  write[w].gen <= at'[s][c]
      <3>1. c \in Int /\ b \in Int
        BY <1>2, ConstantTypes DEF Copies
      <3>2. CASE c = b
        BY <1>1, <1>7, <1>10, <3>2
      <3>3. CASE c < b
        <4>1. write[w].gen <= at[s][c]
          BY <1>1, <3>3 DEF CoordinatorInv, WriteInv, s, b
        <4> QED BY <1>1, <1>7, <1>10, <4>1
      <3> QED BY <2>2, <3>1, <3>2, <3>3
    <2>3. b + 1 >= 1
      BY <1>2
    <2> QED BY <1>3, <1>6, <1>10, <2>1, <2>2, <2>3 DEF WriteInv, s
  <1>12. GenerationsAreWrites'
    <2>1. at'[s][Primary] = at[s][Primary]
      <3>1. b # Primary
        BY <1>1, <1>2 DEF CoordinatorInv, WriteInv, b, Primary
      <3> QED BY <1>1, <1>7, <3>1, ConstantTypes
    <2>2. \A t \in Shards : at'[t][Primary] = at[t][Primary]
      BY <1>7, <2>1, ConstantTypes
    <2> QED BY <1>10, <2>2 DEF CoordinatorInv, GenerationsAreWrites
  <1>13. AckInv' /\ OpInv' /\ LegInv'
    <2>1. \A t \in Shards, c \in Copies :
             /\ at[t][c] <= at'[t][c]
             /\ op.kind \in Kinds /\ at'[t][c] # at[t][c] => t \in outside'
      BY <1>7, <1>8
    <2> QED BY <1>4, <1>8, <1>9, <2>1, CopiesAdvance
  <1> QED BY <1>9, <1>11, <1>12, <1>13 DEF CoordinatorInv

\* The client is answered: a mutation that is acknowledged is on every copy.
LEMMA WriteAnsweredInv ==
    ASSUME CoordinatorInv, WriteAnswered
    PROVE  CoordinatorInv'
  <1> DEFINE w == op.write
  <1>1. /\ w \in Writes /\ Owner(w) \in Shards /\ write[w].gen \in Generations
        /\ op.kind \notin Kinds
    BY ConstantTypes, WriteTypes DEF WriteAnswered, CoordinatorInv, OpInv
  <1>2. /\ acked' = IF write[w].pc = "ok"
                    THEN [acked EXCEPT ![Owner(w)] = acked[Owner(w)] \cup {write[w].gen}] ELSE acked
        /\ ReleaseLock /\ leg' = NoLegs
        /\ UNCHANGED <<log, at, serving, write, leg, reply>>
    BY <1>1 DEF WriteAnswered, shardVars, queryVars, CoordinatorInv, OpInv, TypeOK
  <1> HIDE DEF w
  <1>3. /\ acked' \in [Shards -> SUBSET Generations]
        /\ \A s \in Shards, c \in Copies : \A g \in acked'[s] : g <= at[s][c]
    <2>1. /\ acked \in [Shards -> SUBSET Generations]
          /\ \A s \in Shards, c \in Copies : \A g \in acked[s] : g <= at[s][c]
      BY DEF CoordinatorInv, TypeOK, AckInv
    <2>2. write[w].pc = "ok" => \A c \in Copies : write[w].gen <= at[Owner(w)][c]
      BY <1>1 DEF CoordinatorInv, WriteInv
    <2> QED BY <1>1, <1>2, <2>1, <2>2
  <1>4. /\ op' \in [kind : Kinds \cup {"idle", "write"}, write : 0..MaxWrites]
        /\ leg' \in [Paths -> [Shards -> LegRecords]]
        /\ due' \in [Shards -> Generations]
        /\ outside' \subseteq Shards
        /\ AckInv' /\ OpInv' /\ LegInv'
    BY <1>2, <1>3, OperationEnds
  <1>5. TypeOK'
    BY <1>2, <1>3, <1>4 DEF CoordinatorInv, TypeOK
  <1> QED BY <1>2, <1>4, <1>5, WritesStay DEF CoordinatorInv

\* A write is given up, a read is answered, or the coordinator is restarted.
LEMMA OperationEndsInv ==
    ASSUME CoordinatorInv, WriteTimesOut \/ FinishRead \/ CoordinatorRestarts
    PROVE  CoordinatorInv'
  <1>1. /\ ReleaseLock /\ leg' = NoLegs
        /\ UNCHANGED <<log, at, serving, write, acked>>
        /\ reply' \in {"none", "2xx", "503"}
    BY ConstantTypes DEF WriteTimesOut, FinishRead, CoordinatorRestarts, shardVars, queryVars,
                         CoordinatorInv, OpInv, TypeOK
  <1>2. \A s \in Shards, c \in Copies : \A g \in acked'[s] : g <= at[s][c]
    BY <1>1 DEF CoordinatorInv, AckInv
  <1>3. /\ op' \in [kind : Kinds \cup {"idle", "write"}, write : 0..MaxWrites]
        /\ leg' \in [Paths -> [Shards -> LegRecords]]
        /\ due' \in [Shards -> Generations]
        /\ outside' \subseteq Shards
        /\ AckInv' /\ OpInv' /\ LegInv'
    BY <1>1, <1>2, OperationEnds
  <1>4. TypeOK'
    BY <1>1, <1>3 DEF CoordinatorInv, TypeOK
  <1> QED BY <1>1, <1>3, <1>4, WritesStay DEF CoordinatorInv

\* A read begins: it is owed what has been acknowledged, which every copy has.
LEMMA BeginReadInv ==
    ASSUME CoordinatorInv, NEW kind \in Kinds, BeginRead(kind)
    PROVE  CoordinatorInv'
  <1>1. /\ op' = [kind |-> kind, write |-> 0] /\ reply' = "none"
        /\ leg' = [p \in Paths |-> [s \in Shards |->
                      IF p \in PathsOf(kind) THEN [NoLeg EXCEPT !.pc = "ask"] ELSE NoLeg]]
        /\ due' = [s \in Shards |-> Latest(acked[s])]
        /\ UNCHANGED <<log, at, serving, write, acked, outside>>
    BY DEF BeginRead, TakeLock, shardVars
  <1>2. [NoLeg EXCEPT !.pc = "ask"] \in LegRecords
    BY ConstantTypes DEF LegRecords
  <1>3. leg' \in [Paths -> [Shards -> LegRecords]]
    BY <1>1, <1>2, ConstantTypes
  <1>4. \A s \in Shards : /\ acked[s] \in SUBSET Generations
                          /\ Latest(acked[s]) \in Generations
                          /\ acked[s] # {} => Latest(acked[s]) \in acked[s]
                          /\ acked[s] = {} => Latest(acked[s]) = 0
    BY LatestType DEF CoordinatorInv, TypeOK, Latest
  <1>5. due' \in [Shards -> Generations]
    BY <1>1, <1>4
  <1>6. TypeOK'
    <2>1. /\ op' \in [kind : Kinds \cup {"idle", "write"}, write : 0..MaxWrites]
          /\ reply' \in {"none", "2xx", "503"}
      BY <1>1, ConstantTypes
    <2>2. UNCHANGED <<log, at, serving, write, acked, outside>>
      BY <1>1
    <2> QED BY <1>3, <1>5, <2>1, <2>2 DEF CoordinatorInv, TypeOK
  <1>7. AckInv'
    <2>1. \A s \in Shards, c \in Copies : 0 <= at[s][c]
      BY ConstantTypes DEF CoordinatorInv, TypeOK, Generations
    <2>2. \A s \in Shards, c \in Copies : Latest(acked[s]) <= at[s][c]
      BY <1>4, <2>1 DEF CoordinatorInv, AckInv
    <2> QED BY <1>1, <2>2 DEF CoordinatorInv, AckInv
  <1>8. OpInv'
    BY <1>1, ConstantTypes DEF OpInv
  <1>9. LegInv'
    <2>1. \A p \in Paths, s \in Shards : /\ leg'[p][s].pc \in {"ask", "off"}
                                         /\ leg'[p][s].first = leg'[p][s].second
      BY <1>1 DEF NoLeg
    <2> QED BY <2>1 DEF LegInv
  <1> QED BY <1>1, <1>6, <1>7, <1>8, <1>9, WritesStay DEF CoordinatorInv

\* Steps that change legs and nothing else.
LEMMA LegsChange ==
    ASSUME CoordinatorInv, op.kind \in Kinds, leg' \in [Paths -> [Shards -> LegRecords]],
           UNCHANGED <<log, at, serving, write, op, reply, acked, due, outside>>, LegInv'
    PROVE  CoordinatorInv'
  <1>1. TypeOK'
    BY DEF CoordinatorInv, TypeOK
  <1>2. AckInv' /\ OpInv'
    BY DEF CoordinatorInv, AckInv, OpInv
  <1> QED BY <1>1, <1>2, WritesStay DEF CoordinatorInv

\* A leg that is under way is the leg of a read.
LEMMA LegOfRead ==
    ASSUME CoordinatorInv, NEW p \in Paths, NEW s \in Shards, leg[p][s].pc # "off"
    PROVE  op.kind \in Kinds
  BY NoLegsType DEF CoordinatorInv, OpInv, NoLeg

\* A copy answers with what it holds, or the next one is asked.
LEMMA LegStepInv ==
    ASSUME CoordinatorInv, NEW p \in Paths, NEW s \in Shards, LegStep(p, s)
    PROVE  CoordinatorInv'
  <1> DEFINE l == leg[p][s]
  <1>1. /\ l \in LegRecords /\ l.pc = "ask" /\ l.copy \in Copies /\ op.kind \in Kinds
        /\ UNCHANGED <<log, at, serving, write, op, reply, acked, due, outside>>
    <2>1. l \in LegRecords /\ l.pc = "ask"
      BY DEF LegStep, CopyAnswers, CopyFails, CoordinatorInv, TypeOK
    <2>2. l.copy \in Copies
      BY <2>1 DEF LegRecords
    <2> QED BY <2>1, <2>2, LegOfRead DEF LegStep, CopyAnswers, CopyFails, shardVars
  <1>2. at[s][l.copy] \in Generations /\ due[s] <= at[s][l.copy]
    BY <1>1 DEF CoordinatorInv, TypeOK, AckInv
  <1>3. \E m \in LegRecords :
           /\ leg' = [leg EXCEPT ![p][s] = m]
           /\ \/ /\ m.copy = l.copy /\ m.first = at[s][l.copy]
                 /\ m.second = m.first
              \/ m.pc \in {"ask", "failed"} /\ m.first = l.first /\ m.second = l.second
    <2>1. CASE CopyAnswers(p, s)
      <3> DEFINE m == [pc |-> IF p = "lexical" THEN "pinned" ELSE "done", copy |-> l.copy,
                       first |-> at[s][l.copy], second |-> at[s][l.copy]]
      <3>1. m \in LegRecords
        BY <1>1, <1>2 DEF LegRecords
      <3>2. leg' = [leg EXCEPT ![p][s] = m]
        BY <2>1 DEF CopyAnswers
      <3> QED BY <3>1, <3>2
    <2>2. CASE CopyFails(p, s)
      <3> DEFINE m == IF l.copy = NumReplicas THEN [l EXCEPT !.pc = "failed"]
                      ELSE [l EXCEPT !.copy = l.copy + 1]
      <3>1. l.copy # NumReplicas => l.copy + 1 \in Copies
        BY <1>1, ConstantTypes DEF Copies
      <3>2. /\ m \in LegRecords /\ m.pc \in {"ask", "failed"}
            /\ m.first = l.first /\ m.second = l.second
        BY <1>1, <3>1 DEF LegRecords
      <3>3. leg' = [leg EXCEPT ![p][s] = m]
        BY <2>2 DEF CopyFails
      <3> QED BY <3>2, <3>3
    <2> QED BY <2>1, <2>2 DEF LegStep
  <1>4. PICK m \in LegRecords :
           /\ leg' = [leg EXCEPT ![p][s] = m]
           /\ \/ /\ m.copy = l.copy /\ m.first = at[s][l.copy]
                 /\ m.second = m.first
              \/ m.pc \in {"ask", "failed"} /\ m.first = l.first /\ m.second = l.second
    BY <1>3
  <1>5. /\ leg' \in [Paths -> [Shards -> LegRecords]]
        /\ leg'[p][s] = m
        /\ \A q \in Paths, t \in Shards : <<q, t>> # <<p, s>> => leg'[q][t] = leg[q][t]
    BY <1>4 DEF CoordinatorInv, TypeOK
  <1>6. LegInv'
    <2>1. /\ m.pc \in {"pinned", "score", "done"} => due[s] <= m.first
          /\ m.pc \in {"pinned", "score"} => at[s][m.copy] = m.first
          /\ m.first = m.second \/ s \in outside
      BY <1>2, <1>4 DEF CoordinatorInv, LegInv
    <2> QED BY <1>1, <1>5, <2>1 DEF CoordinatorInv, LegInv
  <1> QED BY <1>1, <1>5, <1>6, LegsChange

\* The first round is over: the legs keep what they were told.
LEMMA CollectInv ==
    ASSUME CoordinatorInv, Collect
    PROVE  CoordinatorInv'
  <1> DEFINE l == leg["lexical"]
  <1>1. "lexical" \in Paths /\ l \in [Shards -> LegRecords]
    BY DEF Paths, CoordinatorInv, TypeOK
  <1>2. /\ \A s \in Shards : l[s].pc \in {"pinned", "failed"}
        /\ UNCHANGED <<log, at, serving, write, op, reply, acked, due, outside>>
        /\ op.kind \in Kinds
    BY <1>1, LegOfRead DEF Collect, shardVars
  <1>3. PICK turn \in {"failed", "done", "score"} :
           /\ leg' = [leg EXCEPT !["lexical"] = [s \in Shards |-> [l[s] EXCEPT !.pc = turn]]]
           /\ turn \in {"done", "score"} => \A s \in Shards : l[s].pc = "pinned"
    BY <1>2 DEF Collect
  <1>4. \A s \in Shards : /\ [l[s] EXCEPT !.pc = turn] \in LegRecords
                          /\ [l[s] EXCEPT !.pc = turn].pc = turn
                          /\ [l[s] EXCEPT !.pc = turn].copy = l[s].copy
                          /\ [l[s] EXCEPT !.pc = turn].first = l[s].first
                          /\ [l[s] EXCEPT !.pc = turn].second = l[s].second
    BY <1>1 DEF LegRecords
  <1>5. /\ leg' \in [Paths -> [Shards -> LegRecords]]
        /\ \A s \in Shards : leg'["lexical"][s] = [l[s] EXCEPT !.pc = turn]
        /\ \A p \in Paths \ {"lexical"} : leg'[p] = leg[p]
    BY <1>1, <1>3, <1>4 DEF CoordinatorInv, TypeOK
  <1>6. LegInv'
    <2> SUFFICES ASSUME NEW p \in Paths, NEW s \in Shards
                 PROVE  LET m == leg'[p][s] IN
                        /\ m.pc \in {"pinned", "score", "done"} => due[s] <= m.first
                        /\ m.pc \in {"pinned", "score"} => at[s][m.copy] = m.first \/ s \in outside
                        /\ m.first = m.second \/ s \in outside
      BY <1>2 DEF LegInv
    <2>1. CASE p = "lexical"
      <3>1. /\ leg'[p][s].pc = turn /\ leg'[p][s].copy = l[s].copy
            /\ leg'[p][s].first = l[s].first /\ leg'[p][s].second = l[s].second
        BY <1>4, <1>5, <2>1
      <3>2. /\ l[s].pc = "pinned" => due[s] <= l[s].first
            /\ l[s].pc = "pinned" => at[s][l[s].copy] = l[s].first \/ s \in outside
            /\ l[s].first = l[s].second \/ s \in outside
        BY <1>1 DEF CoordinatorInv, LegInv
      <3> QED BY <1>3, <3>1, <3>2
    <2>2. CASE p # "lexical"
      BY <1>5, <2>2 DEF CoordinatorInv, LegInv
    <2> QED BY <2>1, <2>2
  <1> QED BY <1>2, <1>5, <1>6, LegsChange

\* The pinned copy scores, with the corpus it had or with one that was changed
\* from outside, or fails.
LEMMA ScoreStepInv ==
    ASSUME CoordinatorInv, NEW s \in Shards, ScoreStep(s)
    PROVE  CoordinatorInv'
  <1> DEFINE l == leg["lexical"][s]
  <1>1. /\ "lexical" \in Paths /\ l \in LegRecords /\ l.pc = "score" /\ l.copy \in Copies
        /\ UNCHANGED <<log, at, serving, write, op, reply, acked, due, outside>>
        /\ op.kind \in Kinds
    <2>1. "lexical" \in Paths /\ l \in LegRecords /\ l.pc = "score"
      BY DEF ScoreStep, Score, ScoreFails, CoordinatorInv, TypeOK, Paths
    <2>2. l.copy \in Copies
      BY <2>1 DEF LegRecords
    <2> QED BY <2>1, <2>2, LegOfRead DEF ScoreStep, Score, ScoreFails, shardVars
  <1>2. at[s][l.copy] \in Generations
    BY <1>1 DEF CoordinatorInv, TypeOK
  <1>3. /\ due[s] <= l.first
        /\ at[s][l.copy] = l.first \/ s \in outside
        /\ l.first = l.second \/ s \in outside
    BY <1>1 DEF CoordinatorInv, LegInv
  <1>4. \E m \in LegRecords :
           /\ leg' = [leg EXCEPT !["lexical"][s] = m]
           /\ m.first = l.first /\ m.pc \in {"done", "failed"}
           /\ m.second \in {l.second, at[s][l.copy]}
    <2>1. CASE Score(s)
      <3> DEFINE m == [l EXCEPT !.pc = "done", !.second = at[s][l.copy]]
      <3>1. m \in LegRecords /\ m.first = l.first /\ m.pc = "done" /\ m.second = at[s][l.copy]
        BY <1>1, <1>2 DEF LegRecords
      <3>2. leg' = [leg EXCEPT !["lexical"][s] = m]
        BY <1>1, <2>1 DEF Score, CoordinatorInv, TypeOK
      <3> QED BY <3>1, <3>2
    <2>2. CASE ScoreFails(s)
      <3> DEFINE m == [l EXCEPT !.pc = "failed"]
      <3>1. m \in LegRecords /\ m.first = l.first /\ m.pc = "failed" /\ m.second = l.second
        BY <1>1 DEF LegRecords
      <3>2. leg' = [leg EXCEPT !["lexical"][s] = m]
        BY <1>1, <2>2 DEF ScoreFails, CoordinatorInv, TypeOK
      <3> QED BY <3>1, <3>2
    <2> QED BY <2>1, <2>2 DEF ScoreStep
  <1>5. PICK m \in LegRecords :
           /\ leg' = [leg EXCEPT !["lexical"][s] = m]
           /\ m.first = l.first /\ m.pc \in {"done", "failed"}
           /\ m.second \in {l.second, at[s][l.copy]}
    BY <1>4
  <1>6. /\ leg' \in [Paths -> [Shards -> LegRecords]]
        /\ leg'["lexical"][s] = m
        /\ \A q \in Paths, t \in Shards : <<q, t>> # <<"lexical", s>> => leg'[q][t] = leg[q][t]
    <2>1. TypeOK /\ "lexical" \in Paths /\ leg' = [leg EXCEPT !["lexical"][s] = m]
      BY <1>1, <1>5 DEF CoordinatorInv
    <2> HIDE DEF l
    <2> QED BY <2>1 DEF TypeOK
  <1>7. LegInv'
    BY <1>1, <1>3, <1>5, <1>6 DEF CoordinatorInv, LegInv
  <1> QED BY <1>1, <1>6, <1>7, LegsChange

\* A copy stops: what its writes held stays behind, but none of them goes on.
LEMMA CopyDownInv ==
    ASSUME CoordinatorInv, NEW s \in Shards, NEW c \in Copies, CopyDown(s, c)
    PROVE  CoordinatorInv'
  <1>1. /\ serving' = [serving EXCEPT ![s][c] = FALSE]
        /\ UNCHANGED <<log, at, op, leg, reply, acked, due, outside>>
    BY DEF CopyDown, queryVars
  <1>2. \A w \in Writes : /\ write'[w] = write[w] \/ write'[w] = [write[w] EXCEPT !.pc = "failed"]
                          /\ write'[w] \in WriteRecords
    <2> SUFFICES ASSUME NEW w \in Writes
                 PROVE  /\ write'[w] = write[w] \/ write'[w] = [write[w] EXCEPT !.pc = "failed"]
                        /\ write'[w] \in WriteRecords
      OBVIOUS
    <2>1. write[w] \in WriteRecords
      BY WriteTypes DEF CoordinatorInv
    <2>2. [write[w] EXCEPT !.pc = "failed"] \in WriteRecords
      BY <2>1 DEF WriteRecords
    <2>3. write'[w] = write[w] \/ write'[w] = [write[w] EXCEPT !.pc = "failed"]
      BY DEF CopyDown
    <2> QED BY <2>1, <2>2, <2>3
  <1>3. \A w \in Writes : /\ write'[w].gen = write[w].gen
                          /\ write'[w].doc = write[w].doc
                          /\ write'[w] = write[w] \/ write'[w].pc = "failed"
    <2>1. \A w \in Writes : write[w] \in WriteRecords
      BY WriteTypes DEF CoordinatorInv
    <2> QED BY <1>2, <2>1 DEF WriteRecords
  <1>4. TypeOK'
    <2>1. DOMAIN write' = Writes /\ write' = [w \in Writes |-> write'[w]]
      BY DEF CopyDown
    <2>2. write' \in [Writes -> WriteRecords]
      BY <1>2, <2>1
    <2>3. serving' \in [Shards -> [Copies -> BOOLEAN]]
      BY <1>1 DEF CoordinatorInv, TypeOK
    <2> QED BY <1>1, <2>2, <2>3 DEF CoordinatorInv, TypeOK
  <1>5. WriteInv'
    BY <1>1, <1>3 DEF CoordinatorInv, WriteInv, Owner
  <1>6. GenerationsAreWrites'
    <2> SUFFICES ASSUME NEW t \in Shards, NEW g \in 1..at[t][Primary]
                 PROVE  \E w \in Writes : Route[write'[w].doc] = t /\ write'[w].gen = g
      BY <1>1 DEF GenerationsAreWrites, Owner
    <2>1. PICK w \in Writes : Owner(w) = t /\ write[w].gen = g
      BY DEF CoordinatorInv, GenerationsAreWrites
    <2> QED BY <1>3, <2>1 DEF Owner
  <1>7. AckInv' /\ OpInv' /\ LegInv'
    BY <1>1 DEF CoordinatorInv, AckInv, OpInv, LegInv
  <1> QED BY <1>4, <1>5, <1>6, <1>7 DEF CoordinatorInv

\* A copy serves again, where it was or further on.
LEMMA CopyUpInv ==
    ASSUME CoordinatorInv, NEW s \in Shards, NEW c \in Copies, CopyUp(s, c)
    PROVE  CoordinatorInv'
  <1>1. /\ serving' = [serving EXCEPT ![s][c] = TRUE]
        /\ UNCHANGED <<log, write, op, leg, reply, acked, due>>
    BY DEF CopyUp, queryVars
  <1>2. serving' \in [Shards -> [Copies -> BOOLEAN]]
    BY <1>1 DEF CoordinatorInv, TypeOK
  <1>3. /\ at' \in [Shards -> [Copies -> Generations]]
        /\ outside \subseteq outside' /\ outside' \subseteq Shards
        /\ \A t \in Shards : at'[t][Primary] = at[t][Primary]
        /\ \A t \in Shards, b \in Copies :
              /\ at[t][b] <= at'[t][b]
              /\ op.kind \in Kinds /\ at'[t][b] # at[t][b] => t \in outside'
    <2>1. \A t \in Shards, b \in Copies : at[t][b] \in Int
      BY ConstantTypes DEF CoordinatorInv, TypeOK, Generations
    <2>2. CASE UNCHANGED <<at, outside>>
      BY <2>1, <2>2 DEF CoordinatorInv, TypeOK
    <2>3. CASE c # Primary /\ (\E g \in (at[s][c] + 1)..at[s][Primary] : at' = [at EXCEPT ![s][c] = g])
               /\ NoteChange(s)
      <3>1. PICK g \in (at[s][c] + 1)..at[s][Primary] : at' = [at EXCEPT ![s][c] = g]
        BY <2>3
      <3>2. at[s][c] \in Generations /\ at[s][Primary] \in Generations /\ MaxWrites \in Nat
        BY ConstantTypes DEF CoordinatorInv, TypeOK
      <3>3. g \in Generations /\ at[s][c] <= g
        BY <3>2 DEF Generations
      <3>4. /\ at' \in [Shards -> [Copies -> Generations]]
            /\ at'[s][c] = g
            /\ \A t \in Shards, b \in Copies : <<t, b>> # <<s, c>> => at'[t][b] = at[t][b]
        BY <3>1, <3>3 DEF CoordinatorInv, TypeOK
      <3>5. /\ outside \subseteq outside' /\ outside' \subseteq Shards
            /\ op.kind \in Kinds => s \in outside'
        BY <2>3 DEF NoteChange, CoordinatorInv, TypeOK
      <3>6. \A t \in Shards : at'[t][Primary] = at[t][Primary]
        BY <2>3, <3>4, ConstantTypes
      <3>7. \A t \in Shards, b \in Copies :
              /\ at[t][b] <= at'[t][b]
              /\ op.kind \in Kinds /\ at'[t][b] # at[t][b] => t \in outside'
        BY <2>1, <3>3, <3>4, <3>5
      <3> QED BY <3>4, <3>5, <3>6, <3>7
    <2> QED BY <2>2, <2>3 DEF CopyUp
  <1>4. TypeOK'
    BY <1>1, <1>2, <1>3 DEF CoordinatorInv, TypeOK
  <1>5. WriteInv'
    <2> SUFFICES ASSUME NEW w \in Writes, NEW b \in Copies, write[w].gen <= at[Owner(w)][b]
                 PROVE  write[w].gen <= at'[Owner(w)][b]
      BY <1>1 DEF CoordinatorInv, WriteInv, Owner
    <2>1. /\ Owner(w) \in Shards /\ write[w].gen \in Int
          /\ at[Owner(w)][b] \in Int /\ at'[Owner(w)][b] \in Int
      <3>1. Owner(w) \in Shards /\ write[w].gen \in Int
        BY WriteTypes DEF CoordinatorInv
      <3> QED BY <1>3, <3>1, ConstantTypes DEF CoordinatorInv, TypeOK, Generations
    <2> QED BY <1>3, <2>1
  <1>6. GenerationsAreWrites'
    BY <1>1, <1>3 DEF CoordinatorInv, GenerationsAreWrites, Owner
  <1>7. AckInv' /\ OpInv' /\ LegInv'
    BY <1>1, <1>3, <1>4, CopiesAdvance
  <1> QED BY <1>4, <1>5, <1>6, <1>7 DEF CoordinatorInv

\* Nothing happens.
LEMMA StutterInv ==
    ASSUME CoordinatorInv, UNCHANGED vars
    PROVE  CoordinatorInv'
  <1>1. TypeOK' /\ AckInv' /\ OpInv' /\ LegInv'
    BY DEF vars, CoordinatorInv, TypeOK, AckInv, OpInv, LegInv
  <1> QED BY <1>1, WritesStay DEF vars, CoordinatorInv

-----------------------------------------------------------------------------
(* Reads *)

\* Every step of the coordinator and of the shards preserves the invariant.
LEMMA CoordinatorInductive ==
    CoordinatorInv /\ [Next]_vars => CoordinatorInv'
  <1> SUFFICES ASSUME CoordinatorInv, [Next]_vars PROVE CoordinatorInv'
    OBVIOUS
  <1>1. CASE UNCHANGED vars
    BY <1>1, StutterInv
  <1>2. ASSUME NEW w \in Writes, NEW d \in Docs, NEW to \in {"present", "absent"},
               BeginWrite(w, d, to)
        PROVE  CoordinatorInv'
    BY <1>2, BeginWriteInv
  <1>3. ASSUME NEW w \in Writes, WriteStep(w)
        PROVE  CoordinatorInv'
    BY <1>3, PrimaryCommitsInv, WriteTurnsInv, ReplicaAppliesInv DEF WriteStep
  <1>4. CASE WriteAnswered
    BY <1>4, WriteAnsweredInv
  <1>5. CASE WriteTimesOut \/ FinishRead \/ CoordinatorRestarts
    BY <1>5, OperationEndsInv
  <1>6. ASSUME NEW kind \in Kinds, BeginRead(kind)
        PROVE  CoordinatorInv'
    BY <1>6, BeginReadInv
  <1>7. ASSUME NEW p \in Paths, NEW s \in Shards, LegStep(p, s)
        PROVE  CoordinatorInv'
    BY <1>7, LegStepInv
  <1>8. CASE Collect
    BY <1>8, CollectInv
  <1>9. ASSUME NEW s \in Shards, ScoreStep(s)
        PROVE  CoordinatorInv'
    BY <1>9, ScoreStepInv
  <1>10. ASSUME NEW s \in Shards, NEW c \in Copies, CopyDown(s, c) \/ CopyUp(s, c)
         PROVE  CoordinatorInv'
    BY <1>10, CopyDownInv, CopyUpInv
  <1> QED
    BY <1>1, <1>2, <1>3, <1>4, <1>5, <1>6, <1>7, <1>8, <1>9, <1>10 DEF Next

\* Copies and the writes between them, acknowledgements and legs stay in step.
THEOREM CoordinatorAlways == Spec => []CoordinatorInv
  BY InitCoordinator, CoordinatorInductive, PTL DEF Spec

\* The coordinator and its shards stay within their types; in particular no
\* shard runs out of generations and no leg runs past the last copy.
THEOREM CoordinatorTypes == Spec => []TypeOK
  <1>1. CoordinatorInv => TypeOK
    BY DEF CoordinatorInv
  <1> QED BY <1>1, CoordinatorAlways, PTL

\* Only the end of a read answers one with a 2xx.
LEMMA AnsweredByFinish ==
    ASSUME CoordinatorInv, Next, Answered
    PROVE  FinishRead /\ \A p \in PathsOf(op.kind), s \in Shards : leg[p][s].pc = "done"
  <1>1. reply = "none" /\ reply' = "2xx" /\ op.kind \in Kinds
    BY DEF Answered, CoordinatorInv, OpInv
  <1>2. FinishRead
    <2>1. ~UNCHANGED reply /\ reply' # "none"
      BY <1>1
    <2>2. ASSUME NEW w \in Writes, WriteStep(w) PROVE FALSE
      BY <2>1, <2>2 DEF WriteStep, PrimaryCommits, PrimaryFindsNothing, PrimaryRefuses,
                        ReplicaApplies, ReplicationFails, PrimarySucceeds, queryVars
    <2>3. ASSUME NEW p \in Paths, NEW s \in Shards, LegStep(p, s) PROVE FALSE
      BY <2>1, <2>3 DEF LegStep, CopyAnswers, CopyFails
    <2>4. ASSUME NEW s \in Shards, ScoreStep(s) PROVE FALSE
      BY <2>1, <2>4 DEF ScoreStep, Score, ScoreFails
    <2>5. ASSUME NEW s \in Shards, NEW c \in Copies, CopyDown(s, c) \/ CopyUp(s, c) PROVE FALSE
      BY <2>1, <2>5 DEF CopyDown, CopyUp, queryVars
    <2>6. ~WriteAnswered /\ ~WriteTimesOut /\ ~Collect /\ ~CoordinatorRestarts
      BY <2>1 DEF WriteAnswered, WriteTimesOut, Collect, CoordinatorRestarts, queryVars
    <2>7. ASSUME NEW w \in Writes, NEW d \in Docs, NEW to \in {"present", "absent"},
                 BeginWrite(w, d, to)
          PROVE  FALSE
      BY <2>1, <2>7 DEF BeginWrite, TakeLock
    <2>8. ASSUME NEW kind \in Kinds, BeginRead(kind) PROVE FALSE
      BY <2>1, <2>8 DEF BeginRead, TakeLock
    <2> QED BY <2>2, <2>3, <2>4, <2>5, <2>6, <2>7, <2>8 DEF Next
  <1>3. \A p \in PathsOf(op.kind), s \in Shards : leg[p][s].pc = "done"
    BY <1>1, <1>2 DEF FinishRead, Ended
  <1> QED BY <1>2, <1>3

\* A read that is answered with a 2xx is complete, and shows everything that was
\* acknowledged before it began, whichever copies answered.
THEOREM CoordinatorReadsAreFresh == Spec => ReadsAreFresh
  <1>1. ASSUME CoordinatorInv, [Next]_vars
        PROVE  [Answered => \A p \in PathsOf(op.kind), s \in Shards :
                   leg[p][s].pc = "done" /\ due[s] <= leg[p][s].first]_vars
    <2> SUFFICES ASSUME Next, Answered, NEW p \in PathsOf(op.kind), NEW s \in Shards
                 PROVE  leg[p][s].pc = "done" /\ due[s] <= leg[p][s].first
      BY <1>1
    <2>1. p \in Paths
      BY DEF PathsOf, Paths
    <2>2. leg[p][s].pc = "done"
      BY <1>1, AnsweredByFinish
    <2> QED BY <1>1, <2>1, <2>2 DEF CoordinatorInv, LegInv
  <1> QED BY <1>1, CoordinatorAlways, PTL DEF Spec, ReadsAreFresh

\* Statistics and scores of a search describe one corpus of every shard that
\* nobody changed meanwhile.
THEOREM CoordinatorRoundsAgree == Spec => RoundsAgree
  <1>1. ASSUME CoordinatorInv, [Next]_vars
        PROVE  [Answered => \A s \in Shards :
                   leg["lexical"][s].first # leg["lexical"][s].second => s \in outside]_vars
    <2>1. "lexical" \in Paths
      BY DEF Paths
    <2> QED BY <1>1, <2>1 DEF CoordinatorInv, LegInv
  <1> QED BY <1>1, CoordinatorAlways, PTL DEF Spec, RoundsAgree

\* Every shard begins as an empty log.
LEMMA ShardsInit ==
    ASSUME Init, NEW s \in Shards
    PROVE  Shard(s)!LInit
  <1>1. log[s] = [g \in 0..MaxWrites |-> NoContent]
    BY DEF Init, Generations
  <1>2. at[s] = [c \in Copies |-> 0] /\ acked[s] = {}
    BY DEF Init
  <1>3. [c \in Copies |-> IF serving[s][c] THEN log[s][at[s][c]] ELSE NoAnswer] = [c \in Copies |-> NoAnswer]
    BY DEF Init
  <1> QED BY <1>1, <1>2, <1>3 DEF Shard!LInit

\* A copy that serves answers from the entry it holds.
LEMMA ShardReads ==
    ASSUME NEW s \in Shards
    PROVE  (\A c \in Copies : Shard(s)!ReadsHeldEntry(c))'
  BY DEF Shard!ReadsHeldEntry

\* A shard that a step leaves alone.
LEMMA ShardStays ==
    ASSUME NEW s \in Shards, log'[s] = log[s], at'[s] = at[s], acked'[s] = acked[s]
    PROVE  Shard(s)!LNext
  BY ShardReads DEF Shard!LNext

\* The primary's commit appends to the log of the document's owner.
LEMMA CommitAppends ==
    ASSUME CoordinatorInv, NEW w \in Writes, PrimaryCommits(w), NEW s \in Shards
    PROVE  Shard(s)!LNext
  <1> DEFINE o == Owner(w)
             g == at[o][Primary]
             d == write[w].doc
             v == write[w].to
  <1>1. /\ o \in Shards /\ d \in Docs /\ v \in {"present", "absent"}
    <2>1. write[w] \in WriteRecords /\ o \in Shards
      BY WriteTypes DEF CoordinatorInv
    <2> QED BY <2>1 DEF WriteRecords
  <1>2. /\ log' = [log EXCEPT ![o][g + 1] = [log[o][g] EXCEPT ![d] = v]]
        /\ at' = [at EXCEPT ![o][Primary] = g + 1]
        /\ UNCHANGED acked
        /\ write[w].pc = "sent"
    BY DEF PrimaryCommits
  <1>3. /\ log \in [Shards -> [Generations -> Contents]]
        /\ at \in [Shards -> [Copies -> Generations]]
    BY DEF CoordinatorInv, TypeOK
  <1>4. g < MaxWrites
    <2>1. g \in Generations /\ g + 1 \in Generations /\ MaxWrites \in Nat
      BY <1>1, <1>2, <1>3, ConstantTypes, RoomForCommit DEF CoordinatorInv
    <2> HIDE DEF g
    <2> QED BY <2>1 DEF Generations
  <1> HIDE DEF o, d, v
  <1>5. CASE s = o
    <2>1. Shard(s)!Append(d, v)
      BY <1>1, <1>2, <1>3, <1>4, <1>5 DEF Shard!Append
    <2> QED BY <1>1, <2>1, ShardReads DEF Shard!LNext
  <1>6. CASE s # o
    <2>1. log'[s] = log[s] /\ at'[s] = at[s] /\ acked'[s] = acked[s]
      BY <1>2, <1>3, <1>6
    <2> QED BY <2>1, ShardStays
  <1> QED BY <1>5, <1>6

\* A copy other than the primary moves forward, no further than the primary.
LEMMA CopyAdvances ==
    ASSUME CoordinatorInv, NEW o \in Shards, NEW c \in Copies, c # Primary, NEW g \in Generations,
           at[o][c] <= g, g <= at[o][Primary], at' = [at EXCEPT ![o][c] = g],
           UNCHANGED <<log, acked>>, NEW s \in Shards
    PROVE  Shard(s)!LNext
  <1>1. at \in [Shards -> [Copies -> Generations]]
    BY DEF CoordinatorInv, TypeOK
  <1>2. CASE s = o
    <2>1. Shard(s)!Advance(c, g)
      BY <1>1, <1>2 DEF Shard!Advance
    <2> QED BY <2>1, ShardReads DEF Shard!LNext, Generations
  <1>3. CASE s # o
    <2>1. log'[s] = log[s] /\ at'[s] = at[s] /\ acked'[s] = acked[s]
      BY <1>1, <1>3
    <2> QED BY <2>1, ShardStays
  <1> QED BY <1>2, <1>3

\* A replica takes a mutation that its primary has committed.
LEMMA ApplyAdvances ==
    ASSUME CoordinatorInv, NEW w \in Writes, ReplicaApplies(w), NEW s \in Shards
    PROVE  Shard(s)!LNext
  <1> DEFINE o == Owner(w)
             r == write[w].target
             g == write[w].gen
  <1>1. o \in Shards /\ g \in Generations /\ write[w].pc = "committed" /\ r \in Copies
        /\ UNCHANGED <<log, acked>>
    BY WriteTypes DEF CoordinatorInv, ReplicaApplies
  <1>2. CASE UNCHANGED at
    BY <1>1, <1>2, ShardStays
  <1>3. CASE at[o][r] + 1 = g /\ at' = [at EXCEPT ![o][r] = g]
    <2>1. at[o][r] \in Int /\ r \in Int
      BY <1>1, ConstantTypes DEF CoordinatorInv, TypeOK, Generations, Copies
    <2>2. r >= 1 /\ \A c \in Copies : c < r => g <= at[o][c]
      BY <1>1 DEF CoordinatorInv, WriteInv
    <2> HIDE DEF o, r, g
    <2>3. r # Primary /\ g <= at[o][Primary]
      BY <2>1, <2>2, ConstantTypes DEF Primary
    <2>4. at[o][r] <= g
      BY <1>3, <2>1
    <2> QED BY <1>1, <1>3, <2>3, <2>4, CopyAdvances
  <1> QED BY <1>2, <1>3 DEF ReplicaApplies

\* A copy comes back with what its primary has.
LEMMA UpAdvances ==
    ASSUME CoordinatorInv, NEW o \in Shards, NEW c \in Copies, CopyUp(o, c), NEW s \in Shards
    PROVE  Shard(s)!LNext
  <1>1. UNCHANGED <<log, acked>>
    BY DEF CopyUp
  <1>2. CASE UNCHANGED at
    BY <1>1, <1>2, ShardStays
  <1>3. ASSUME c # Primary, NEW g \in (at[o][c] + 1)..at[o][Primary], at' = [at EXCEPT ![o][c] = g]
        PROVE  Shard(s)!LNext
    <2>1. at[o][c] \in Generations /\ at[o][Primary] \in Generations /\ MaxWrites \in Nat
      BY ConstantTypes DEF CoordinatorInv, TypeOK
    <2>2. g \in Generations /\ at[o][c] <= g /\ g <= at[o][Primary]
      BY <2>1 DEF Generations
    <2> QED BY <1>1, <1>3, <2>2, CopyAdvances
  <1> QED BY <1>2, <1>3 DEF CopyUp

\* A write is acknowledged when every copy holds it.
LEMMA AnswerAcks ==
    ASSUME CoordinatorInv, WriteAnswered, NEW s \in Shards
    PROVE  Shard(s)!LNext
  <1> DEFINE w == op.write
             g == write[w].gen
  <1>1. w \in Writes /\ Owner(w) \in Shards /\ g \in Generations
    BY WriteTypes DEF WriteAnswered, CoordinatorInv, OpInv
  <1>2. UNCHANGED <<log, at>>
    BY DEF WriteAnswered, shardVars
  <1>3. CASE write[w].pc = "ok" /\ s = Owner(w)
    <2>1. acked'[s] = acked[s] \cup {g}
      BY <1>1, <1>3 DEF WriteAnswered, CoordinatorInv, TypeOK
    <2>2. \A c \in Copies : g <= at[s][c]
      BY <1>1, <1>3 DEF CoordinatorInv, WriteInv
    <2> HIDE DEF g
    <2>3. Shard(s)!Ack(g)
      BY <1>2, <2>1, <2>2 DEF Shard!Ack
    <2> QED BY <1>1, <2>3, ShardReads DEF Shard!LNext, Generations
  <1>4. CASE ~(write[w].pc = "ok" /\ s = Owner(w))
    <2>1. acked'[s] = acked[s]
      BY <1>1, <1>4 DEF WriteAnswered, CoordinatorInv, TypeOK
    <2> QED BY <1>2, <2>1, ShardStays
  <1> QED BY <1>3, <1>4

\* Seen from the coordinator, every shard is the log that it promises to be, and
\* in particular acknowledges only what every copy holds: the promise that
\* Replication is shown to keep is all that the coordinator needs.
THEOREM CoordinatorShardsAreLogs == Spec => ShardsAreLogs
  <1>1. ASSUME Init PROVE \A s \in Shards : Shard(s)!LInit
    BY <1>1, ShardsInit
  <1>2. ASSUME CoordinatorInv, [Next]_vars
        PROVE  [\A s \in Shards : [Shard(s)!LNext]_(Shard(s)!logVars)]_vars
    <2> SUFFICES ASSUME Next, NEW s \in Shards
                 PROVE  Shard(s)!LNext
      BY <1>2
    <2>1. CASE UNCHANGED <<log, at, acked>>
      BY <2>1, ShardStays
    <2>2. ASSUME NEW w \in Writes, WriteStep(w)
          PROVE  Shard(s)!LNext
      <3>1. CASE PrimaryCommits(w)
        BY <1>2, <3>1, CommitAppends
      <3>2. CASE ReplicaApplies(w)
        BY <1>2, <3>2, ApplyAdvances
      <3>3. CASE PrimaryFindsNothing(w) \/ PrimaryRefuses(w) \/ ReplicationFails(w)
                 \/ PrimarySucceeds(w)
        <4>1. UNCHANGED <<log, at, acked>>
          BY <3>3 DEF PrimaryFindsNothing, PrimaryRefuses, ReplicationFails, PrimarySucceeds,
                      shardVars
        <4> QED BY <2>1, <4>1
      <3> QED BY <2>2, <3>1, <3>2, <3>3 DEF WriteStep
    <2>3. CASE WriteAnswered
      BY <1>2, <2>3, AnswerAcks
    <2>4. ASSUME NEW o \in Shards, NEW c \in Copies, CopyDown(o, c) \/ CopyUp(o, c)
          PROVE  Shard(s)!LNext
      <3>1. CASE CopyUp(o, c)
        BY <1>2, <3>1, UpAdvances
      <3>2. CASE CopyDown(o, c)
        BY <2>1, <3>2 DEF CopyDown
      <3> QED BY <2>4, <3>1, <3>2
    <2>5. ASSUME NEW p \in Paths, NEW o \in Shards, LegStep(p, o)
          PROVE  UNCHANGED <<log, at, acked>>
      BY <2>5 DEF LegStep, CopyAnswers, CopyFails, shardVars
    <2>6. ASSUME NEW o \in Shards, ScoreStep(o)
          PROVE  UNCHANGED <<log, at, acked>>
      BY <2>6 DEF ScoreStep, Score, ScoreFails, shardVars
    <2>7. WriteTimesOut \/ Collect \/ FinishRead \/ CoordinatorRestarts
             => UNCHANGED <<log, at, acked>>
      BY DEF WriteTimesOut, Collect, FinishRead, CoordinatorRestarts, shardVars
    <2>8. ASSUME NEW w \in Writes, NEW d \in Docs, NEW to \in {"present", "absent"},
                 BeginWrite(w, d, to)
          PROVE  UNCHANGED <<log, at, acked>>
      BY <2>8 DEF BeginWrite, shardVars
    <2>9. ASSUME NEW kind \in Kinds, BeginRead(kind)
          PROVE  UNCHANGED <<log, at, acked>>
      BY <2>9 DEF BeginRead, shardVars
    <2> QED
      BY <2>1, <2>2, <2>3, <2>4, <2>5, <2>6, <2>7, <2>8, <2>9 DEF Next
  <1> QED BY <1>1, <1>2, CoordinatorAlways, PTL DEF Spec, ShardsAreLogs

=============================================================================

----------------------------- MODULE Coordinator -----------------------------
(***************************************************************************)
(* The coordinator and the logical shards behind it.                       *)
(*                                                                         *)
(* A shard is seen through its promise (ShardLog, which Replication        *)
(* implements): every copy answers from one generation of the shard's log, *)
(* if it answers at all.  A query is followed down to the generation that  *)
(* each answer describes; its terms and scores are left out.               *)
(*                                                                         *)
(* One asyncio lock covers a whole operation, so there is one operation at *)
(* a time.  It does not cover a write that the coordinator has given up:   *)
(* the primary goes on with that.                                          *)
(***************************************************************************)
EXTENDS Integers

CONSTANTS
    Shards,         \* logical shards
    Docs,           \* document ids
    Route,          \* ShardRouter.shard_for: the shard that owns a document
    NumReplicas,    \* replicas of every shard
    Kinds,          \* the read operations that clients ask for
    NoAnswer,       \* what a copy that is not READY answers
    MaxWrites       \* bound: writes that clients ask for

ASSUME CoordinatorAssumption ==
    /\ Docs # {}
    /\ Route \in [Docs -> Shards]
    /\ NumReplicas \in Nat
    /\ MaxWrites \in Nat
    /\ Kinds \subseteq {"search", "semantic", "hybrid", "stats"}

Primary == 0
Copies == 0..NumReplicas        \* ShardCopies.serving_order
Generations == 0..MaxWrites
Writes == 1..MaxWrites          \* numbered as they are begun
Contents == [Docs -> {"present", "absent"}]
NoContent == [d \in Docs |-> "absent"]

\* The retrievals an operation is made of, each with a leg per shard.
Paths == {"lexical", "plain"}
PathsOf(kind) == CASE kind = "search" -> {"lexical"}
                   [] kind = "hybrid" -> {"lexical", "plain"}
                   [] OTHER -> {"plain"}

VARIABLES
    log,        \* log[s][g]: the corpus of shard s after g mutations
    at,         \* at[s][c]: the generation that copy c of shard s is at
    serving,    \* serving[s][c]: that copy is READY
    write,      \* write[w]: a routed mutation, wherever it has got to
    op,         \* the operation that holds the coordinator's lock
    leg,        \* leg[p][s]: path p of the operation on shard s
    reply,      \* how the last read was answered
    acked,      \* auxiliary: acked[s], the generations answered with a 2xx
    due,        \* auxiliary: due[s], the last of them when the read that holds
                \* the lock began
    outside     \* auxiliary: shards that have changed since then

vars == <<log, at, serving, write, op, leg, reply, acked, due, outside>>
shardVars == <<log, at, serving>>
queryVars == <<leg, reply>>

WriteRecords == [pc : {"none", "sent", "committed", "ok", "failed", "absent"},
                 doc : Docs, to : {"present", "absent"},
                 target : 0..(NumReplicas + 1), gen : Generations]
LegRecords == [pc : {"off", "ask", "pinned", "score", "done", "failed"},
               copy : Copies, first : Generations, second : Generations]

NoWrite == [pc |-> "none", doc |-> CHOOSE d \in Docs : TRUE, to |-> "absent",
            target |-> 0, gen |-> 0]
Idle == [kind |-> "idle", write |-> 0]
NoLeg == [pc |-> "off", copy |-> Primary, first |-> 0, second |-> 0]
NothingDue == [s \in Shards |-> 0]
NoLegs == [p \in Paths |-> [s \in Shards |-> NoLeg]]

\* The types of the variables.
TypeOK ==
    /\ log \in [Shards -> [Generations -> Contents]]
    /\ at \in [Shards -> [Copies -> Generations]]
    /\ serving \in [Shards -> [Copies -> BOOLEAN]]
    /\ write \in [Writes -> WriteRecords]
    /\ op \in [kind : Kinds \cup {"idle", "write"}, write : 0..MaxWrites]
    /\ leg \in [Paths -> [Shards -> LegRecords]]
    /\ acked \in [Shards -> SUBSET Generations]
    /\ reply \in {"none", "2xx", "503"}
    /\ due \in [Shards -> Generations]
    /\ outside \subseteq Shards

Init ==
    /\ log = [s \in Shards |-> [g \in Generations |-> NoContent]]
    /\ at = [s \in Shards |-> [c \in Copies |-> 0]]
    /\ serving = [s \in Shards |-> [c \in Copies |-> FALSE]]
    /\ write = [w \in Writes |-> NoWrite]
    /\ op = Idle
    /\ leg = NoLegs
    /\ reply = "none"
    /\ acked = [s \in Shards |-> {}]
    /\ due = NothingDue
    /\ outside = {}

-----------------------------------------------------------------------------
(* Routed writes *)

Owner(w) == Route[write[w].doc]
Latest(gens) == IF gens = {} THEN 0 ELSE CHOOSE g \in gens : \A h \in gens : h <= g

\* async with self._lock: one operation at a time.
TakeLock(kind, w) ==
    /\ op = Idle
    /\ op' = [kind |-> kind, write |-> w]
    /\ reply' = "none"

ReleaseLock ==
    /\ op' = Idle
    /\ due' = NothingDue
    /\ outside' = {}

\* index_document, delete_document: the owner's primary is sent the mutation,
\* if it can be reached; nobody else is.
BeginWrite(w, d, to) ==
    /\ write[w].pc = "none"
    /\ \A v \in Writes : v < w => write[v].pc # "none"
    /\ TakeLock("write", w)
    /\ write' = [write EXCEPT ![w] = [NoWrite EXCEPT
                    !.pc = IF serving[Route[d]][Primary] THEN "sent" ELSE "failed",
                    !.doc = d, !.to = to]]
    /\ UNCHANGED <<shardVars, leg, acked, due, outside>>

\* Shard s changes while a read holds the lock.
NoteChange(s) == outside' = IF op.kind \in Kinds THEN outside \cup {s} ELSE outside

\* The primary commits the mutation under its Replicator's lock.
PrimaryCommits(w) ==
    LET s == Owner(w)
        g == at[s][Primary]
        d == write[w].doc
    IN  /\ write[w].pc = "sent"
        /\ serving[s][Primary]
        /\ \A v \in Writes : write[v].pc = "committed" => Owner(v) # s
        /\ write[w].to = "absent" => log[s][g][d] = "present"
        /\ log' = [log EXCEPT ![s][g + 1] = [log[s][g] EXCEPT ![d] = write[w].to]]
        /\ at' = [at EXCEPT ![s][Primary] = g + 1]
        /\ write' = [write EXCEPT ![w].pc = "committed", ![w].target = 1, ![w].gen = g + 1]
        /\ NoteChange(s)
        /\ UNCHANGED <<serving, op, queryVars, acked, due>>

\* The primary answers 404: there is nothing to delete.
PrimaryFindsNothing(w) ==
    LET s == Owner(w) IN
    /\ write[w].pc = "sent"
    /\ serving[s][Primary]
    /\ write[w].to = "absent"
    /\ log[s][at[s][Primary]][write[w].doc] = "absent"
    /\ write' = [write EXCEPT ![w].pc = "absent"]
    /\ UNCHANGED <<shardVars, op, queryVars, acked, due, outside>>

\* The primary is lost, or fails before the commit.
PrimaryRefuses(w) ==
    /\ write[w].pc = "sent"
    /\ write' = [write EXCEPT ![w].pc = "failed"]
    /\ UNCHANGED <<shardVars, op, queryVars, acked, due, outside>>

\* The next replica takes the mutation, or has it already.
ReplicaApplies(w) ==
    LET s == Owner(w)
        r == write[w].target
    IN  /\ write[w].pc = "committed"
        /\ r \in Copies
        /\ \/ at[s][r] >= write[w].gen /\ UNCHANGED <<at, outside>>
           \/ /\ serving[s][r] /\ at[s][r] + 1 = write[w].gen
              /\ at' = [at EXCEPT ![s][r] = write[w].gen]
              /\ NoteChange(s)
        /\ write' = [write EXCEPT ![w].target = r + 1]
        /\ UNCHANGED <<log, serving, op, queryVars, acked, due>>

\* A replica refuses, cannot be reached or does not answer in time.
ReplicationFails(w) ==
    /\ write[w].pc = "committed"
    /\ write[w].target \in Copies
    /\ write' = [write EXCEPT ![w].pc = "failed"]
    /\ UNCHANGED <<shardVars, op, queryVars, acked, due, outside>>

\* Every copy has the mutation.
PrimarySucceeds(w) ==
    /\ write[w].pc = "committed"
    /\ write[w].target = NumReplicas + 1
    /\ write' = [write EXCEPT ![w].pc = "ok"]
    /\ UNCHANGED <<shardVars, op, queryVars, acked, due, outside>>

\* A coordinator that takes a commit on the primary for success.
WriteAnsweredEarly ==
    LET w == op.write IN
    /\ op.kind = "write"
    /\ write[w].pc \in {"committed", "ok", "failed", "absent"}
    /\ acked' = IF write[w].pc \in {"committed", "ok"}
                THEN [acked EXCEPT ![Owner(w)] = @ \cup {write[w].gen}] ELSE acked
    /\ ReleaseLock
    /\ UNCHANGED <<shardVars, write, queryVars>>

\* The primary's answer reaches the coordinator, and the client.
WriteAnswered ==
    LET w == op.write IN
    /\ op.kind = "write"
    /\ write[w].pc \in {"ok", "failed", "absent"}
    /\ acked' = IF write[w].pc = "ok"
                THEN [acked EXCEPT ![Owner(w)] = @ \cup {write[w].gen}] ELSE acked
    /\ ReleaseLock
    /\ UNCHANGED <<shardVars, write, queryVars>>

\* HttpShardClient._request raises: the lock is released and the client is told
\* 503; the write, if it has reached the primary, goes on.
WriteTimesOut ==
    /\ op.kind = "write"
    /\ ReleaseLock
    /\ UNCHANGED <<shardVars, write, queryVars, acked>>

-----------------------------------------------------------------------------
(* Reads *)

\* search, semantic_search, hybrid_search, index_stats: the fan-out begins, on
\* every shard with the primary.
BeginRead(kind) ==
    /\ TakeLock(kind, 0)
    /\ leg' = [p \in Paths |-> [s \in Shards |->
                  IF p \in PathsOf(kind) THEN [NoLeg EXCEPT !.pc = "ask"] ELSE NoLeg]]
    /\ due' = [s \in Shards |-> Latest(acked[s])]
    /\ UNCHANGED <<shardVars, write, acked, outside>>

\* A copy that is READY answers: statistics, which pin it for round two, or all
\* that the path needs.
CopyAnswers(p, s) ==
    LET l == leg[p][s]
        g == at[s][l.copy]
    IN  /\ l.pc = "ask"
        /\ serving[s][l.copy]
        /\ leg' = [leg EXCEPT ![p][s] =
                      [pc |-> IF p = "lexical" THEN "pinned" ELSE "done",
                       copy |-> l.copy, first |-> g, second |-> g]]
        /\ UNCHANGED <<shardVars, write, op, reply, acked, due, outside>>

\* A search for a copy that does not notice when there is none left.
AskBeyondLast(p, s) ==
    /\ leg[p][s].pc = "ask"
    /\ leg' = [leg EXCEPT ![p][s].copy = @ + 1]
    /\ UNCHANGED <<shardVars, write, op, reply, acked, due, outside>>

\* A copy refuses, cannot be reached or is late: the next one is asked, until
\* every copy of the shard has failed.
CopyFails(p, s) ==
    LET l == leg[p][s] IN
    /\ l.pc = "ask"
    /\ leg' = [leg EXCEPT ![p][s] = IF l.copy = NumReplicas
                                    THEN [l EXCEPT !.pc = "failed"]
                                    ELSE [l EXCEPT !.copy = l.copy + 1]]
    /\ UNCHANGED <<shardVars, write, op, reply, acked, due, outside>>

\* _select_and_collect has heard of every shard.  A shard without a usable copy
\* fails the search; an empty cluster needs no second round.
Collect ==
    LET l == leg["lexical"]
        empty == \A s \in Shards : log[s][l[s].first] = NoContent
    IN  /\ \A s \in Shards : l[s].pc \in {"pinned", "failed"}
        /\ \E s \in Shards : l[s].pc = "pinned"
        /\ leg' = [leg EXCEPT !["lexical"] = [s \in Shards |->
              [l[s] EXCEPT !.pc = IF \E t \in Shards : l[t].pc = "failed" THEN "failed"
                                  ELSE IF empty THEN "done" ELSE "score"]]]
        /\ UNCHANGED <<shardVars, write, op, reply, acked, due, outside>>

\* A second round that falls back on any copy that serves.
ScoreAnywhere(s) ==
    /\ leg["lexical"][s].pc = "score"
    /\ \E c \in Copies :
          /\ serving[s][c]
          /\ leg' = [leg EXCEPT !["lexical"][s].pc = "done",
                                !["lexical"][s].second = at[s][c]]
    /\ UNCHANGED <<shardVars, write, op, reply, acked, due, outside>>

\* _fan_out_search: the pinned copy scores with the cluster's statistics.
Score(s) ==
    LET l == leg["lexical"][s] IN
    /\ l.pc = "score"
    /\ serving[s][l.copy]
    /\ leg' = [leg EXCEPT !["lexical"][s].pc = "done",
                          !["lexical"][s].second = at[s][l.copy]]
    /\ UNCHANGED <<shardVars, write, op, reply, acked, due, outside>>

\* The pinned copy has gone, or is late: nobody else is asked.
ScoreFails(s) ==
    /\ leg["lexical"][s].pc = "score"
    /\ leg' = [leg EXCEPT !["lexical"][s].pc = "failed"]
    /\ UNCHANGED <<shardVars, write, op, reply, acked, due, outside>>

\* Every leg of the operation has come to an end.
Ended == \A p \in PathsOf(op.kind), s \in Shards : leg[p][s].pc \in {"done", "failed"}

\* A gather that returns what it has got.
FinishPartially ==
    /\ op.kind \in Kinds
    /\ Ended
    /\ reply' = "2xx"
    /\ leg' = NoLegs
    /\ ReleaseLock
    /\ UNCHANGED <<shardVars, write, acked>>

\* A failure that escapes with the lock still held.
FinishHoldingLock ==
    /\ op.kind \in Kinds
    /\ \A p \in PathsOf(op.kind), s \in Shards : leg[p][s].pc = "done"
    /\ reply' = "2xx"
    /\ leg' = NoLegs
    /\ ReleaseLock
    /\ UNCHANGED <<shardVars, write, acked>>

\* _gather, _merge and the fusion of the paths: one failed leg fails the whole
\* operation with a 503.
FinishRead ==
    LET failed == \E p \in PathsOf(op.kind), s \in Shards : leg[p][s].pc = "failed" IN
    /\ op.kind \in Kinds
    /\ Ended
    /\ reply' = IF failed THEN "503" ELSE "2xx"
    /\ leg' = NoLegs
    /\ ReleaseLock
    /\ UNCHANGED <<shardVars, write, acked>>

\* The coordinator is restarted: it has nothing to lose but the operation.
CoordinatorRestarts ==
    /\ op # Idle
    /\ leg' = NoLegs
    /\ ReleaseLock
    /\ UNCHANGED <<shardVars, write, reply, acked>>

-----------------------------------------------------------------------------
(* The shards, by themselves *)

\* A copy stops or leaves READY; a primary takes the writes it had with it.
CopyDown(s, c) ==
    /\ serving[s][c]
    /\ serving' = [serving EXCEPT ![s][c] = FALSE]
    /\ write' = [w \in Writes |->
                    IF c = Primary /\ Owner(w) = s /\ write[w].pc \in {"sent", "committed"}
                    THEN [write[w] EXCEPT !.pc = "failed"] ELSE write[w]]
    /\ UNCHANGED <<log, at, op, queryVars, acked, due, outside>>

\* A copy is READY again; a replica may have caught up.
CopyUp(s, c) ==
    /\ ~serving[s][c]
    /\ serving' = [serving EXCEPT ![s][c] = TRUE]
    /\ \/ UNCHANGED <<at, outside>>
       \/ /\ c # Primary
          /\ \E g \in (at[s][c] + 1)..at[s][Primary] : at' = [at EXCEPT ![s][c] = g]
          /\ NoteChange(s)
    /\ UNCHANGED <<log, write, op, queryVars, acked, due>>

WriteStep(w) ==
    \/ PrimaryCommits(w) \/ PrimaryFindsNothing(w) \/ PrimaryRefuses(w)
    \/ ReplicaApplies(w) \/ ReplicationFails(w) \/ PrimarySucceeds(w)

LegStep(p, s) == CopyAnswers(p, s) \/ CopyFails(p, s)
ScoreStep(s) == Score(s) \/ ScoreFails(s)

Next ==
    \/ \E w \in Writes, d \in Docs, to \in {"present", "absent"} : BeginWrite(w, d, to)
    \/ \E w \in Writes : WriteStep(w)
    \/ WriteAnswered \/ WriteTimesOut
    \/ \E kind \in Kinds : BeginRead(kind)
    \/ \E p \in Paths, s \in Shards : LegStep(p, s)
    \/ Collect
    \/ \E s \in Shards : ScoreStep(s)
    \/ FinishRead
    \/ CoordinatorRestarts
    \/ \E s \in Shards, c \in Copies : CopyDown(s, c) \/ CopyUp(s, c)

\* Timeouts bound every request, so the coordinator never waits for good.
Fairness ==
    /\ WF_vars(WriteAnswered \/ WriteTimesOut)
    /\ \A p \in Paths, s \in Shards : WF_vars(LegStep(p, s))
    /\ WF_vars(Collect)
    /\ \A s \in Shards : WF_vars(ScoreStep(s))
    /\ WF_vars(FinishRead)

Spec == Init /\ [][Next]_vars
FairSpec == Spec /\ Fairness

-----------------------------------------------------------------------------
(* Properties *)

\* The step answers a read with a 2xx, from what its legs have found.
Answered == op.kind \in Kinds /\ reply' = "2xx"

\* A read is complete and fresh: every shard has contributed on every path, and
\* none from a generation older than the last write that had been acknowledged
\* when the read began, whichever copies were down, behind or asked instead.
ReadsAreFresh ==
    [][Answered => \A p \in PathsOf(op.kind), s \in Shards :
          leg[p][s].pc = "done" /\ due[s] <= leg[p][s].first]_vars

\* The two rounds of a search agree: the statistics and the scores of a shard
\* describe one corpus, unless the shard was changed during the search by
\* something the lock does not cover.
RoundsAgree ==
    [][Answered => \A s \in Shards :
          leg["lexical"][s].first # leg["lexical"][s].second => s \in outside]_vars

\* Every operation ends, and releases the lock that all others wait for.
OperationsEnd == op # Idle ~> op = Idle

Shard(s) == INSTANCE ShardLog WITH
    Values <- {"present", "absent"},
    Nothing <- NoAnswer,
    EmptyCorpus <- NoContent,
    MaxGeneration <- MaxWrites,
    log <- log[s],
    at <- at[s],
    acked <- acked[s],
    read <- [c \in Copies |-> IF serving[s][c] THEN log[s][at[s][c]] ELSE NoAnswer]

\* What the coordinator relies on: seen from here, every shard behaves as the
\* log that the replicated shard implements.
ShardsAreLogs ==
    /\ \A s \in Shards : Shard(s)!LInit
    /\ [][\A s \in Shards : [Shard(s)!LNext]_(Shard(s)!logVars)]_vars

=============================================================================

------------------------------- MODULE ShardLog -------------------------------
(***************************************************************************)
(* What a logical shard promises, without a word on messages, processes or *)
(* recovery.  The primary keeps a log: corpus g is the result of the g-th  *)
(* mutation.  Every copy durably holds one entry of the log and only moves *)
(* forward; a read of a copy returns that entry or nothing; a mutation is  *)
(* acknowledged only when every copy holds it, and so it stays held.       *)
(***************************************************************************)
EXTENDS Integers

CONSTANTS
    Copies,         \* the copies of the shard
    Primary,        \* the one that writes the log
    Docs, Values,   \* a corpus gives every document a value
    Nothing,        \* what a copy that does not serve answers
    EmptyCorpus,    \* the corpus before the first mutation
    MaxGeneration   \* bound: the length of the log

VARIABLES
    log,    \* log[g]: the corpus after g mutations
    at,     \* at[c]: the generation that copy c durably holds
    acked,  \* the generations acknowledged to clients
    read    \* read[c]: what a query to copy c is answered from

logVars == <<log, at, acked, read>>

LInit ==
    /\ log = [g \in 0..MaxGeneration |-> EmptyCorpus]
    /\ at = [c \in Copies |-> 0]
    /\ acked = {}
    /\ read = [c \in Copies |-> Nothing]

\* The primary appends the result of a mutation of one document.
Append(d, v) ==
    LET g == at[Primary]
    IN  /\ g < MaxGeneration
        /\ log' = [log EXCEPT ![g + 1] = [log[g] EXCEPT ![d] = v]]
        /\ at' = [at EXCEPT ![Primary] = g + 1]
        /\ UNCHANGED acked

\* Another copy moves forward, by one entry or by a snapshot.
Advance(c, g) ==
    /\ at[c] <= g
    /\ g <= at[Primary]
    /\ at' = [at EXCEPT ![c] = g]
    /\ UNCHANGED <<log, acked>>

\* A mutation that every copy holds is acknowledged.
Ack(g) ==
    /\ \A c \in Copies : g <= at[c]
    /\ acked' = acked \cup {g}
    /\ UNCHANGED <<log, at>>

\* A copy answers from the entry it durably holds, or not at all.
ReadsHeldEntry(c) == read[c] \in {Nothing, log[at[c]]}

LNext ==
    /\ \/ \E d \in Docs, v \in Values : Append(d, v)
       \/ \E c \in Copies \ {Primary}, g \in 0..MaxGeneration : Advance(c, g)
       \/ \E g \in 0..MaxGeneration : Ack(g)
       \/ UNCHANGED <<log, at, acked>>
    /\ \A c \in Copies : ReadsHeldEntry(c)'

LSpec == LInit /\ [][LNext]_logVars

=============================================================================

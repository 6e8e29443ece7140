------------------------------- MODULE Topology -------------------------------
(***************************************************************************)
(* From the settings of a coordinator to the topology it works with:       *)
(* Settings.shard_addresses, replica_addresses and _check_topology,        *)
(* build_topology, and the check in Coordinator.__init__.                  *)
(*                                                                         *)
(* A comma-separated setting is the sequence of its entries, as they are   *)
(* after strip(); an entry may be blank.  replica_urls is a sequence of    *)
(* such sequences, one per ";"-separated group.  split() never gives an    *)
(* empty list, so neither sequence is empty: the empty string is one blank *)
(* entry.  Two URLs are the same if they are the same text.                *)
(***************************************************************************)
EXTENDS Naturals, Sequences, FiniteSets

CONSTANT Blank          \* an entry with nothing between its separators

\* A parse that puts every entry in front of those before it.
EntriesInFront(list) ==
    LET kept[i \in 0..Len(list)] ==
            IF i = 0 THEN <<>>
            ELSE IF list[i] = Blank THEN kept[i - 1] ELSE <<list[i]>> \o kept[i - 1]
    IN  kept[Len(list)]

\* The entries of a comma-separated setting that are not blank.
Entries(list) ==
    LET kept[i \in 0..Len(list)] ==
            IF i = 0 THEN <<>>
            ELSE IF list[i] = Blank THEN kept[i - 1] ELSE Append(kept[i - 1], list[i])
    IN  kept[Len(list)]

\* Settings.shard_addresses: the primaries, by shard.
ShardAddresses(settings) == Entries(settings.shard_urls)

\* Settings.replica_addresses: the replicas, by shard.  A blank setting has no
\* groups at all; a blank group is a group without replicas.
ReplicaAddresses(settings) ==
    IF settings.replica_urls = << <<Blank>> >> THEN <<>>
    ELSE [s \in DOMAIN settings.replica_urls |-> Entries(settings.replica_urls[s])]

\* build_topology: the copies of every shard, the primary first (serving_order).
BuildTopology(primaries, groups) ==
    [s \in DOMAIN primaries |->
        <<primaries[s]>> \o (IF groups = <<>> THEN <<>> ELSE groups[s])]

\* build_topology and Coordinator.__init__ have something to object to.
CannotBuild(settings) ==
    LET primaries == ShardAddresses(settings)
        groups == ReplicaAddresses(settings)
    IN  \/ groups # <<>> /\ Len(groups) # Len(primaries)
        \/ Len(primaries) # settings.shard_count

\* A validation that looks for repetitions among the primaries only.
PrimariesDistinct(topology) ==
    \A s, t \in DOMAIN topology : topology[s][1] = topology[t][1] => s = t

\* No address twice, whichever shard and whichever copy.
AllDistinct(topology) ==
    \A s, t \in DOMAIN topology :
        \A i \in DOMAIN topology[s], j \in DOMAIN topology[t] :
            topology[s][i] = topology[t][j] => s = t /\ i = j

\* A validation that does not compare the sizes of the groups.
AnySizes(groups) == TRUE

\* Every logical shard has the same replica count.
SameSizes(groups) == \A s, t \in DOMAIN groups : Len(groups[s]) = Len(groups[t])

\* Settings._check_topology, for a coordinator, and the bound on shard_count.
CoordinatorSettingsAccepted(settings) ==
    LET primaries == ShardAddresses(settings)
        groups == ReplicaAddresses(settings)
    IN  /\ settings.shard_count >= 1
        /\ primaries # <<>>
        /\ Len(primaries) = settings.shard_count
        /\ AllDistinct(BuildTopology(primaries, <<>>))
        /\ groups # <<>> =>
              /\ Len(groups) = settings.shard_count
              /\ SameSizes(groups)
              /\ AllDistinct(BuildTopology(primaries, groups))

\* Settings._check_topology, for a shard node.
ShardSettingsAccepted(shard_id, shard_count) ==
    shard_count >= 1 /\ shard_id \in 0..(shard_count - 1)

\* The entries that are not blank among the first k of a list, counted.
CountTo(list, k) == Cardinality({j \in 1..k : list[j] # Blank})

\* Every entry of the list that is not blank is in its place: the first such
\* entry comes first, the next one second, and nothing else is there.
InPlace(addresses, list) ==
    /\ Len(addresses) = CountTo(list, Len(list))
    /\ \A k \in DOMAIN list : list[k] # Blank => addresses[CountTo(list, k)] = list[k]

\* What the rest of the cluster takes for granted of a topology: a shard for
\* every residue of the router, as many copies of one shard as of another, no
\* process that is two copies, and every configured address with the shard that
\* the position of its entry, or of its group, stands for.
SoundTopology(topology, settings) ==
    LET Copies(s) == {topology[s][i] : i \in DOMAIN topology[s]}
    IN  /\ DOMAIN topology = 1..settings.shard_count
        /\ \A s \in DOMAIN topology : Len(topology[s]) = Len(topology[1])
        /\ Cardinality(UNION {Copies(s) : s \in DOMAIN topology})
               = Len(topology) * Len(topology[1])
        /\ InPlace([s \in DOMAIN topology |-> topology[s][1]], settings.shard_urls)
        /\ IF settings.replica_urls = << <<Blank>> >> THEN Len(topology[1]) = 1
           ELSE /\ DOMAIN settings.replica_urls = DOMAIN topology
                /\ \A s \in DOMAIN topology :
                      InPlace(Tail(topology[s]), settings.replica_urls[s])

=============================================================================

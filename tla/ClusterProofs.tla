---------------------------- MODULE ClusterProofs ----------------------------
(***************************************************************************)
(* For any settings, numbers of shards, ports and faults: a coordinator    *)
(* that is up has a sound topology, a cluster that is announced has been   *)
(* there, and what the probes report holds.                                *)
(***************************************************************************)
EXTENDS Cluster, FiniteSetLemmas

-----------------------------------------------------------------------------
(* Lists of addresses *)

\* The step of Entries: what is kept of the list up to its i-th entry.
Keep(list, kept, i) ==
    IF i = 0 THEN <<>>
    ELSE IF list[i] = Blank THEN kept[i - 1] ELSE Append(kept[i - 1], list[i])

\* What Entries keeps is defined, entry by entry.
LEMMA EntriesDefined ==
    ASSUME NEW S, NEW list \in Seq(S)
    PROVE  \E kept \in [0..Len(list) -> Seq(S)] :
              /\ \A i \in 0..Len(list) : kept[i] = Keep(list, kept, i)
              /\ Entries(list) = kept[Len(list)]
  <1> DEFINE n == Len(list)
             Kept(m) == {kept \in [0..m -> Seq(S)] : \A i \in 0..m : kept[i] = Keep(list, kept, i)}
             good == {m \in 0..n : Kept(m) # {}}
  <1>1. n \in Nat
    OBVIOUS
  <1>2. 0 \in good
    <2>1. [i \in 0..0 |-> <<>>] \in Kept(0)
      BY DEF Keep
    <2> HIDE DEF Kept
    <2> QED BY <1>1, <2>1
  <1>3. ASSUME NEW m \in 1..n, m - 1 \in good
        PROVE  m \in good
    <2>1. PICK kept : kept \in Kept(m - 1)
      BY <1>3
    <2> DEFINE more == [i \in 0..m |-> IF i = m THEN Keep(list, kept, m) ELSE kept[i]]
    <2>2. Keep(list, kept, m) \in Seq(S)
      <3>1. list[m] \in S /\ kept[m - 1] \in Seq(S)
        BY <1>1, <2>1
      <3> QED BY <3>1 DEF Keep
    <2>3. more \in [0..m -> Seq(S)]
      BY <1>1, <2>1, <2>2
    <2>4. ASSUME NEW i \in 0..m
          PROVE  more[i] = Keep(list, more, i)
      <3>1. i # 0 => i - 1 \in 0..m /\ i - 1 # m
        BY <1>1
      <3>2. i # 0 => more[i - 1] = kept[i - 1]
        BY <3>1
      <3>3. Keep(list, more, i) = Keep(list, kept, i)
        BY <3>2 DEF Keep
      <3>4. i # m => kept[i] = Keep(list, kept, i)
        BY <1>1, <2>1
      <3> QED BY <3>3, <3>4
    <2>5. more \in Kept(m)
      BY <2>3, <2>4
    <2> HIDE DEF Kept, more
    <2> QED BY <1>1, <2>5
  <1>4. n \in good
    <2> HIDE DEF good, n
    <2>1. \A i \in 0..n : i \in good
      BY <1>1, <1>2, <1>3, UpTo
    <2> QED BY <1>1, <2>1
  <1>5. PICK kept : kept \in Kept(n)
    BY <1>4
  <1> DEFINE Full(k) == k = [i \in 0..n |-> IF i = 0 THEN <<>>
                                 ELSE IF list[i] = Blank THEN k[i - 1]
                                 ELSE Append(k[i - 1], list[i])]
             all == CHOOSE k : Full(k)
  <1>6. Full(kept)
    BY <1>5 DEF Keep
  <1>7. Full(all)
    <2> HIDE DEF Full
    <2> QED BY <1>6
  <1>8. Entries(list) = all[n]
    BY DEF Entries
  <1>9. \A i \in 0..n : all[i] = Keep(list, all, i)
    <2> HIDE DEF all
    <2> QED BY <1>7 DEF Keep
  <1>10. all \in [0..n -> Seq(S)]
    <2> DEFINE typed == {i \in 0..n : all[i] \in Seq(S)}
    <2>1. 0 \in typed
      <3>1. all[0] = <<>>
        <4> HIDE DEF all
        <4> QED BY <1>1, <1>9 DEF Keep
      <3>2. <<>> \in Seq(S) /\ 0 \in 0..n
        BY <1>1
      <3> HIDE DEF all, n
      <3> QED BY <3>1, <3>2
    <2>2. ASSUME NEW i \in 1..n, i - 1 \in typed PROVE i \in typed
      <3>1. list[i] \in S /\ all[i - 1] \in Seq(S) /\ i \in 0..n
        BY <1>1, <2>2
      <3>2. all[i] = Keep(list, all, i)
        BY <1>9, <3>1
      <3>3. all[i] \in Seq(S)
        <4> HIDE DEF all
        <4> QED BY <3>1, <3>2 DEF Keep
      <3> QED BY <3>1, <3>3
    <2>3. \A i \in 0..n : i \in typed
      <3> HIDE DEF typed, n
      <3> QED BY <1>1, <2>1, <2>2, UpTo
    <2>4. DOMAIN all = 0..n /\ all = [i \in 0..n |-> all[i]]
      <3> HIDE DEF all
      <3> QED BY <1>7
    <2> HIDE DEF all
    <2> QED BY <2>3, <2>4
  <1> HIDE DEF all
  <1> QED BY <1>8, <1>9, <1>10

\* How many entries are not blank, one entry after another.
LEMMA CountSteps ==
    ASSUME NEW S, NEW list \in Seq(S)
    PROVE  /\ CountTo(list, 0) = 0
           /\ \A k \in 1..Len(list) :
                 CountTo(list, k) = CountTo(list, k - 1) + (IF list[k] = Blank THEN 0 ELSE 1)
           /\ \A k \in 0..Len(list) : CountTo(list, k) \in Nat
  <1> DEFINE n == Len(list)
             F(k) == {j \in 1..k : list[j] # Blank}
  <1>1. n \in Nat
    OBVIOUS
  <1>2. \A k \in 0..n : IsFiniteSet(F(k))
    <2> TAKE k \in 0..n
    <2>1. IsFiniteSet(1..k)
      BY <1>1, FS_Interval
    <2> QED BY <2>1, FS_Subset
  <1>3. CountTo(list, 0) = 0
    <2>1. F(0) = {}
      OBVIOUS
    <2> QED BY <2>1, FS_EmptySet DEF CountTo
  <1>4. \A k \in 0..n : CountTo(list, k) \in Nat
    <2> HIDE DEF n
    <2> QED BY <1>2, FS_CardinalityType DEF CountTo
  <1>5. ASSUME NEW k \in 1..n
        PROVE  CountTo(list, k) = CountTo(list, k - 1) + (IF list[k] = Blank THEN 0 ELSE 1)
    <2>1. k - 1 \in 0..n /\ 1..k = 1..(k - 1) \cup {k} /\ k \notin 1..(k - 1)
      BY <1>1
    <2>2. CASE list[k] = Blank
      <3>1. F(k) = F(k - 1)
        BY <2>1, <2>2
      <3>2. CountTo(list, k) = CountTo(list, k - 1) /\ CountTo(list, k - 1) \in Nat
        BY <1>4, <2>1, <3>1 DEF CountTo
      <3> QED BY <2>2, <3>2
    <2>3. CASE list[k] # Blank
      <3>1. F(k) = F(k - 1) \cup {k} /\ k \notin F(k - 1)
        BY <2>1, <2>3
      <3>2. Cardinality(F(k - 1) \cup {k}) = Cardinality(F(k - 1)) + 1
        <4> HIDE DEF F, n
        <4> QED BY <1>2, <2>1, <3>1, FS_AddElement
      <3>3. CountTo(list, k) = CountTo(list, k - 1) + 1
        BY <3>1, <3>2 DEF CountTo
      <3> QED BY <2>3, <3>3
    <2> QED BY <2>2, <2>3
  <1> QED BY <1>3, <1>4, <1>5

\* Entries keeps everything of a list but its blanks, in the order of the list.
LEMMA EntriesFacts ==
    ASSUME NEW S, NEW list \in Seq(S)
    PROVE  /\ Entries(list) \in Seq(S \ {Blank})
           /\ InPlace(Entries(list), list)
           /\ (\A i \in DOMAIN list : list[i] # Blank) => Entries(list) = list
  <1>1. PICK kept \in [0..Len(list) -> Seq(S)] :
           /\ \A i \in 0..Len(list) : kept[i] = Keep(list, kept, i)
           /\ Entries(list) = kept[Len(list)]
    BY EntriesDefined
  <1> DEFINE n == Len(list)
             c(k) == CountTo(list, k)
             Placed(q, i) == /\ Len(q) = c(i)
                             /\ \A k \in 1..i : list[k] # Blank =>
                                   c(k) \in 1..Len(q) /\ q[c(k)] = list[k]
             Same(q, i) == (\A j \in 1..i : list[j] # Blank) =>
                              Len(q) = i /\ \A j \in 1..i : q[j] = list[j]
             good == {i \in 0..n : /\ kept[i] \in Seq(S \ {Blank})
                                   /\ Placed(kept[i], i)
                                   /\ Same(kept[i], i)}
  <1>2. n \in Nat /\ DOMAIN list = 1..n /\ \A i \in 1..n : list[i] \in S
    OBVIOUS
  <1>3. /\ c(0) = 0
        /\ \A k \in 0..n : c(k) \in Nat
        /\ \A k \in 1..n : c(k) = c(k - 1) + (IF list[k] = Blank THEN 0 ELSE 1)
    BY CountSteps
  <1> HIDE DEF c
  <1>4. 0 \in good
    <2>1. kept[0] = <<>>
      BY <1>1, <1>2 DEF Keep
    <2>2. <<>> \in Seq(S \ {Blank}) /\ Len(<<>>) = 0
      OBVIOUS
    <2>3. Placed(<<>>, 0) /\ Same(<<>>, 0)
      BY <1>3, <2>2
    <2> HIDE DEF Placed, Same
    <2> QED BY <1>2, <2>1, <2>2, <2>3
  <1>5. ASSUME NEW i \in 1..n, i - 1 \in good
        PROVE  i \in good
    <2> DEFINE before == kept[i - 1]
    <2>1. /\ before \in Seq(S \ {Blank}) /\ Len(before) \in Nat
          /\ Placed(before, i - 1) /\ Same(before, i - 1)
      <3>1. before \in Seq(S \ {Blank}) /\ Placed(before, i - 1) /\ Same(before, i - 1)
        <4> HIDE DEF Placed, Same, n
        <4> QED BY <1>5
      <3>2. Len(before) \in Nat
        BY <3>1
      <3> HIDE DEF Placed, Same, before
      <3> QED BY <3>1, <3>2
    <2>2. i \in 0..n /\ i # 0 /\ list[i] \in S /\ 1..i = 1..(i - 1) \cup {i} /\ i - 1 \in 0..n
      BY <1>2
    <2>3. kept[i] = IF list[i] = Blank THEN before ELSE Append(before, list[i])
      <3>1. kept[i] = Keep(list, kept, i)
        BY <1>1, <2>2
      <3> QED BY <2>2, <3>1 DEF Keep
    <2> HIDE DEF before, n, good
    <2>4. kept[i] \in Seq(S \ {Blank})
      BY <2>1, <2>2, <2>3
    <2>5. list[i] # Blank =>
             /\ Len(kept[i]) = Len(before) + 1
             /\ \A j \in 1..Len(before) : kept[i][j] = before[j]
             /\ kept[i][Len(before) + 1] = list[i]
      BY <2>1, <2>2, <2>3
    <2>6. Placed(kept[i], i)
      <3>1. CASE list[i] = Blank
        <4>1. c(i) = c(i - 1) /\ kept[i] = before
          BY <1>3, <2>2, <2>3, <3>1
        <4> QED BY <2>1, <2>2, <3>1, <4>1
      <3>2. CASE list[i] # Blank
        <4>1. c(i) = c(i - 1) + 1 /\ Len(before) = c(i - 1) /\ Len(kept[i]) = c(i)
          BY <1>3, <2>1, <2>5, <3>2
        <4>2. ASSUME NEW k \in 1..(i - 1), list[k] # Blank
              PROVE  c(k) \in 1..Len(kept[i]) /\ kept[i][c(k)] = list[k]
          <5>1. c(k) \in 1..Len(before) /\ before[c(k)] = list[k]
            BY <2>1, <4>2
          <5> QED BY <2>1, <2>5, <3>2, <5>1
        <4>3. c(i) \in 1..Len(kept[i]) /\ kept[i][c(i)] = list[i]
          BY <2>1, <2>5, <3>2, <4>1
        <4> QED BY <2>2, <4>1, <4>2, <4>3
      <3> QED BY <3>1, <3>2
    <2>7. Same(kept[i], i)
      <3> SUFFICES ASSUME \A j \in 1..i : list[j] # Blank
                   PROVE  Len(kept[i]) = i /\ \A j \in 1..i : kept[i][j] = list[j]
        OBVIOUS
      <3>1. Len(before) = i - 1 /\ \A j \in 1..(i - 1) : before[j] = list[j]
        BY <2>1, <2>2
      <3>2. list[i] # Blank
        BY <2>2
      <3> HIDE DEF Placed, Same
      <3> QED BY <1>2, <2>2, <2>5, <3>1, <3>2, SMTT(20)
    <2> HIDE DEF Placed, Same
    <2> QED BY <2>2, <2>4, <2>6, <2>7 DEF good
  <1>6. n \in good
    <2> HIDE DEF good, n
    <2>1. \A i \in 0..n : i \in good
      BY <1>2, <1>4, <1>5, UpTo
    <2> QED BY <1>2, <2>1
  <1>7. /\ Entries(list) \in Seq(S \ {Blank})
        /\ Placed(Entries(list), n) /\ Same(Entries(list), n)
    <2> HIDE DEF Placed, Same
    <2> QED BY <1>1, <1>6
  <1>8. InPlace(Entries(list), list)
    BY <1>2, <1>7 DEF InPlace, c
  <1>9. (\A j \in 1..n : list[j] # Blank) => Entries(list) = list
    <2>1. list = [j \in 1..n |-> list[j]]
      OBVIOUS
    <2>2. Entries(list) = [j \in 1..Len(Entries(list)) |-> Entries(list)[j]]
      BY <1>7
    <2> HIDE DEF n
    <2> QED BY <1>7, <2>1, <2>2
  <1> QED BY <1>2, <1>7, <1>8, <1>9

-----------------------------------------------------------------------------
(* Topologies *)

SettingsRecords == [shard_count : 0..MaxShards,
                    shard_urls : Seq(Int \cup {Blank}),
                    replica_urls : Seq(Seq(Int \cup {Blank})) \ {<<>>}]

\* The elements of a list.
Written(list) == {list[i] : i \in DOMAIN list}

\* The addresses of the settings are those that are written there, in their
\* places: of the primaries, ...
LEMMA PrimaryAddresses ==
    ASSUME NEW st \in SettingsRecords
    PROVE  /\ ShardAddresses(st) \in Seq(Int)
           /\ InPlace(ShardAddresses(st), st.shard_urls)
  <1>1. st.shard_urls \in Seq(Int \cup {Blank})
    BY DEF SettingsRecords
  <1>2. (Int \cup {Blank}) \ {Blank} = Int
    BY ClusterAssumption
  <1>3. /\ Entries(st.shard_urls) \in Seq((Int \cup {Blank}) \ {Blank})
        /\ InPlace(Entries(st.shard_urls), st.shard_urls)
    BY <1>1, EntriesFacts
  <1> QED BY <1>2, <1>3 DEF ShardAddresses

\* ... and of the replicas.
LEMMA GroupAddresses ==
    ASSUME NEW st \in SettingsRecords
    PROVE  LET groups == ReplicaAddresses(st) IN
           /\ groups \in Seq(Seq(Int))
           /\ IF st.replica_urls = << <<Blank>> >> THEN groups = <<>>
              ELSE /\ DOMAIN groups = DOMAIN st.replica_urls
                   /\ \A s \in DOMAIN groups : InPlace(groups[s], st.replica_urls[s])
  <1> DEFINE urls == st.replica_urls
             groups == ReplicaAddresses(st)
  <1>1. urls \in Seq(Seq(Int \cup {Blank}))
    BY DEF SettingsRecords
  <1>2. (Int \cup {Blank}) \ {Blank} = Int
    BY ClusterAssumption
  <1>3. ASSUME NEW s \in DOMAIN urls
        PROVE  /\ Entries(urls[s]) \in Seq(Int)
               /\ InPlace(Entries(urls[s]), urls[s])
    <2>1. urls[s] \in Seq(Int \cup {Blank})
      BY <1>1
    <2>2. /\ Entries(urls[s]) \in Seq((Int \cup {Blank}) \ {Blank})
          /\ InPlace(Entries(urls[s]), urls[s])
      BY <2>1, EntriesFacts
    <2> QED BY <1>2, <2>2
  <1>4. CASE urls = << <<Blank>> >>
    <2>1. groups = <<>> /\ <<>> \in Seq(Seq(Int))
      BY <1>4 DEF ReplicaAddresses
    <2> QED BY <1>4, <2>1
  <1>5. CASE urls # << <<Blank>> >>
    <2>1. groups = [s \in DOMAIN urls |-> Entries(urls[s])]
      BY <1>5 DEF ReplicaAddresses
    <2>2. DOMAIN urls = 1..Len(urls) /\ Len(urls) \in Nat
      BY <1>1
    <2>3. groups \in Seq(Seq(Int)) /\ DOMAIN groups = DOMAIN urls
      <3> HIDE DEF urls, groups
      <3>1. groups \in [1..Len(urls) -> Seq(Int)]
        BY <1>3, <2>1, <2>2
      <3> QED BY <2>2, <3>1
    <2> HIDE DEF urls, groups
    <2>4. \A s \in DOMAIN groups : InPlace(groups[s], urls[s])
      BY <1>3, <2>1
    <2> QED BY <1>5, <2>3, <2>4 DEF urls, groups
  <1> QED BY <1>4, <1>5

\* One element in front of a list.
LEMMA InFront ==
    ASSUME NEW S, NEW x \in S, NEW q \in Seq(S)
    PROVE  /\ <<x>> \o q \in Seq(S)
           /\ Len(<<x>> \o q) = Len(q) + 1
           /\ (<<x>> \o q)[1] = x
           /\ Tail(<<x>> \o q) = q
  <1> DEFINE r == <<x>> \o q
  <1>1. r \in Seq(S) /\ Len(r) = Len(q) + 1 /\ r[1] = x /\ Len(q) \in Nat
    OBVIOUS
  <1>2. \A i \in 1..Len(q) : r[i + 1] = q[i]
    OBVIOUS
  <1>3. r # <<>>
    BY <1>1
  <1> HIDE DEF r
  <1>4. /\ Tail(r) \in Seq(S) /\ Len(Tail(r)) = Len(q)
        /\ \A i \in 1..Len(q) : Tail(r)[i] = r[i + 1]
    BY <1>1, <1>3
  <1>5. \A z \in Seq(S) : z = [i \in 1..Len(z) |-> z[i]]
    OBVIOUS
  <1>6. Tail(r) = [i \in 1..Len(q) |-> Tail(r)[i]] /\ q = [i \in 1..Len(q) |-> q[i]]
    BY <1>4, <1>5
  <1>7. Tail(r) = q
    BY <1>2, <1>4, <1>6
  <1> QED BY <1>1, <1>7 DEF r

\* Copies that are all different are as many as there are places for them.
LEMMA DistinctCopies ==
    ASSUME NEW t \in Seq(Seq(Int)), NEW m \in Nat, \A s \in DOMAIN t : Len(t[s]) = m,
           AllDistinct(t)
    PROVE  Cardinality(UNION {Written(t[s]) : s \in DOMAIN t}) = Len(t) * m
  <1> DEFINE places == (1..Len(t)) \X (1..m)
             all == UNION {Written(t[s]) : s \in DOMAIN t}
             f == [c \in places |-> t[c[1]][c[2]]]
  <1>1. Len(t) \in Nat /\ DOMAIN t = 1..Len(t) /\ \A s \in 1..Len(t) : DOMAIN t[s] = 1..m
    <2>1. Len(t) \in Nat /\ DOMAIN t = 1..Len(t) /\ \A s \in 1..Len(t) : t[s] \in Seq(Int)
      OBVIOUS
    <2>2. \A q \in Seq(Int) : DOMAIN q = 1..Len(q)
      OBVIOUS
    <2> QED BY <2>1, <2>2
  <1>2. f \in [places -> all]
    <2> SUFFICES ASSUME NEW c \in places PROVE t[c[1]][c[2]] \in all
      OBVIOUS
    <2>1. c[1] \in 1..Len(t) /\ c[2] \in 1..m
      OBVIOUS
    <2> QED BY <1>1, <2>1 DEF Written
  <1>3. \A a \in all : \E c \in places : f[c] = a
    <2> SUFFICES ASSUME NEW a \in all PROVE \E c \in places : f[c] = a
      OBVIOUS
    <2>1. PICK s \in DOMAIN t : a \in Written(t[s])
      OBVIOUS
    <2>2. PICK i \in DOMAIN t[s] : a = t[s][i]
      BY <2>1 DEF Written
    <2>3. <<s, i>> \in places
      BY <1>1
    <2> QED BY <2>2, <2>3
  <1>4. \A c, d \in places : f[c] = f[d] => c = d
    <2> SUFFICES ASSUME NEW c \in places, NEW d \in places, t[c[1]][c[2]] = t[d[1]][d[2]]
                 PROVE  c = d
      OBVIOUS
    <2>1. /\ c[1] \in DOMAIN t /\ d[1] \in DOMAIN t
          /\ c[2] \in DOMAIN t[c[1]] /\ d[2] \in DOMAIN t[d[1]]
          /\ c = <<c[1], c[2]>> /\ d = <<d[1], d[2]>>
      BY <1>1, SMTT(20)
    <2>2. c[1] = d[1] /\ c[2] = d[2]
      <3> HIDE DEF places
      <3> QED BY <2>1 DEF AllDistinct
    <2> QED BY <2>1, <2>2
  <1> HIDE DEF f, all
  <1>5. ExistsBijection(places, all)
    <2> HIDE DEF places
    <2>1. f \in Injection(places, all)
      BY <1>2, <1>4 DEF Injection, IsInjective
    <2>2. f \in Surjection(places, all)
      BY <1>2, <1>3 DEF Surjection
    <2> QED BY <2>1, <2>2 DEF ExistsBijection, Bijection
  <1>6. \A k \in Nat : IsFiniteSet(1..k) /\ Cardinality(1..k) = k
    BY FS_Interval
  <1>7. IsFiniteSet(places) /\ Cardinality(places) = Len(t) * m
    <2>1. /\ IsFiniteSet(1..Len(t)) /\ Cardinality(1..Len(t)) = Len(t)
          /\ IsFiniteSet(1..m) /\ Cardinality(1..m) = m
      BY <1>1, <1>6
    <2>2. /\ IsFiniteSet((1..Len(t)) \X (1..m))
          /\ Cardinality((1..Len(t)) \X (1..m)) = Cardinality(1..Len(t)) * Cardinality(1..m)
      BY <2>1, FS_Product
    <2> QED BY <2>1, <2>2
  <1>8. Cardinality(all) = Cardinality(places)
    <2> HIDE DEF places
    <2> QED BY <1>5, <1>7, FS_Bijection
  <1> QED BY <1>7, <1>8 DEF all

\* Settings that are accepted give a topology with a shard for every residue of
\* the router, and all that SoundTopology asks for.
LEMMA AcceptedTopology ==
    ASSUME NEW st \in SettingsRecords, CoordinatorSettingsAccepted(st)
    PROVE  LET t == BuildTopology(ShardAddresses(st), ReplicaAddresses(st)) IN
           /\ t \in Seq(Seq(Int))
           /\ DOMAIN t = 1..st.shard_count
           /\ \A s \in DOMAIN t : Len(t[s]) >= 1
           /\ AllDistinct(t)
           /\ SoundTopology(t, st)
  <1> DEFINE p == ShardAddresses(st)
             groups == ReplicaAddresses(st)
             n == st.shard_count
             t == BuildTopology(p, groups)
             Others(s) == IF groups = <<>> THEN <<>> ELSE groups[s]
  <1>1. /\ n \in Nat /\ n >= 1
        /\ p \in Seq(Int) /\ Len(p) = n /\ DOMAIN p = 1..n
        /\ groups \in Seq(Seq(Int))
        /\ groups # <<>> => Len(groups) = n /\ DOMAIN groups = 1..n
    <2>1. st.shard_count \in Nat
      BY ClusterAssumption DEF SettingsRecords
    <2>2. p \in Seq(Int) /\ groups \in Seq(Seq(Int))
      BY PrimaryAddresses, GroupAddresses
    <2>3. n >= 1 /\ Len(p) = n /\ (groups # <<>> => Len(groups) = n)
      BY DEF CoordinatorSettingsAccepted
    <2> HIDE DEF p, groups
    <2> QED BY <2>1, <2>2, <2>3
  <1>2. \A s \in 1..n : /\ t[s] = <<p[s]>> \o Others(s)
                        /\ p[s] \in Int /\ Others(s) \in Seq(Int)
    <2> HIDE DEF p, groups, n
    <2>1. \A s \in 1..n : t[s] = <<p[s]>> \o Others(s)
      BY <1>1 DEF BuildTopology
    <2>2. <<>> \in Seq(Int)
      OBVIOUS
    <2> QED BY <1>1, <2>1, <2>2
  <1>3. DOMAIN t = 1..n
    BY <1>1 DEF BuildTopology
  <1>4. AllDistinct(t)
    BY DEF CoordinatorSettingsAccepted
  <1>5. \A r, s \in 1..n : Len(Others(r)) = Len(Others(s))
    <2>1. groups # <<>> => SameSizes(groups)
      BY DEF CoordinatorSettingsAccepted
    <2> HIDE DEF groups, n
    <2> QED BY <1>1, <2>1 DEF SameSizes
  <1> HIDE DEF p, groups, n, t, Others
  <1>6. \A s \in 1..n : /\ t[s] \in Seq(Int)
                        /\ Len(t[s]) = Len(Others(s)) + 1
                        /\ t[s][1] = p[s]
                        /\ Tail(t[s]) = Others(s)
    <2> SUFFICES ASSUME NEW s \in 1..n
                 PROVE  /\ t[s] \in Seq(Int)
                        /\ Len(t[s]) = Len(Others(s)) + 1
                        /\ t[s][1] = p[s]
                        /\ Tail(t[s]) = Others(s)
      OBVIOUS
    <2>1. t[s] = <<p[s]>> \o Others(s) /\ p[s] \in Int /\ Others(s) \in Seq(Int)
      BY <1>2
    <2>2. \A x \in Int, q \in Seq(Int) :
             /\ <<x>> \o q \in Seq(Int)
             /\ Len(<<x>> \o q) = Len(q) + 1
             /\ (<<x>> \o q)[1] = x
             /\ Tail(<<x>> \o q) = q
      BY InFront
    <2> QED BY <2>1, <2>2, SMTT(20)
  <1>7. t \in Seq(Seq(Int)) /\ Len(t) = n
    <2>1. t = [s \in 1..n |-> t[s]]
      BY <1>3 DEF t, BuildTopology
    <2>2. t \in [1..n -> Seq(Int)]
      BY <1>6, <2>1
    <2> QED BY <1>1, <2>2
  <1>8. 1 \in 1..n /\ \A s \in 1..n : Len(t[s]) = Len(t[1]) /\ Len(t[s]) \in Nat /\ Len(t[s]) >= 1
    <2>1. \A s \in 1..n : Len(Others(s)) \in Nat
      BY <1>2
    <2> QED BY <1>1, <1>5, <1>6, <2>1, SMTT(40)
  <1>9. Cardinality(UNION {Written(t[s]) : s \in DOMAIN t}) = Len(t) * Len(t[1])
    BY <1>3, <1>4, <1>7, <1>8, DistinctCopies
  <1>10. InPlace([s \in DOMAIN t |-> t[s][1]], st.shard_urls)
    <2>1. InPlace(p, st.shard_urls)
      BY PrimaryAddresses DEF p
    <2>2. p = [s \in 1..n |-> p[s]]
      BY <1>1
    <2>3. [s \in DOMAIN t |-> t[s][1]] = p
      BY <1>3, <1>6, <2>2
    <2> QED BY <2>1, <2>3
  <1>11. IF st.replica_urls = << <<Blank>> >> THEN Len(t[1]) = 1
         ELSE /\ DOMAIN st.replica_urls = DOMAIN t
              /\ \A s \in DOMAIN t : InPlace(Tail(t[s]), st.replica_urls[s])
    <2>1. CASE st.replica_urls = << <<Blank>> >>
      <3>1. groups = <<>>
        BY <2>1, GroupAddresses DEF groups
      <3>2. Others(1) = <<>> /\ Len(<<>>) = 0
        BY <3>1 DEF Others
      <3>3. Len(t[1]) = Len(Others(1)) + 1
        BY <1>6, <1>8
      <3>4. Len(t[1]) = 1
        BY <3>2, <3>3
      <3> QED BY <2>1, <3>4
    <2>2. CASE st.replica_urls # << <<Blank>> >>
      <3>1. /\ DOMAIN groups = DOMAIN st.replica_urls
            /\ \A s \in DOMAIN groups : InPlace(groups[s], st.replica_urls[s])
        BY <2>2, GroupAddresses DEF groups
      <3>2. groups # <<>>
        <4>1. st.replica_urls \in Seq(Seq(Int \cup {Blank})) /\ st.replica_urls # <<>>
          BY <2>2 DEF SettingsRecords
        <4> QED BY <3>1, <4>1
      <3>3. DOMAIN groups = 1..n /\ \A s \in 1..n : Others(s) = groups[s]
        BY <1>1, <3>2 DEF Others
      <3> QED BY <1>3, <1>6, <2>2, <3>1, <3>3
    <2> QED BY <2>1, <2>2
  <1>12. SoundTopology(t, st)
    BY <1>3, <1>8, <1>9, <1>10, <1>11 DEF SoundTopology, Written, n
  <1> QED BY <1>3, <1>4, <1>7, <1>8, <1>12 DEF t, p, groups, n

\* The settings that the launcher gives to the coordinator are settings; they
\* are refused if there is no shard, or if a replica has a primary's port.
LEMMA LauncherSettings ==
    ASSUME NEW a \in Arguments
    PROVE  /\ SettingsFor(a) \in SettingsRecords /\ SettingsFor(a).shard_count = a.shards
           /\ CoordinatorSettingsAccepted(SettingsFor(a)) =>
                 /\ a.shards >= 1
                 /\ a.replicated => \A s \in 0..(a.shards - 1) : ~(ReplicaOffset + s < a.shards)
  <1> DEFINE st == SettingsFor(a)
             n == a.shards
             primaries == [i \in 1..n |-> i - 1]
             groups == [i \in 1..n |-> <<ReplicaOffset + (i - 1)>>]
  <1>1. /\ n \in 0..MaxShards /\ n \in Nat /\ a.replicated \in BOOLEAN
        /\ ReplicaOffset \in Nat /\ Blank \notin Int
    BY ClusterAssumption DEF Arguments
  <1>2. primaries \in Seq(Int) /\ primaries \in Seq(Int \cup {Blank})
    BY <1>1
  <1>3. groups \in Seq(Seq(Int)) /\ groups \in Seq(Seq(Int \cup {Blank}))
    <2>1. \A i \in 1..n : /\ <<ReplicaOffset + (i - 1)>> \in Seq(Int)
                          /\ <<ReplicaOffset + (i - 1)>> \in Seq(Int \cup {Blank})
      BY <1>1
    <2>2. /\ groups \in [1..n -> Seq(Int)]
          /\ groups \in [1..n -> Seq(Int \cup {Blank})]
      BY <2>1
    <2> HIDE DEF groups, n
    <2> QED BY <1>1, <2>2
  <1>4. /\ st.shard_count = n
        /\ st.shard_urls = IF n = 0 THEN <<Blank>> ELSE primaries
        /\ st.replica_urls = IF a.replicated /\ n > 0 THEN groups ELSE << <<Blank>> >>
        /\ st = [shard_count |-> st.shard_count, shard_urls |-> st.shard_urls,
                 replica_urls |-> st.replica_urls]
    BY DEF SettingsFor
  <1> HIDE DEF st, n, primaries, groups
  <1>5. st \in SettingsRecords
    <2>1. <<Blank>> \in Seq(Int \cup {Blank}) /\ << <<Blank>> >> \in Seq(Seq(Int \cup {Blank}))
      OBVIOUS
    <2>2. n > 0 => groups # <<>>
      <3>1. n > 0 => 1 \in DOMAIN groups
        BY <1>1 DEF groups
      <3> QED BY <3>1
    <2>3. << <<Blank>> >> # <<>>
      OBVIOUS
    <2>4. /\ st.shard_urls \in Seq(Int \cup {Blank})
          /\ st.replica_urls \in Seq(Seq(Int \cup {Blank})) \ {<<>>}
      BY <1>2, <1>3, <1>4, <2>1, <2>2, <2>3
    <2> QED BY <1>1, <1>4, <2>4 DEF SettingsRecords
  <1>6. ASSUME CoordinatorSettingsAccepted(st), a.replicated
        PROVE  \A s \in 0..(n - 1) : ~(ReplicaOffset + s < n)
    <2>1. n >= 1
      BY <1>4, <1>6 DEF CoordinatorSettingsAccepted
    <2>2. ShardAddresses(st) = primaries
      <3>1. st.shard_urls = primaries
        BY <1>1, <1>4, <2>1
      <3>2. \A i \in DOMAIN primaries : primaries[i] # Blank
        BY <1>1 DEF primaries
      <3> QED BY <1>2, <3>1, <3>2, EntriesFacts DEF ShardAddresses
    <2>3. ReplicaAddresses(st) = groups
      <3>1. st.replica_urls = groups /\ DOMAIN groups = 1..n
        BY <1>1, <1>4, <1>6, <2>1 DEF groups
      <3>2. ASSUME NEW i \in 1..n
            PROVE  groups[i] \in Seq(Int) /\ Entries(groups[i]) = groups[i] /\ groups[i] # <<Blank>>
        <4>1. groups[i] = <<ReplicaOffset + (i - 1)>> /\ ReplicaOffset + (i - 1) \in Int
          BY <1>1 DEF groups
        <4>2. groups[i] \in Seq(Int)
          BY <4>1
        <4>3. \A j \in DOMAIN groups[i] : groups[i][j] # Blank
          BY <1>1, <4>1
        <4>4. groups[i] # <<Blank>>
          BY <1>1, <4>1
        <4> QED BY <4>2, <4>3, <4>4, EntriesFacts
      <3>3. groups # << <<Blank>> >>
        <4>1. 1 \in 1..n
          BY <1>1, <2>1
        <4> QED BY <3>2, <4>1
      <3>4. groups = [s \in 1..n |-> groups[s]]
        BY DEF groups
      <3>5. ReplicaAddresses(st) = [s \in 1..n |-> Entries(groups[s])]
        BY <3>1, <3>3 DEF ReplicaAddresses
      <3> QED BY <3>2, <3>4, <3>5
    <2> DEFINE t == BuildTopology(primaries, groups)
    <2>4. AllDistinct(t)
      BY <1>5, <1>6, <2>2, <2>3, AcceptedTopology
    <2>5. \A i \in 1..n : /\ i \in DOMAIN t
                          /\ 1 \in DOMAIN t[i] /\ t[i][1] = i - 1
                          /\ 2 \in DOMAIN t[i] /\ t[i][2] = ReplicaOffset + (i - 1)
      <3>1. groups # <<>> /\ DOMAIN primaries = 1..n
        BY <1>1, <2>1 DEF groups, primaries
      <3>2. \A i \in 1..n : /\ i \in DOMAIN t
                            /\ t[i] = <<primaries[i]>> \o groups[i]
        BY <3>1 DEF BuildTopology
      <3>3. \A i \in 1..n : primaries[i] = i - 1 /\ groups[i] = <<ReplicaOffset + (i - 1)>>
        BY DEF primaries, groups
      <3>4. \A x, y \in Int : /\ 1 \in DOMAIN (<<x>> \o <<y>>) /\ (<<x>> \o <<y>>)[1] = x
                              /\ 2 \in DOMAIN (<<x>> \o <<y>>) /\ (<<x>> \o <<y>>)[2] = y
        OBVIOUS
      <3>5. \A i \in 1..n : i - 1 \in Int /\ ReplicaOffset + (i - 1) \in Int
        BY <1>1
      <3> HIDE DEF t
      <3> TAKE i \in 1..n
      <3>6. t[i] = <<i - 1>> \o <<ReplicaOffset + (i - 1)>>
        BY <3>2, <3>3
      <3>7. i - 1 \in Int /\ ReplicaOffset + (i - 1) \in Int
        BY <3>5
      <3>8. /\ 1 \in DOMAIN t[i] /\ t[i][1] = i - 1
            /\ 2 \in DOMAIN t[i] /\ t[i][2] = ReplicaOffset + (i - 1)
        BY <3>4, <3>6, <3>7
      <3> QED BY <3>2, <3>8
    <2> SUFFICES ASSUME NEW s \in 0..(n - 1), ReplicaOffset + s < n
                 PROVE  FALSE
      OBVIOUS
    <2> DEFINE i == s + 1
               j == ReplicaOffset + s + 1
    <2>6. /\ i \in 1..n /\ j \in 1..n
          /\ ReplicaOffset + (i - 1) = j - 1
      BY <1>1
    <2> HIDE DEF t, i, j
    <2>7. t[i][2] = t[j][1] /\ 2 \in DOMAIN t[i] /\ 1 \in DOMAIN t[j]
      BY <2>5, <2>6
    <2> QED BY <2>4, <2>5, <2>6, <2>7 DEF AllDistinct
  <1>7. CoordinatorSettingsAccepted(st) => n >= 1
    BY <1>4 DEF CoordinatorSettingsAccepted
  <1> QED BY <1>4, <1>5, <1>6, <1>7 DEF st, n

-----------------------------------------------------------------------------
(* The inductive invariant *)

\* How far the launcher has got.
LaunchInv ==
    LET started == Len(processes)
        next == launcher.next
    IN  /\ launcher.phase = "start_primaries" => next <= args.shards /\ started = next
        /\ launcher.phase = "await_primaries" => next <= args.shards /\ started = args.shards
        /\ launcher.phase = "start_replicas" => next <= Replicas /\ started = args.shards + next
        /\ launcher.phase = "await_replicas" =>
              next <= Replicas /\ started = args.shards + Replicas
        /\ launcher.phase = "start_coordinator" => started = args.shards + Replicas
        /\ launcher.phase = "reap" => next <= started + 1
        /\ started <= args.shards + Replicas + 1

\* Only what was asked for is started, in the order of the launcher; after the
\* SIGTERM nobody listens.
StartInv ==
    /\ launcher.phase # "ended" => settings = SettingsFor(args)
    /\ launcher.phase \notin {"await_coordinator", "running", "reap", "ended"} =>
          process[Coordinator] = "none"
    /\ launcher.phase \in {"start_primaries", "await_primaries"} =>
          \A s \in ShardIds : process[ReplicaOf(s)] = "none"
    /\ launcher.phase = "reap" => \A n \in Nodes : process[n] \notin {"starting"} \cup Listening
    /\ process[Coordinator] \notin {"ready", "unready"}
    /\ \A n \in ShardNodes : process[n] # "none" => n \in NodesOf
    /\ \A i \in DOMAIN processes : processes[i] \in NodesOf \cup {Coordinator}

\* The launcher has seen ready what it has waited for, but for replicas with
\* the port of a primary.
SeenInv ==
    /\ \A n \in ShardNodes : process[n] = "ready" => n \in beenReady
    /\ launcher.phase = "await_primaries" =>
          \A s \in 0..(launcher.next - 1) : PrimaryOf(s) \in beenReady
    /\ launcher.phase \notin {"start_primaries", "await_primaries", "reap", "ended"} =>
          \A s \in 0..(args.shards - 1) : PrimaryOf(s) \in beenReady
    /\ launcher.phase = "await_replicas" =>
          \A s \in 0..(launcher.next - 1) :
             ReplicaOf(s) \in beenReady \/ ReplicaOffset + s < args.shards
    /\ launcher.phase \in {"start_coordinator", "await_coordinator", "running"} =>
          \A s \in 0..(Replicas - 1) :
             ReplicaOf(s) \in beenReady \/ ReplicaOffset + s < args.shards

\* A coordinator that is up has accepted its settings and works with them.
UpInv ==
    process[Coordinator] = "up" =>
        /\ CoordinatorSettingsAccepted(settings)
        /\ topology = BuildTopology(ShardAddresses(settings), ReplicaAddresses(settings))

\* A probe belongs to a coordinator that is up, and has not been reported yet;
\* whoever serves is noted, and what has been answered was so at the time, and
\* still is if nothing has happened.
ProbeInv ==
    probe # "idle" =>
        /\ process[Coordinator] = "up"
        /\ report = NoReport
        /\ DOMAIN answer = DOMAIN topology
        /\ Serving \subseteq served
        /\ \A s \in served : s + 1 \in DOMAIN topology
        /\ \A s \in DOMAIN topology :
              /\ DOMAIN answer[s] = DOMAIN topology[s]
              /\ \A i \in DOMAIN topology[s] :
                    /\ answer[s][i] = "ready" => s - 1 \in served
                    /\ quiet => answer[s][i] \in {"waiting", "lost", Says(topology[s][i])}

ClusterInv ==
    /\ TypeOK /\ LaunchInv /\ StartInv /\ SeenInv /\ UpInv /\ ProbeInv
    /\ AnnouncedWholeCluster

\* What is always so of the settings.
LEMMA SettingsTyped ==
    ASSUME TypeOK
    PROVE  settings \in SettingsRecords
  <1>1. HandWritten \subseteq SettingsRecords
    BY ClusterAssumption DEF SettingsRecords
  <1>2. \A a \in Arguments : SettingsFor(a) \in SettingsRecords
    BY LauncherSettings
  <1>3. settings \in HandWritten \cup {SettingsFor(a) : a \in Arguments}
    BY DEF TypeOK
  <1> QED BY <1>1, <1>2, <1>3

\* Nodes and their ports.
LEMMA NodeFacts ==
    /\ Coordinator \in Nodes /\ Coordinator \notin ShardNodes /\ ShardNodes \subseteq Nodes
    /\ \A n \in Nodes : n # Coordinator => n \in ShardNodes
    /\ \A s \in ShardIds : /\ PrimaryOf(s) \in ShardNodes /\ Port(PrimaryOf(s)) = s
                           /\ ReplicaOf(s) \in ShardNodes /\ Port(ReplicaOf(s)) = ReplicaOffset + s
                           /\ PrimaryOf(s) # ReplicaOf(s)
    /\ \A n \in ShardNodes : \E s \in ShardIds : n = PrimaryOf(s) \/ n = ReplicaOf(s)
    /\ \A s, t \in ShardIds : PrimaryOf(s) = PrimaryOf(t) \/ ReplicaOf(s) = ReplicaOf(t) => s = t
  BY DEF Nodes, ShardNodes, Coordinator, PrimaryOf, ReplicaOf, Port

\* Numbers of shards and replicas.
LEMMA ArgFacts ==
    ASSUME TypeOK
    PROVE  /\ args.shards \in Nat /\ args.shards <= MaxShards /\ MaxShards \in Nat
           /\ Replicas \in Nat /\ Replicas <= args.shards
           /\ ReplicaOffset \in Nat /\ args.port \in Int
           /\ \A s \in 0..(args.shards - 1) : s \in ShardIds
           /\ \A s \in 0..(Replicas - 1) : s \in ShardIds
  <1>1. args \in Arguments
    BY DEF TypeOK
  <1>2. /\ args.shards \in 0..MaxShards /\ args.port \in CoordinatorPorts
        /\ Replicas \in {0, args.shards}
    BY <1>1 DEF Arguments, Replicas
  <1>3. MaxShards \in Nat /\ ReplicaOffset \in Nat /\ args.port \in Int
    BY <1>2, ClusterAssumption
  <1>4. /\ args.shards \in Nat /\ args.shards <= MaxShards
        /\ Replicas \in Nat /\ Replicas <= args.shards
    <2> HIDE DEF Replicas
    <2> QED BY <1>2, <1>3
  <1>5. \A s \in 0..(args.shards - 1) : s \in ShardIds
    BY <1>3, <1>4 DEF ShardIds
  <1>6. \A s \in 0..(Replicas - 1) : s \in ShardIds
    BY <1>3, <1>4 DEF ShardIds
  <1> QED BY <1>3, <1>4, <1>5, <1>6

\* What a port says does not change when nobody begins to listen or ceases to.
LEMMA SaysSame ==
    ASSUME UNCHANGED args,
           \A n \in ShardNodes : \/ process'[n] = process[n]
                                 \/ /\ process[n] \notin {"ready", "unready"}
                                    /\ process'[n] \notin {"ready", "unready"}
    PROVE  /\ \A p : Says(p)' = Says(p)
           /\ UNCHANGED topology => Serving' = Serving
  <1>1. \A n \in ShardNodes : Port(n)' = Port(n)
    BY DEF Port
  <1>2. \A p : Says(p)' = Says(p)
    BY <1>1 DEF Says
  <1> QED BY <1>2 DEF Serving

\* Who answers "ready" is a node that has been READY.
LEMMA SaysReady ==
    ASSUME ClusterInv, NEW p, Says(p) = "ready"
    PROVE  \E n \in ShardNodes : Port(n) = p /\ process[n] = "ready" /\ n \in beenReady
                                 /\ n \in NodesOf
  BY DEF Says, ClusterInv, SeenInv, StartInv

\* What has been announced stays so.
LEMMA AnnouncedStays ==
    ASSUME ClusterInv, UNCHANGED <<args, launcher>>, beenReady \subseteq beenReady',
           \/ UNCHANGED topology
           \/ launcher.phase # "running"
           \/ DOMAIN topology' = 1..args.shards
    PROVE  AnnouncedWholeCluster' /\ UNCHANGED NodesOf
  <1>1. UNCHANGED <<NodesOf, Replicas>>
    BY DEF NodesOf, Replicas
  <1>2. \A n : Port(n)' = Port(n)
    BY DEF Port
  <1>3. UNCHANGED CoordinatorPortTaken
    BY <1>1, <1>2 DEF CoordinatorPortTaken
  <1> HIDE DEF Port, CoordinatorPortTaken, Replicas
  <1> QED BY <1>1, <1>3 DEF ClusterInv, AnnouncedWholeCluster

\* The launcher, or a coordinator that was started by hand, begins like this.
LEMMA InitCluster == Init => ClusterInv
  <1> SUFFICES ASSUME Init PROVE ClusterInv
    OBVIOUS
  <1>1. TypeOK
    <2>1. args \in Arguments /\ settings \in HandWritten \cup {SettingsFor(a) : a \in Arguments}
      BY DEF Init
    <2>2. process \in [Nodes -> ProcessStates]
      BY DEF Init, ProcessStates
    <2>3. launcher \in [phase : Phases, next : 0..(2 * MaxShards + 2)]
      BY ClusterAssumption DEF Init, Phases
    <2>4. faults \in 0..MaxFaults
      BY ClusterAssumption DEF Init
    <2>5. report \in [kind : {"none", "readiness", "status"}, search : BOOLEAN,
                      write : BOOLEAN, unready : SUBSET ShardIds]
      BY DEF Init, NoReport
    <2>6. processes \in Seq(Nodes) /\ topology \in Seq(Seq(Int)) /\ answer \in Seq(Seq(Answers))
      BY DEF Init
    <2> QED BY <2>1, <2>2, <2>3, <2>4, <2>5, <2>6 DEF Init, TypeOK
  <1>2. /\ \A n \in Nodes : process[n] = "none" \/ (n = Coordinator /\ process[n] = "starting")
        /\ launcher.phase \in {"start_primaries", "ended"} /\ launcher.next = 0
        /\ launcher.phase = "start_primaries" => process[Coordinator] = "none"
                                                 /\ settings = SettingsFor(args)
        /\ Len(processes) = 0 /\ probe = "idle"
    BY NodeFacts DEF Init
  <1>3. LaunchInv
    BY <1>1, <1>2, ArgFacts DEF LaunchInv
  <1>4. StartInv
    BY <1>2, NodeFacts DEF StartInv, Listening
  <1>5. SeenInv
    BY <1>2, NodeFacts DEF SeenInv
  <1>6. UpInv
    BY <1>2, NodeFacts DEF UpInv
  <1>7. ProbeInv /\ AnnouncedWholeCluster
    BY <1>2 DEF ProbeInv, AnnouncedWholeCluster
  <1> QED BY <1>1, <1>3, <1>4, <1>5, <1>6, <1>7 DEF ClusterInv

\* A process that is starting or listening goes from one state to another: a
\* node starts, stops, fails or is synchronised, or a coordinator does not start.
LEMMA BecomesInv ==
    ASSUME ClusterInv, NEW n \in ShardNodes, NEW newState \in {"ready", "unready", "exited"},
           process[n] \in {"starting"} \cup Listening,
           Becomes(n, newState), faults' \in 0..MaxFaults
    PROVE  ClusterInv'
  <1>1. /\ TypeOK /\ n \in Nodes /\ n # Coordinator
        /\ UNCHANGED <<args, settings, processes, launcher, topology, probe, answer, report>>
        /\ process' = [process EXCEPT ![n] = newState]
    BY NodeFacts DEF ClusterInv, Becomes
  <1>2. /\ process \in [Nodes -> ProcessStates] /\ process' \in [Nodes -> ProcessStates]
        /\ process'[n] = newState
        /\ \A m \in Nodes : m # n => process'[m] = process[m]
        /\ process'[Coordinator] = process[Coordinator]
    BY <1>1, NodeFacts DEF TypeOK, ProcessStates
  <1>3. launcher.phase # "reap"
    BY <1>1 DEF ClusterInv, StartInv
  <1>4. process[n] # "none" /\ n \in NodesOf
    BY DEF Listening, ClusterInv, StartInv
  <1>5. beenReady' = beenReady \cup {m \in ShardNodes : process'[m] = "ready"}
    BY DEF Becomes, NoteChange
  <1>6. UNCHANGED <<NodesOf, Replicas>> /\ AnnouncedWholeCluster'
    BY <1>1, <1>5, AnnouncedStays DEF Replicas
  <1>7. /\ served' = IF probe = "idle" THEN {} ELSE served \cup Serving'
        /\ quiet' = (probe = "idle")
    BY DEF Becomes, NoteChange
  <1>8. TypeOK'
    <2>1. beenReady' \subseteq ShardNodes
      BY <1>1, <1>5 DEF TypeOK
    <2>2. Serving' \subseteq ShardIds
      BY DEF Serving
    <2>3. served' \subseteq ShardIds /\ quiet' \in BOOLEAN
      BY <1>1, <1>7, <2>2 DEF TypeOK
    <2> QED BY <1>1, <1>2, <2>1, <2>3 DEF TypeOK
  <1>9. LaunchInv'
    BY <1>1, <1>6 DEF ClusterInv, LaunchInv
  <1>10. StartInv'
    <2>1. launcher.phase \in {"start_primaries", "await_primaries"} =>
             \A s \in ShardIds : process'[ReplicaOf(s)] = "none"
      BY <1>2, <1>4, NodeFacts DEF ClusterInv, StartInv
    <2>2. \A m \in ShardNodes : process'[m] # "none" => m \in NodesOf
      BY <1>2, <1>4, NodeFacts DEF ClusterInv, StartInv
    <2> QED BY <1>1, <1>2, <1>3, <1>6, <2>1, <2>2 DEF ClusterInv, StartInv
  <1>11. SeenInv'
    BY <1>1, <1>5, <1>6 DEF ClusterInv, SeenInv
  <1>12. UpInv'
    BY <1>1, <1>2 DEF ClusterInv, UpInv
  <1>13. ProbeInv'
    <2> SUFFICES ASSUME probe # "idle" PROVE ProbeInv'
      BY <1>1 DEF ProbeInv
    <2>1. served' = served \cup Serving' /\ quiet' = FALSE
      BY <1>7
    <2>2. \A s \in Serving' : s + 1 \in DOMAIN topology
      BY <1>1 DEF Serving
    <2> QED BY <1>1, <1>2, <2>1, <2>2 DEF ClusterInv, ProbeInv
  <1> QED BY <1>6, <1>8, <1>9, <1>10, <1>11, <1>12, <1>13 DEF ClusterInv

\* The probe is not disturbed by a step that begins or ends no listening.
LEMMA ProbeStays ==
    ASSUME ClusterInv, UNCHANGED <<args, probeVars>>,
           process'[Coordinator] = process[Coordinator] \/ probe = "idle",
           \A n \in ShardNodes : \/ process'[n] = process[n]
                                 \/ /\ process[n] \notin {"ready", "unready"}
                                    /\ process'[n] \notin {"ready", "unready"}
    PROVE  ProbeInv'
  <1>1. UNCHANGED <<topology, probe, answer, report, served, quiet>>
    BY DEF probeVars
  <1>2. (\A p : Says(p)' = Says(p)) /\ Serving' = Serving
    BY <1>1, SaysSame
  <1> QED BY <1>1, <1>2 DEF ClusterInv, ProbeInv

\* The launcher starts process n: there is no coordinator yet, and no probe.
LEMMA StartStep ==
    ASSUME ClusterInv, NEW n \in Nodes, StartNode(n),
           n \in ShardNodes => n \in NodesOf,
           launcher.phase \in {"start_primaries", "start_replicas", "start_coordinator"},
           launcher' \in [phase : Phases, next : 0..(2 * MaxShards + 2)],
           UNCHANGED <<args, settings, faults, beenReady, probeVars>>
    PROVE  /\ TypeOK' /\ UpInv' /\ ProbeInv' /\ Len(processes') = Len(processes) + 1
           /\ UNCHANGED <<NodesOf, Replicas>>
           /\ settings' = SettingsFor(args')
           /\ \A i \in DOMAIN processes' : processes'[i] \in NodesOf \cup {Coordinator}
           /\ \A m \in ShardNodes : process'[m] # "none" => m \in NodesOf
           /\ \A m \in ShardNodes : process'[m] = "ready" => m \in beenReady
           /\ \A m \in Nodes : m # n => process'[m] = process[m]
           /\ process[Coordinator] = "none"
  <1>1. /\ TypeOK /\ process[Coordinator] = "none" /\ probe = "idle"
        /\ process \in [Nodes -> ProcessStates] /\ processes \in Seq(Nodes)
        /\ settings = SettingsFor(args)
    BY DEF ClusterInv, StartInv, ProbeInv, TypeOK
  <1>2. /\ process' \in [Nodes -> ProcessStates] /\ process'[n] = "starting"
        /\ \A m \in Nodes : m # n => process'[m] = process[m]
        /\ processes' \in Seq(Nodes) /\ Len(processes') = Len(processes) + 1
    BY <1>1 DEF StartNode, ProcessStates
  <1>3. UNCHANGED <<args, settings, faults, beenReady, topology, probe, answer, report,
                    served, quiet>>
    BY DEF probeVars
  <1>4. TypeOK'
    BY <1>1, <1>2, <1>3 DEF TypeOK
  <1>5. UNCHANGED <<NodesOf, Replicas>>
    BY <1>3 DEF NodesOf, Replicas
  <1>6. UpInv' /\ ProbeInv'
    BY <1>1, <1>2, <1>3, NodeFacts DEF UpInv, ProbeInv
  <1>7. \A m \in ShardNodes : /\ process'[m] # "none" => m \in NodesOf
                              /\ process'[m] = "ready" => m \in beenReady
    BY <1>2, NodeFacts DEF ClusterInv, StartInv, SeenInv
  <1>8. \A i \in DOMAIN processes' : processes'[i] \in NodesOf \cup {Coordinator}
    <2>1. \A i \in DOMAIN processes : processes[i] \in NodesOf \cup {Coordinator}
      BY DEF ClusterInv, StartInv
    <2>2. n \in NodesOf \cup {Coordinator}
      BY NodeFacts
    <2>3. processes' = Append(processes, n)
      BY DEF StartNode
    <2> HIDE DEF NodesOf
    <2> QED BY <1>1, <2>1, <2>2, <2>3
  <1> QED BY <1>1, <1>2, <1>3, <1>4, <1>5, <1>6, <1>7, <1>8

\* Where the launcher goes is a phase and a position.
LEMMA GoesFacts ==
    ASSUME NEW phase \in Phases, NEW next \in 0..(2 * MaxShards + 2), Goes(phase, next)
    PROVE  /\ launcher' \in [phase : Phases, next : 0..(2 * MaxShards + 2)]
           /\ launcher'.phase = phase /\ launcher'.next = next
  BY DEF Goes

\* The launcher goes on without touching a process: only its own progress is new.
LEMMA LauncherMoves ==
    ASSUME ClusterInv, launcher' \in [phase : Phases, next : 0..(2 * MaxShards + 2)],
           launcher.phase # "reap", launcher.phase # "ended", launcher'.phase # "reap",
           UNCHANGED <<args, settings, process, processes, faults, beenReady, probeVars>>
    PROVE  /\ TypeOK' /\ UpInv' /\ ProbeInv' /\ UNCHANGED <<NodesOf, Replicas>>
           /\ settings' = SettingsFor(args')
           /\ \A i \in DOMAIN processes' : processes'[i] \in NodesOf \cup {Coordinator}
           /\ \A m \in ShardNodes : process'[m] # "none" => m \in NodesOf
           /\ \A m \in ShardNodes : process'[m] = "ready" => m \in beenReady
  <1>1. UNCHANGED <<topology, probe, answer, report, served, quiet>>
    BY DEF probeVars
  <1>2. TypeOK' /\ UpInv' /\ UNCHANGED <<NodesOf, Replicas>>
    BY <1>1 DEF ClusterInv, TypeOK, UpInv, NodesOf, Replicas
  <1>3. ProbeInv'
    BY ProbeStays
  <1> QED BY <1>2, <1>3 DEF ClusterInv, StartInv, SeenInv

LEMMA StartPrimariesInv ==
    ASSUME ClusterInv, StartPrimaries
    PROVE  ClusterInv'
  <1>1. /\ TypeOK /\ LaunchInv /\ StartInv /\ SeenInv
        /\ launcher.phase = "start_primaries"
        /\ UNCHANGED <<args, settings, faults, beenReady, probeVars>>
        /\ launcher.next \in 0..(2 * MaxShards + 2)
        /\ launcher.next <= args.shards /\ Len(processes) = launcher.next
        /\ args.shards \in Nat /\ args.shards <= MaxShards /\ MaxShards \in Nat
        /\ Replicas \in Nat
    BY ArgFacts DEF ClusterInv, StartPrimaries, TypeOK, LaunchInv
  <1>2. CASE launcher.next < args.shards
    <2> DEFINE n == PrimaryOf(launcher.next)
    <2>1. /\ StartNode(n) /\ Goes("start_primaries", launcher.next + 1)
          /\ launcher.next \in ShardIds /\ launcher.next \in 0..(args.shards - 1)
          /\ launcher.next + 1 \in 0..(2 * MaxShards + 2)
      BY <1>1, <1>2 DEF StartPrimaries, ShardIds
    <2>2. n \in ShardNodes /\ n \in Nodes /\ n # Coordinator /\ n \in NodesOf
          /\ \A s \in ShardIds : n # ReplicaOf(s)
      BY <2>1, NodeFacts DEF NodesOf, PrimaryOf, ReplicaOf
    <2> HIDE DEF n
    <2>3. /\ launcher' \in [phase : Phases, next : 0..(2 * MaxShards + 2)]
          /\ launcher'.phase = "start_primaries" /\ launcher'.next = launcher.next + 1
      BY <2>1, GoesFacts DEF Phases
    <2>4. /\ TypeOK' /\ UpInv' /\ ProbeInv' /\ Len(processes') = Len(processes) + 1
          /\ UNCHANGED <<NodesOf, Replicas>>
          /\ settings' = SettingsFor(args')
          /\ \A i \in DOMAIN processes' : processes'[i] \in NodesOf \cup {Coordinator}
          /\ \A m \in ShardNodes : process'[m] # "none" => m \in NodesOf
          /\ \A m \in ShardNodes : process'[m] = "ready" => m \in beenReady
          /\ \A m \in Nodes : m # n => process'[m] = process[m]
          /\ process[Coordinator] = "none"
      BY <1>1, <2>1, <2>2, <2>3, StartStep
    <2>5. LaunchInv'
      BY <1>1, <1>2, <2>3, <2>4 DEF LaunchInv
    <2>6. StartInv'
      BY <1>1, <2>2, <2>3, <2>4, NodeFacts DEF StartInv
    <2>7. SeenInv' /\ AnnouncedWholeCluster'
      BY <1>1, <2>3, <2>4 DEF SeenInv, AnnouncedWholeCluster
    <2> QED BY <2>4, <2>5, <2>6, <2>7 DEF ClusterInv
  <1>3. CASE ~(launcher.next < args.shards)
    <2>1. /\ UNCHANGED <<process, processes>> /\ Goes("await_primaries", 0)
          /\ 0 \in 0..(2 * MaxShards + 2)
      BY <1>1, <1>3 DEF StartPrimaries
    <2>2. /\ launcher' \in [phase : Phases, next : 0..(2 * MaxShards + 2)]
          /\ launcher'.phase = "await_primaries" /\ launcher'.next = 0
      BY <2>1, GoesFacts DEF Phases
    <2>3. /\ TypeOK' /\ UpInv' /\ ProbeInv' /\ UNCHANGED <<NodesOf, Replicas>>
          /\ settings' = SettingsFor(args')
          /\ \A i \in DOMAIN processes' : processes'[i] \in NodesOf \cup {Coordinator}
          /\ \A m \in ShardNodes : process'[m] # "none" => m \in NodesOf
          /\ \A m \in ShardNodes : process'[m] = "ready" => m \in beenReady
      BY <1>1, <2>1, <2>2, LauncherMoves
    <2>4. LaunchInv'
      BY <1>1, <1>3, <2>1, <2>2, <2>3 DEF LaunchInv
    <2>5. StartInv'
      BY <1>1, <2>1, <2>2, <2>3 DEF StartInv
    <2>6. SeenInv' /\ AnnouncedWholeCluster'
      BY <1>1, <2>2, <2>3 DEF SeenInv, AnnouncedWholeCluster
    <2> QED BY <2>3, <2>4, <2>5, <2>6 DEF ClusterInv
  <1> QED BY <1>2, <1>3

LEMMA StartReplicasInv ==
    ASSUME ClusterInv, StartReplicas
    PROVE  ClusterInv'
  <1>1. /\ TypeOK /\ LaunchInv /\ StartInv /\ SeenInv
        /\ launcher.phase = "start_replicas"
        /\ UNCHANGED <<args, settings, faults, beenReady, probeVars>>
        /\ launcher.next \in 0..(2 * MaxShards + 2)
        /\ launcher.next <= Replicas /\ Len(processes) = args.shards + launcher.next
        /\ args.shards \in Nat /\ args.shards <= MaxShards /\ MaxShards \in Nat
        /\ Replicas \in Nat /\ Replicas <= args.shards
    BY ArgFacts DEF ClusterInv, StartReplicas, TypeOK, LaunchInv
  <1>2. CASE launcher.next < Replicas
    <2> DEFINE n == ReplicaOf(launcher.next)
    <2>1. /\ StartNode(n) /\ Goes("start_replicas", launcher.next + 1)
          /\ launcher.next \in ShardIds /\ launcher.next \in 0..(Replicas - 1)
          /\ launcher.next + 1 \in 0..(2 * MaxShards + 2)
      <3> HIDE DEF Replicas
      <3> QED BY <1>1, <1>2 DEF StartReplicas, ShardIds
    <2>2. n \in ShardNodes /\ n \in Nodes /\ n # Coordinator /\ n \in NodesOf
      BY <2>1, NodeFacts DEF NodesOf
    <2> HIDE DEF n
    <2>3. /\ launcher' \in [phase : Phases, next : 0..(2 * MaxShards + 2)]
          /\ launcher'.phase = "start_replicas" /\ launcher'.next = launcher.next + 1
      BY <2>1, GoesFacts DEF Phases
    <2>4. /\ TypeOK' /\ UpInv' /\ ProbeInv' /\ Len(processes') = Len(processes) + 1
          /\ UNCHANGED <<NodesOf, Replicas>>
          /\ settings' = SettingsFor(args')
          /\ \A i \in DOMAIN processes' : processes'[i] \in NodesOf \cup {Coordinator}
          /\ \A m \in ShardNodes : process'[m] # "none" => m \in NodesOf
          /\ \A m \in ShardNodes : process'[m] = "ready" => m \in beenReady
          /\ \A m \in Nodes : m # n => process'[m] = process[m]
          /\ process[Coordinator] = "none"
      BY <1>1, <2>1, <2>2, <2>3, StartStep
    <2>5. LaunchInv'
      BY <1>1, <1>2, <2>3, <2>4, SMTT(20) DEF LaunchInv
    <2>6. StartInv'
      BY <1>1, <2>2, <2>3, <2>4, NodeFacts DEF StartInv
    <2>7. SeenInv' /\ AnnouncedWholeCluster'
      BY <1>1, <2>3, <2>4 DEF SeenInv, AnnouncedWholeCluster
    <2> QED BY <2>4, <2>5, <2>6, <2>7 DEF ClusterInv
  <1>3. CASE ~(launcher.next < Replicas)
    <2>1. /\ UNCHANGED <<process, processes>> /\ Goes("await_replicas", 0)
          /\ 0 \in 0..(2 * MaxShards + 2)
      BY <1>1, <1>3 DEF StartReplicas
    <2>2. /\ launcher' \in [phase : Phases, next : 0..(2 * MaxShards + 2)]
          /\ launcher'.phase = "await_replicas" /\ launcher'.next = 0
      BY <2>1, GoesFacts DEF Phases
    <2>3. /\ TypeOK' /\ UpInv' /\ ProbeInv' /\ UNCHANGED <<NodesOf, Replicas>>
          /\ settings' = SettingsFor(args')
          /\ \A i \in DOMAIN processes' : processes'[i] \in NodesOf \cup {Coordinator}
          /\ \A m \in ShardNodes : process'[m] # "none" => m \in NodesOf
          /\ \A m \in ShardNodes : process'[m] = "ready" => m \in beenReady
      BY <1>1, <2>1, <2>2, LauncherMoves
    <2>4. LaunchInv'
      BY <1>1, <1>3, <2>1, <2>2, <2>3 DEF LaunchInv
    <2>5. StartInv'
      BY <1>1, <2>1, <2>2, <2>3 DEF StartInv
    <2>6. SeenInv' /\ AnnouncedWholeCluster'
      BY <1>1, <2>2, <2>3 DEF SeenInv, AnnouncedWholeCluster
    <2> QED BY <2>3, <2>4, <2>5, <2>6 DEF ClusterInv
  <1> QED BY <1>2, <1>3

LEMMA StartCoordinatorInv ==
    ASSUME ClusterInv, StartCoordinator
    PROVE  ClusterInv'
  <1>1. /\ TypeOK /\ LaunchInv /\ StartInv /\ SeenInv
        /\ launcher.phase = "start_coordinator" /\ StartNode(Coordinator)
        /\ UNCHANGED <<args, settings, faults, beenReady, probeVars>>
        /\ Len(processes) = args.shards + Replicas
        /\ args.shards \in Nat /\ MaxShards \in Nat /\ Replicas \in Nat
    BY ArgFacts DEF ClusterInv, StartCoordinator, LaunchInv
  <1>2. /\ launcher' \in [phase : Phases, next : 0..(2 * MaxShards + 2)]
        /\ launcher'.phase = "await_coordinator" /\ launcher'.next = 0
    <2>1. Goes("await_coordinator", 0) /\ 0 \in 0..(2 * MaxShards + 2)
      BY <1>1 DEF StartCoordinator
    <2> QED BY <2>1, GoesFacts DEF Phases
  <1>3. Coordinator \in Nodes /\ Coordinator \notin ShardNodes
    BY NodeFacts
  <1>4. /\ TypeOK' /\ UpInv' /\ ProbeInv' /\ Len(processes') = Len(processes) + 1
        /\ UNCHANGED <<NodesOf, Replicas>>
        /\ settings' = SettingsFor(args')
        /\ \A i \in DOMAIN processes' : processes'[i] \in NodesOf \cup {Coordinator}
        /\ \A m \in ShardNodes : process'[m] # "none" => m \in NodesOf
        /\ \A m \in ShardNodes : process'[m] = "ready" => m \in beenReady
    BY <1>1, <1>2, <1>3, StartStep
  <1>5. LaunchInv'
    BY <1>1, <1>2, <1>4 DEF LaunchInv
  <1>6. StartInv'
    <2>1. process'[Coordinator] = "starting"
      BY <1>1, <1>3 DEF StartNode, TypeOK
    <2> QED BY <1>2, <1>4, <2>1 DEF StartInv
  <1>7. SeenInv' /\ AnnouncedWholeCluster'
    BY <1>1, <1>2, <1>4 DEF SeenInv, AnnouncedWholeCluster
  <1> QED BY <1>4, <1>5, <1>6, <1>7 DEF ClusterInv

LEMMA NodeSeenReadyInv ==
    ASSUME ClusterInv, NodeSeenReady
    PROVE  ClusterInv'
  <1>1. /\ TypeOK /\ LaunchInv /\ StartInv /\ SeenInv
        /\ UNCHANGED <<args, settings, process, processes, faults, beenReady, probeVars>>
        /\ launcher.next \in 0..(2 * MaxShards + 2)
        /\ args.shards \in Nat /\ args.shards <= MaxShards /\ MaxShards \in Nat
        /\ Replicas \in Nat /\ Replicas <= args.shards /\ ReplicaOffset \in Nat
    BY ArgFacts DEF ClusterInv, NodeSeenReady, TypeOK
  <1>2. ASSUME NEW phase \in {"await_primaries", "start_replicas", "await_replicas",
                              "start_coordinator"},
               NEW next \in 0..(2 * MaxShards + 2), Goes(phase, next),
               launcher.phase \in {"await_primaries", "await_replicas"}
        PROVE  /\ launcher'.phase = phase /\ launcher'.next = next
               /\ TypeOK' /\ UpInv' /\ ProbeInv' /\ UNCHANGED <<NodesOf, Replicas>>
               /\ settings' = SettingsFor(args')
               /\ \A i \in DOMAIN processes' : processes'[i] \in NodesOf \cup {Coordinator}
               /\ \A m \in ShardNodes : process'[m] # "none" => m \in NodesOf
               /\ \A m \in ShardNodes : process'[m] = "ready" => m \in beenReady
    <2>1. /\ launcher' \in [phase : Phases, next : 0..(2 * MaxShards + 2)]
          /\ launcher'.phase = phase /\ launcher'.next = next
      BY <1>2, GoesFacts DEF Phases
    <2> QED BY <1>1, <1>2, <2>1, LauncherMoves
  <1>3. CASE launcher.phase = "await_primaries" /\ launcher.next < args.shards
    <2>1. /\ Says(launcher.next) = "ready" /\ Goes("await_primaries", launcher.next + 1)
          /\ launcher.next + 1 \in 0..(2 * MaxShards + 2)
      BY <1>1, <1>3 DEF NodeSeenReady
    <2>2. /\ launcher'.phase = "await_primaries" /\ launcher'.next = launcher.next + 1
          /\ TypeOK' /\ UpInv' /\ ProbeInv' /\ UNCHANGED <<NodesOf, Replicas>>
          /\ settings' = SettingsFor(args')
          /\ \A i \in DOMAIN processes' : processes'[i] \in NodesOf \cup {Coordinator}
          /\ \A m \in ShardNodes : process'[m] # "none" => m \in NodesOf
          /\ \A m \in ShardNodes : process'[m] = "ready" => m \in beenReady
      BY <1>2, <1>3, <2>1
    <2>3. PrimaryOf(launcher.next) \in beenReady
      <3>1. PICK n \in ShardNodes : Port(n) = launcher.next /\ process[n] = "ready"
                                    /\ n \in beenReady
        BY <2>1, SaysReady
      <3>2. PICK s \in ShardIds : n = PrimaryOf(s) \/ n = ReplicaOf(s)
        BY NodeFacts
      <3>3. n = PrimaryOf(s)
        BY <1>1, <1>3, <3>1, <3>2 DEF StartInv
      <3>4. s = launcher.next
        BY <3>1, <3>3, NodeFacts
      <3> QED BY <3>1, <3>3, <3>4
    <2>4. LaunchInv'
      BY <1>1, <1>3, <2>2 DEF LaunchInv
    <2>5. StartInv'
      BY <1>1, <1>3, <2>2 DEF StartInv
    <2>6. SeenInv' /\ AnnouncedWholeCluster'
      BY <1>1, <1>3, <2>2, <2>3 DEF SeenInv, AnnouncedWholeCluster
    <2> QED BY <2>2, <2>4, <2>5, <2>6 DEF ClusterInv
  <1>4. CASE launcher.phase = "await_primaries" /\ ~(launcher.next < args.shards)
    <2>1. Goes("start_replicas", 0) /\ 0 \in 0..(2 * MaxShards + 2)
      BY <1>1, <1>4 DEF NodeSeenReady
    <2>2. /\ launcher'.phase = "start_replicas" /\ launcher'.next = 0
          /\ TypeOK' /\ UpInv' /\ ProbeInv' /\ UNCHANGED <<NodesOf, Replicas>>
          /\ settings' = SettingsFor(args')
          /\ \A i \in DOMAIN processes' : processes'[i] \in NodesOf \cup {Coordinator}
          /\ \A m \in ShardNodes : process'[m] # "none" => m \in NodesOf
          /\ \A m \in ShardNodes : process'[m] = "ready" => m \in beenReady
      BY <1>2, <1>4, <2>1
    <2>3. LaunchInv'
      BY <1>1, <1>4, <2>2 DEF LaunchInv
    <2>4. StartInv'
      BY <1>1, <1>4, <2>2 DEF StartInv
    <2>5. SeenInv' /\ AnnouncedWholeCluster'
      <3>1. launcher.next = args.shards
        BY <1>1, <1>4 DEF LaunchInv
      <3> QED BY <1>1, <1>4, <2>2, <3>1 DEF SeenInv, AnnouncedWholeCluster
    <2> QED BY <2>2, <2>3, <2>4, <2>5 DEF ClusterInv
  <1>5. CASE launcher.phase = "await_replicas" /\ launcher.next < Replicas
    <2>1. /\ Says(ReplicaOffset + launcher.next) = "ready"
          /\ Goes("await_replicas", launcher.next + 1)
          /\ launcher.next + 1 \in 0..(2 * MaxShards + 2)
          /\ launcher.next \in ShardIds
      <3> HIDE DEF Replicas
      <3> QED BY <1>1, <1>5 DEF NodeSeenReady, ShardIds
    <2>2. /\ launcher'.phase = "await_replicas" /\ launcher'.next = launcher.next + 1
          /\ TypeOK' /\ UpInv' /\ ProbeInv' /\ UNCHANGED <<NodesOf, Replicas>>
          /\ settings' = SettingsFor(args')
          /\ \A i \in DOMAIN processes' : processes'[i] \in NodesOf \cup {Coordinator}
          /\ \A m \in ShardNodes : process'[m] # "none" => m \in NodesOf
          /\ \A m \in ShardNodes : process'[m] = "ready" => m \in beenReady
      BY <1>2, <1>5, <2>1
    <2>3. \/ ReplicaOf(launcher.next) \in beenReady
          \/ ReplicaOffset + launcher.next < args.shards
      <3>1. PICK n \in ShardNodes : Port(n) = ReplicaOffset + launcher.next
                                    /\ n \in beenReady /\ n \in NodesOf
        BY <2>1, SaysReady
      <3>2. PICK s \in ShardIds : n = PrimaryOf(s) \/ n = ReplicaOf(s)
        BY NodeFacts
      <3>3. s \in Int
        BY DEF ShardIds
      <3>4. CASE n = ReplicaOf(s)
        <4>1. s = launcher.next
          BY <1>1, <3>1, <3>3, <3>4, NodeFacts
        <4> QED BY <3>1, <3>4, <4>1
      <3>5. CASE n = PrimaryOf(s)
        <4>1. s = ReplicaOffset + launcher.next
          BY <3>1, <3>5, NodeFacts
        <4>2. s \in 0..(args.shards - 1)
          BY <3>1, <3>5 DEF NodesOf, PrimaryOf, ReplicaOf
        <4> QED BY <1>1, <4>1, <4>2
      <3> QED BY <3>2, <3>4, <3>5
    <2>4. LaunchInv'
      BY <1>1, <1>5, <2>2 DEF LaunchInv
    <2>5. StartInv'
      BY <1>1, <1>5, <2>2 DEF StartInv
    <2>6. SeenInv' /\ AnnouncedWholeCluster'
      BY <1>1, <1>5, <2>2, <2>3 DEF SeenInv, AnnouncedWholeCluster
    <2> QED BY <2>2, <2>4, <2>5, <2>6 DEF ClusterInv
  <1>6. CASE launcher.phase = "await_replicas" /\ ~(launcher.next < Replicas)
    <2>1. Goes("start_coordinator", 0) /\ 0 \in 0..(2 * MaxShards + 2)
      BY <1>1, <1>6 DEF NodeSeenReady
    <2>2. /\ launcher'.phase = "start_coordinator" /\ launcher'.next = 0
          /\ TypeOK' /\ UpInv' /\ ProbeInv' /\ UNCHANGED <<NodesOf, Replicas>>
          /\ settings' = SettingsFor(args')
          /\ \A i \in DOMAIN processes' : processes'[i] \in NodesOf \cup {Coordinator}
          /\ \A m \in ShardNodes : process'[m] # "none" => m \in NodesOf
          /\ \A m \in ShardNodes : process'[m] = "ready" => m \in beenReady
      BY <1>2, <1>6, <2>1
    <2>3. LaunchInv'
      BY <1>1, <1>6, <2>2 DEF LaunchInv
    <2>4. StartInv'
      BY <1>1, <1>6, <2>2 DEF StartInv
    <2>5. SeenInv' /\ AnnouncedWholeCluster'
      <3>1. launcher.next = Replicas
        BY <1>1, <1>6 DEF LaunchInv
      <3> QED BY <1>1, <1>6, <2>2, <3>1 DEF SeenInv, AnnouncedWholeCluster
    <2> QED BY <2>2, <2>3, <2>4, <2>5 DEF ClusterInv
  <1> QED BY <1>3, <1>4, <1>5, <1>6 DEF NodeSeenReady

\* Whoever answers for the coordinator is the coordinator, unless one of the
\* nodes has its port; and the settings it has accepted leave no two nodes on one.
LEMMA ClusterSeenReadyInv ==
    ASSUME ClusterInv, ClusterSeenReady
    PROVE  ClusterInv'
  <1>1. /\ TypeOK /\ LaunchInv /\ StartInv /\ SeenInv /\ UpInv
        /\ launcher.phase = "await_coordinator"
        /\ UNCHANGED <<args, settings, process, processes, faults, beenReady, probeVars>>
        /\ args.shards \in Nat /\ MaxShards \in Nat /\ Replicas \in Nat
        /\ Replicas <= args.shards
    BY ArgFacts DEF ClusterInv, ClusterSeenReady
  <1>2. /\ launcher' \in [phase : Phases, next : 0..(2 * MaxShards + 2)]
        /\ launcher'.phase = "running" /\ launcher'.next = 0
    <2>1. Goes("running", 0) /\ 0 \in 0..(2 * MaxShards + 2)
      BY <1>1 DEF ClusterSeenReady
    <2> QED BY <2>1, GoesFacts DEF Phases
  <1>3. /\ TypeOK' /\ UpInv' /\ ProbeInv' /\ UNCHANGED <<NodesOf, Replicas>>
        /\ settings' = SettingsFor(args')
        /\ \A i \in DOMAIN processes' : processes'[i] \in NodesOf \cup {Coordinator}
        /\ \A m \in ShardNodes : process'[m] # "none" => m \in NodesOf
        /\ \A m \in ShardNodes : process'[m] = "ready" => m \in beenReady
    BY <1>1, <1>2, LauncherMoves
  <1>4. LaunchInv'
    BY <1>1, <1>2, <1>3 DEF LaunchInv
  <1>5. StartInv'
    BY <1>1, <1>2, <1>3 DEF StartInv
  <1>6. SeenInv'
    BY <1>1, <1>2, <1>3 DEF SeenInv
  <1>7. ASSUME ~CoordinatorPortTaken
        PROVE  /\ args.shards >= 1
               /\ \A s \in 0..(Replicas - 1) : ReplicaOf(s) \in beenReady
               /\ DOMAIN topology = 1..args.shards
    <2>1. Says(args.port) # "ready"
      BY <1>7, SaysReady DEF CoordinatorPortTaken
    <2>2. process[Coordinator] = "up" /\ settings = SettingsFor(args)
      BY <1>1, <2>1 DEF ClusterSeenReady, StartInv
    <2>3. args \in Arguments
      BY <1>1 DEF TypeOK
    <2>4. /\ CoordinatorSettingsAccepted(SettingsFor(args))
          /\ topology = BuildTopology(ShardAddresses(settings), ReplicaAddresses(settings))
      BY <1>1, <2>2 DEF UpInv
    <2>5. /\ args.shards >= 1
          /\ args.replicated => \A s \in 0..(args.shards - 1) : ~(ReplicaOffset + s < args.shards)
          /\ settings \in SettingsRecords /\ settings.shard_count = args.shards
      BY <2>2, <2>3, <2>4, LauncherSettings
    <2>6. \A s \in 0..(Replicas - 1) : ReplicaOf(s) \in beenReady
      <3>1. CASE args.replicated
        BY <1>1, <2>5, <3>1 DEF SeenInv, Replicas
      <3>2. CASE ~args.replicated
        BY <3>2 DEF Replicas
      <3> QED BY <3>1, <3>2
    <2>7. DOMAIN topology = 1..args.shards
      BY <2>2, <2>4, <2>5, AcceptedTopology
    <2> QED BY <2>5, <2>6, <2>7
  <1>8. ASSUME CoordinatorPortTaken
        PROVE  args.shards >= 1
    <2>1. PICK n : n \in NodesOf
      BY <1>8 DEF CoordinatorPortTaken
    <2>2. (\E s \in 0..(args.shards - 1) : TRUE) \/ (\E s \in 0..(Replicas - 1) : TRUE)
      BY <2>1 DEF NodesOf
    <2> HIDE DEF Replicas
    <2> QED BY <1>1, <2>2
  <1>9. AnnouncedWholeCluster'
    <2>1. \A n : Port(n)' = Port(n)
      BY <1>1 DEF Port
    <2>2. UNCHANGED <<args, beenReady, topology, CoordinatorPortTaken>>
      BY <1>1, <1>3, <2>1 DEF probeVars, CoordinatorPortTaken
    <2>3. /\ \A s \in 0..(args.shards - 1) : PrimaryOf(s) \in beenReady
          /\ \A s \in 0..(Replicas - 1) :
                ReplicaOf(s) \in beenReady \/ ReplicaOffset + s < args.shards
      BY <1>1 DEF SeenInv
    <2> HIDE DEF CoordinatorPortTaken, Replicas
    <2> QED BY <1>3, <1>7, <1>8, <2>2, <2>3 DEF AnnouncedWholeCluster
  <1> QED BY <1>3, <1>4, <1>5, <1>6, <1>9 DEF ClusterInv

LEMMA TerminateInv ==
    ASSUME ClusterInv, Terminate, launcher.phase \notin {"reap", "ended"}
    PROVE  ClusterInv'
  <1>1. /\ TypeOK /\ LaunchInv /\ StartInv /\ SeenInv
        /\ UNCHANGED <<args, settings, processes, faults, topology, report, beenReady>>
        /\ process' = [n \in Nodes |-> IF process[n] \in Running THEN "stopping" ELSE process[n]]
        /\ probe' = "idle" /\ answer' = <<>> /\ served' = {} /\ quiet' = TRUE
        /\ MaxShards \in Nat /\ processes \in Seq(Nodes)
    BY ArgFacts DEF ClusterInv, Terminate, TypeOK
  <1>2. /\ launcher' \in [phase : Phases, next : 0..(2 * MaxShards + 2)]
        /\ launcher'.phase = "reap" /\ launcher'.next = 1
    <2>1. Goes("reap", 1) /\ 1 \in 0..(2 * MaxShards + 2)
      BY <1>1 DEF Terminate
    <2> QED BY <2>1, GoesFacts DEF Phases
  <1>3. \A n \in Nodes : /\ process'[n] \in ProcessStates
                         /\ process'[n] \notin {"starting"} \cup Listening
                         /\ process'[n] # "none" => process[n] # "none"
    BY <1>1 DEF TypeOK, Running, Listening, ProcessStates
  <1>4. TypeOK'
    <2>1. process' \in [Nodes -> ProcessStates]
      BY <1>1, <1>3
    <2>2. <<>> \in Seq(Seq(Answers))
      OBVIOUS
    <2> QED BY <1>1, <1>2, <2>1, <2>2 DEF TypeOK
  <1>5. UNCHANGED <<NodesOf, Replicas>>
    BY <1>1 DEF NodesOf, Replicas
  <1>6. LaunchInv'
    BY <1>1, <1>2, <1>5 DEF LaunchInv
  <1>7. StartInv'
    BY <1>1, <1>2, <1>3, <1>5, NodeFacts DEF StartInv
  <1>8. SeenInv'
    BY <1>2, <1>3, NodeFacts DEF SeenInv, Listening
  <1>9. UpInv' /\ ProbeInv' /\ AnnouncedWholeCluster'
    BY <1>1, <1>2, <1>3, NodeFacts DEF UpInv, ProbeInv, AnnouncedWholeCluster, Listening
  <1> QED BY <1>4, <1>6, <1>7, <1>8, <1>9 DEF ClusterInv

LEMMA ReapInv ==
    ASSUME ClusterInv, Reap
    PROVE  ClusterInv'
  <1>1. /\ TypeOK /\ LaunchInv /\ StartInv /\ SeenInv /\ launcher.phase = "reap"
        /\ UNCHANGED <<args, settings, processes, faults, beenReady, probeVars>>
        /\ process \in [Nodes -> ProcessStates] /\ processes \in Seq(Nodes)
        /\ launcher.next \in 0..(2 * MaxShards + 2)
        /\ args.shards \in Nat /\ args.shards <= MaxShards /\ MaxShards \in Nat
        /\ Replicas \in Nat /\ Replicas <= args.shards
    BY ArgFacts DEF ClusterInv, Reap, TypeOK
  <1>2. \A n \in Nodes : /\ process'[n] \in ProcessStates
                         /\ process'[n] \notin {"starting"} \cup Listening
                         /\ process[n] \notin {"starting"} \cup Listening
                         /\ process'[n] # "none" => n \in NodesOf \cup {Coordinator}
    <2>1. \A n \in Nodes : process[n] \notin {"starting"} \cup Listening
      BY <1>1 DEF StartInv
    <2>2. \A n \in Nodes : process[n] # "none" => n \in NodesOf \cup {Coordinator}
      BY <1>1, NodeFacts DEF StartInv
    <2>3. CASE UNCHANGED process
      BY <1>1, <2>1, <2>2, <2>3
    <2>4. CASE process' # process
      <3>1. /\ launcher.next \in DOMAIN processes
            /\ process' = [process EXCEPT ![processes[launcher.next]] = "killed"]
        BY <2>4 DEF Reap
      <3>2. processes[launcher.next] \in NodesOf \cup {Coordinator}
        BY <1>1, <3>1 DEF StartInv
      <3> QED BY <1>1, <2>1, <2>2, <3>1, <3>2 DEF ProcessStates, Listening
    <2> QED BY <2>3, <2>4
  <1>3. process' \in [Nodes -> ProcessStates]
    <2>1. process' = [n \in Nodes |-> process'[n]]
      BY <1>1 DEF Reap
    <2> QED BY <1>2, <2>1
  <1>4. /\ launcher' \in [phase : Phases, next : 0..(2 * MaxShards + 2)]
        /\ \/ launcher'.phase = "reap" /\ launcher'.next <= Len(processes) + 1
           \/ launcher'.phase = "ended"
    <2>1. CASE launcher.next \in DOMAIN processes
      <3>1. Goes("reap", launcher.next + 1)
        BY <2>1 DEF Reap
      <3>2. /\ launcher.next + 1 \in 0..(2 * MaxShards + 2)
            /\ launcher.next + 1 <= Len(processes) + 1
        <4>1. /\ launcher.next <= Len(processes)
              /\ Len(processes) <= args.shards + Replicas + 1
          BY <1>1, <2>1 DEF LaunchInv
        <4> HIDE DEF Replicas
        <4> QED BY <1>1, <4>1
      <3> QED BY <3>1, <3>2, GoesFacts DEF Phases
    <2>2. CASE launcher.next \notin DOMAIN processes
      <3>1. Goes("ended", 0) /\ 0 \in 0..(2 * MaxShards + 2)
        BY <1>1, <2>2 DEF Reap
      <3> QED BY <3>1, GoesFacts DEF Phases
    <2> QED BY <2>1, <2>2
  <1>5. /\ UNCHANGED <<topology, probe, answer, report, served, quiet>>
        /\ UNCHANGED <<NodesOf, Replicas>>
    BY <1>1 DEF probeVars, NodesOf, Replicas
  <1>6. TypeOK'
    BY <1>1, <1>3, <1>4, <1>5 DEF TypeOK
  <1>7. LaunchInv'
    BY <1>1, <1>4, <1>5 DEF LaunchInv
  <1>8. StartInv'
    BY <1>1, <1>2, <1>4, <1>5, NodeFacts DEF StartInv, Listening
  <1>9. SeenInv'
    BY <1>2, <1>4, NodeFacts DEF SeenInv, Listening
  <1>10. UpInv' /\ ProbeInv' /\ AnnouncedWholeCluster'
    <2>1. process[Coordinator] # "up" /\ process'[Coordinator] # "up" /\ probe = "idle"
      BY <1>2, NodeFacts DEF Listening, ClusterInv, ProbeInv
    <2> QED BY <1>4, <1>5, <2>1 DEF UpInv, ProbeInv, AnnouncedWholeCluster
  <1> QED BY <1>6, <1>7, <1>8, <1>9, <1>10 DEF ClusterInv

LEMMA ProcessExitsInv ==
    ASSUME ClusterInv, NEW n \in Nodes, ProcessExits(n)
    PROVE  ClusterInv'
  <1>1. /\ TypeOK /\ process \in [Nodes -> ProcessStates]
        /\ process[n] \in {"stopping", "killed"}
        /\ process' = [process EXCEPT ![n] = "exited"]
        /\ UNCHANGED <<args, settings, processes, launcher, faults, beenReady, probeVars>>
    BY DEF ClusterInv, TypeOK, ProcessExits
  <1>2. /\ process' \in [Nodes -> ProcessStates] /\ process'[n] = "exited"
        /\ \A m \in Nodes : m # n => process'[m] = process[m]
    BY <1>1 DEF ProcessStates
  <1>3. /\ UNCHANGED <<topology, probe, answer, report, served, quiet>>
        /\ UNCHANGED <<NodesOf, Replicas>> /\ AnnouncedWholeCluster'
    BY <1>1, AnnouncedStays DEF probeVars, Replicas
  <1>4. TypeOK'
    BY <1>1, <1>2, <1>3 DEF TypeOK
  <1>5. LaunchInv'
    BY <1>1, <1>3 DEF ClusterInv, LaunchInv
  <1>6. StartInv'
    BY <1>1, <1>2, <1>3, NodeFacts DEF ClusterInv, StartInv, Listening
  <1>7. SeenInv'
    BY <1>1, <1>2, <1>3, NodeFacts DEF ClusterInv, SeenInv
  <1>8. UpInv'
    BY <1>1, <1>2, <1>3, NodeFacts DEF ClusterInv, UpInv
  <1>9. ProbeInv'
    <2>1. process'[Coordinator] = process[Coordinator] \/ probe = "idle"
      BY <1>1, <1>2, NodeFacts DEF ClusterInv, ProbeInv
    <2> QED BY <1>1, <1>2, <2>1, NodeFacts, ProbeStays
  <1> QED BY <1>3, <1>4, <1>5, <1>6, <1>7, <1>8, <1>9 DEF ClusterInv

\* The coordinator comes or goes: of the rest only the topology may be new.
LEMMA CoordinatorBecomes ==
    ASSUME ClusterInv, NEW newState \in {"up", "exited"},
           process[Coordinator] \in {"starting"} \cup Listening,
           process' = [process EXCEPT ![Coordinator] = newState],
           UNCHANGED <<args, settings, processes, launcher, report, beenReady>>,
           faults' \in 0..MaxFaults, topology' \in Seq(Seq(Int)),
           probe' = "idle", answer' \in Seq(Seq(Answers)), served' \subseteq ShardIds,
           quiet' \in BOOLEAN, UpInv',
           \/ UNCHANGED topology
           \/ launcher.phase # "running"
           \/ DOMAIN topology' = 1..args.shards
    PROVE  ClusterInv'
  <1>1. /\ process \in [Nodes -> ProcessStates] /\ Coordinator \in Nodes
        /\ launcher.phase # "reap" /\ process[Coordinator] # "none"
    BY NodeFacts DEF ClusterInv, StartInv, TypeOK, Listening
  <1>2. /\ process' \in [Nodes -> ProcessStates]
        /\ \A n \in ShardNodes : process'[n] = process[n]
    BY <1>1, NodeFacts DEF ProcessStates
  <1>3. UNCHANGED <<NodesOf, Replicas>> /\ AnnouncedWholeCluster'
    BY AnnouncedStays DEF Replicas
  <1>4. TypeOK'
    BY <1>2 DEF ClusterInv, TypeOK
  <1>5. LaunchInv'
    BY <1>3 DEF ClusterInv, LaunchInv
  <1>6. StartInv'
    BY <1>1, <1>2, <1>3, NodeFacts DEF ClusterInv, StartInv
  <1>7. SeenInv'
    BY <1>2, <1>3 DEF ClusterInv, SeenInv
  <1>8. ProbeInv'
    BY DEF ProbeInv
  <1> QED BY <1>3, <1>4, <1>5, <1>6, <1>7, <1>8 DEF ClusterInv

LEMMA CoordinatorStartsInv ==
    ASSUME ClusterInv, CoordinatorStarts
    PROVE  ClusterInv'
  <1> DEFINE starts == /\ CoordinatorSettingsAccepted(settings)
                       /\ ~CannotBuild(settings)
                       /\ PortFree(args.port)
  <1>1. /\ process[Coordinator] = "starting"
        /\ process' = [process EXCEPT ![Coordinator] = IF starts THEN "up" ELSE "exited"]
        /\ topology' = IF starts
                       THEN BuildTopology(ShardAddresses(settings), ReplicaAddresses(settings))
                       ELSE topology
        /\ UNCHANGED <<args, settings, processes, launcher, faults, probe, answer, report,
                       beenReady, served, quiet>>
    BY DEF CoordinatorStarts
  <1>2. TypeOK /\ probe = "idle" /\ settings \in SettingsRecords
    BY <1>1, SettingsTyped DEF ClusterInv, ProbeInv
  <1>3. process'[Coordinator] = IF starts THEN "up" ELSE "exited"
    BY <1>1, <1>2, NodeFacts DEF TypeOK
  <1>4. topology' \in Seq(Seq(Int))
    <2>1. CASE starts
      BY <1>1, <1>2, <2>1, AcceptedTopology
    <2>2. CASE ~starts
      BY <1>1, <1>2, <2>2 DEF TypeOK
    <2> QED BY <2>1, <2>2
  <1>5. UpInv'
    BY <1>1, <1>3 DEF UpInv
  <1>6. /\ faults' \in 0..MaxFaults /\ answer' \in Seq(Seq(Answers))
        /\ served' \subseteq ShardIds /\ quiet' \in BOOLEAN
    BY <1>1, <1>2 DEF TypeOK
  <1>7. ASSUME starts, launcher.phase = "running"
        PROVE  DOMAIN topology' = 1..args.shards
    <2>1. settings = SettingsFor(args) /\ args \in Arguments
      BY <1>2, <1>7 DEF ClusterInv, StartInv, TypeOK
    <2>2. settings.shard_count = args.shards
      BY <2>1, LauncherSettings
    <2> QED BY <1>1, <1>2, <1>7, <2>2, AcceptedTopology
  <1> HIDE DEF starts
  <1>8. CASE starts
    BY <1>1, <1>2, <1>4, <1>5, <1>6, <1>7, <1>8, CoordinatorBecomes
  <1>9. CASE ~starts
    BY <1>1, <1>2, <1>4, <1>5, <1>6, <1>9, CoordinatorBecomes
  <1> QED BY <1>8, <1>9

LEMMA ProcessStopsInv ==
    ASSUME ClusterInv, NEW n \in Nodes, ProcessStops(n)
    PROVE  ClusterInv'
  <1>1. /\ TypeOK /\ process[n] \in {"starting"} \cup Listening
        /\ faults' \in 0..MaxFaults
    BY ClusterAssumption DEF ClusterInv, TypeOK, ProcessStops
  <1>2. CASE n = Coordinator
    <2>1. /\ process' = [process EXCEPT ![Coordinator] = "exited"]
          /\ probe' = "idle" /\ answer' = <<>> /\ served' = {} /\ quiet' = TRUE
          /\ UNCHANGED <<args, settings, processes, launcher, topology, report, beenReady>>
      BY <1>2 DEF ProcessStops
    <2>2. UpInv'
      BY <1>1, <2>1, NodeFacts DEF TypeOK, UpInv
    <2>3. topology' \in Seq(Seq(Int)) /\ answer' \in Seq(Seq(Answers))
      BY <1>1, <2>1 DEF TypeOK
    <2> QED BY <1>1, <1>2, <2>1, <2>2, <2>3, CoordinatorBecomes
  <1>3. CASE n # Coordinator
    <2>1. Becomes(n, "exited") /\ n \in ShardNodes
      BY <1>3, NodeFacts DEF ProcessStops
    <2> QED BY <1>1, <2>1, BecomesInv
  <1> QED BY <1>2, <1>3

\* The topology of a coordinator that is up.
LEMMA UpFacts ==
    ASSUME ClusterInv, process[Coordinator] = "up"
    PROVE  /\ settings.shard_count \in Nat /\ settings.shard_count <= MaxShards
           /\ DOMAIN topology = 1..settings.shard_count
           /\ \A s \in DOMAIN topology : 1 \in DOMAIN topology[s]
           /\ \A s \in DOMAIN topology : s \in Int /\ s - 1 \in ShardIds
           /\ SoundTopology(topology, settings)
  <1>1. /\ settings \in SettingsRecords /\ CoordinatorSettingsAccepted(settings)
        /\ topology = BuildTopology(ShardAddresses(settings), ReplicaAddresses(settings))
        /\ topology \in Seq(Seq(Int))
    BY SettingsTyped DEF ClusterInv, UpInv, TypeOK
  <1>2. /\ DOMAIN topology = 1..settings.shard_count
        /\ \A s \in DOMAIN topology : Len(topology[s]) >= 1
        /\ SoundTopology(topology, settings)
    BY <1>1, AcceptedTopology
  <1>3. settings.shard_count \in Nat /\ settings.shard_count <= MaxShards /\ MaxShards \in Nat
    BY <1>1, ClusterAssumption DEF SettingsRecords
  <1>4. \A s \in DOMAIN topology : 1 \in DOMAIN topology[s]
    BY <1>1, <1>2
  <1>5. \A s \in DOMAIN topology : s \in Int /\ s - 1 \in ShardIds
    BY <1>2, <1>3 DEF ShardIds
  <1> QED BY <1>2, <1>3, <1>4, <1>5

\* A step of a probe changes nothing but the probe.
LEMMA ProbeStep ==
    ASSUME ClusterInv,
           UNCHANGED <<args, settings, process, processes, launcher, faults, topology, beenReady>>,
           probe' \in {"idle", "readiness", "status"}, answer' \in Seq(Seq(Answers)),
           report' \in [kind : {"none", "readiness", "status"}, search : BOOLEAN,
                        write : BOOLEAN, unready : SUBSET ShardIds],
           served' \subseteq ShardIds, quiet' \in BOOLEAN, ProbeInv'
    PROVE  ClusterInv'
  <1>1. UNCHANGED <<NodesOf, Replicas>> /\ AnnouncedWholeCluster'
    BY AnnouncedStays DEF Replicas
  <1>2. TypeOK' /\ UpInv'
    BY DEF ClusterInv, TypeOK, UpInv
  <1>3. LaunchInv' /\ StartInv' /\ SeenInv'
    BY <1>1 DEF ClusterInv, LaunchInv, StartInv, SeenInv
  <1> QED BY <1>1, <1>2, <1>3 DEF ClusterInv

LEMMA BeginProbeInv ==
    ASSUME ClusterInv, NEW kind \in {"readiness", "status"}, BeginProbe(kind)
    PROVE  ClusterInv'
  <1>1. /\ process[Coordinator] = "up" /\ probe' = kind /\ report' = NoReport
        /\ answer' = [s \in DOMAIN topology |-> [i \in DOMAIN topology[s] |-> "waiting"]]
        /\ served' = Serving /\ quiet' = TRUE
        /\ UNCHANGED <<args, settings, process, processes, launcher, faults, topology, beenReady>>
        /\ topology \in Seq(Seq(Int))
    BY DEF BeginProbe, ClusterInv, TypeOK
  <1>2. (\A p : Says(p)' = Says(p)) /\ Serving' = Serving
    BY <1>1, SaysSame
  <1>3. answer' \in Seq(Seq(Answers))
    <2> DEFINE Waiting(s) == [i \in DOMAIN topology[s] |-> "waiting"]
    <2>1. \A s \in DOMAIN topology : Waiting(s) \in Seq(Answers)
      <3> TAKE s \in DOMAIN topology
      <3>1. topology[s] \in Seq(Int)
        BY <1>1
      <3>2. DOMAIN topology[s] = 1..Len(topology[s]) /\ Len(topology[s]) \in Nat
        BY <3>1
      <3>3. Waiting(s) \in [1..Len(topology[s]) -> Answers]
        BY <3>2 DEF Answers
      <3> QED BY <3>2, <3>3
    <2>2. DOMAIN topology = 1..Len(topology) /\ Len(topology) \in Nat
      BY <1>1
    <2> HIDE DEF Waiting
    <2>3. [s \in DOMAIN topology |-> Waiting(s)] \in [1..Len(topology) -> Seq(Answers)]
      BY <2>1, <2>2
    <2>4. [s \in DOMAIN topology |-> Waiting(s)] \in Seq(Seq(Answers))
      BY <2>2, <2>3
    <2> QED BY <1>1, <2>4 DEF Waiting
  <1>4. Serving \subseteq ShardIds /\ \A s \in Serving : s + 1 \in DOMAIN topology
    BY DEF Serving
  <1>5. report' \in [kind : {"none", "readiness", "status"}, search : BOOLEAN,
                     write : BOOLEAN, unready : SUBSET ShardIds]
    BY <1>1 DEF NoReport
  <1>6. ProbeInv'
    <2>1. /\ DOMAIN answer' = DOMAIN topology
          /\ \A s \in DOMAIN topology :
                /\ DOMAIN answer'[s] = DOMAIN topology[s]
                /\ \A i \in DOMAIN topology[s] : answer'[s][i] = "waiting"
      BY <1>1
    <2> QED BY <1>1, <1>2, <1>4, <2>1 DEF ProbeInv
  <1> QED BY <1>1, <1>3, <1>4, <1>5, <1>6, ProbeStep

\* A copy that is asked has a place in the topology, and its answer is noted.
LEMMA AnswerNoted ==
    ASSUME ClusterInv, NEW s, NEW i, Asked(s, i), NEW said \in Answers,
           answer' = [answer EXCEPT ![s][i] = said]
    PROVE  /\ s \in DOMAIN topology /\ i \in DOMAIN topology[s]
           /\ answer' \in Seq(Seq(Answers))
           /\ DOMAIN answer' = DOMAIN topology
           /\ \A r \in DOMAIN topology :
                 /\ DOMAIN answer'[r] = DOMAIN topology[r]
                 /\ \A j \in DOMAIN topology[r] :
                       answer'[r][j] = IF r = s /\ j = i THEN said ELSE answer[r][j]
  <1>1. /\ probe # "idle" /\ s \in DOMAIN answer /\ i \in DOMAIN answer[s]
        /\ DOMAIN answer = DOMAIN topology
        /\ \A r \in DOMAIN topology : DOMAIN answer[r] = DOMAIN topology[r]
        /\ answer \in Seq(Seq(Answers))
    BY DEF Asked, ClusterInv, ProbeInv, TypeOK
  <1>2. answer[s] \in Seq(Answers)
    BY <1>1
  <1> DEFINE row == [answer[s] EXCEPT ![i] = said]
  <1>3. row \in Seq(Answers)
    BY <1>1, <1>2
  <1>4. answer' = [answer EXCEPT ![s] = row]
    OBVIOUS
  <1>5. /\ DOMAIN row = DOMAIN answer[s]
        /\ \A j \in DOMAIN row : row[j] = IF j = i THEN said ELSE answer[s][j]
    BY <1>2
  <1> HIDE DEF row
  <1>6. answer' \in Seq(Seq(Answers))
    BY <1>1, <1>3, <1>4
  <1>7. /\ DOMAIN answer' = DOMAIN answer
        /\ \A r \in DOMAIN answer : answer'[r] = IF r = s THEN row ELSE answer[r]
    BY <1>1, <1>4
  <1> QED BY <1>1, <1>5, <1>6, <1>7

LEMMA CopyAnswersInv ==
    ASSUME ClusterInv, NEW s, NEW i, CopyAnswers(s, i)
    PROVE  ClusterInv'
  <1>1. /\ Asked(s, i) /\ answer' = [answer EXCEPT ![s][i] = Says(topology[s][i])]
        /\ UNCHANGED <<args, settings, process, processes, launcher, faults, topology, probe,
                       report, beenReady, served, quiet>>
        /\ probe # "idle" /\ TypeOK
    BY DEF CopyAnswers, Asked, ClusterInv
  <1>2. Says(topology[s][i]) \in Answers
    BY DEF Says, Answers
  <1>3. /\ s \in DOMAIN topology /\ i \in DOMAIN topology[s]
        /\ answer' \in Seq(Seq(Answers))
        /\ DOMAIN answer' = DOMAIN topology
        /\ \A r \in DOMAIN topology :
              /\ DOMAIN answer'[r] = DOMAIN topology[r]
              /\ \A j \in DOMAIN topology[r] :
                    answer'[r][j] = IF r = s /\ j = i THEN Says(topology[s][i]) ELSE answer[r][j]
    BY <1>1, <1>2, AnswerNoted
  <1>4. (\A p : Says(p)' = Says(p)) /\ Serving' = Serving
    BY <1>1, SaysSame
  <1>5. Says(topology[s][i]) = "ready" => s - 1 \in served
    <2>1. s - 1 \in ShardIds /\ (s - 1) + 1 = s
      <3>1. process[Coordinator] = "up"
        BY <1>1 DEF ClusterInv, ProbeInv
      <3>2. s \in Int /\ s - 1 \in ShardIds
        BY <1>3, <3>1, UpFacts
      <3> QED BY <3>2
    <2>2. Serving \subseteq served
      BY <1>1 DEF ClusterInv, ProbeInv
    <2> QED BY <1>3, <2>1, <2>2 DEF Serving
  <1>6. ProbeInv'
    <2>1. \A r \in DOMAIN topology : \A j \in DOMAIN topology[r] :
             /\ answer'[r][j] = "ready" => r - 1 \in served
             /\ quiet => answer'[r][j] \in {"waiting", "lost", Says(topology[r][j])}
      BY <1>1, <1>3, <1>5 DEF ClusterInv, ProbeInv
    <2> QED BY <1>1, <1>3, <1>4, <2>1 DEF ClusterInv, ProbeInv
  <1> QED BY <1>1, <1>3, <1>6, ProbeStep DEF TypeOK

LEMMA AnswerLostInv ==
    ASSUME ClusterInv, NEW s, NEW i, AnswerLost(s, i)
    PROVE  ClusterInv'
  <1>1. /\ Asked(s, i) /\ answer' = [answer EXCEPT ![s][i] = "lost"]
        /\ UNCHANGED <<args, settings, process, processes, launcher, faults, topology, probe,
                       report, beenReady, served, quiet>>
        /\ probe # "idle" /\ TypeOK
    BY DEF AnswerLost, Asked, ClusterInv
  <1>2. /\ answer' \in Seq(Seq(Answers))
        /\ DOMAIN answer' = DOMAIN topology
        /\ \A r \in DOMAIN topology :
              /\ DOMAIN answer'[r] = DOMAIN topology[r]
              /\ \A j \in DOMAIN topology[r] :
                    answer'[r][j] = IF r = s /\ j = i THEN "lost" ELSE answer[r][j]
    BY <1>1, AnswerNoted DEF Answers
  <1>3. (\A p : Says(p)' = Says(p)) /\ Serving' = Serving
    BY <1>1, SaysSame
  <1>4. ProbeInv'
    <2>1. \A r \in DOMAIN topology : \A j \in DOMAIN topology[r] :
             /\ answer'[r][j] = "ready" => r - 1 \in served
             /\ quiet => answer'[r][j] \in {"waiting", "lost", Says(topology[r][j])}
      BY <1>1, <1>2 DEF ClusterInv, ProbeInv
    <2> QED BY <1>1, <1>2, <1>3, <2>1 DEF ClusterInv, ProbeInv
  <1> QED BY <1>1, <1>2, <1>4, ProbeStep DEF TypeOK

\* The report of a probe: what it says of the answers.
LEMMA HealthFacts ==
    ASSUME ClusterInv, probe # "idle"
    PROVE  /\ Health \in [kind : {"none", "readiness", "status"}, search : BOOLEAN,
                          write : BOOLEAN, unready : SUBSET ShardIds]
           /\ Health.kind = probe
           /\ Health.search <=> \A s \in DOMAIN topology : HasReadyCopy(s)
           /\ Health.write <=> probe = "status" /\ \A s \in DOMAIN topology : answer[s][1] = "ready"
           /\ Health.unready = {s - 1 : s \in {t \in DOMAIN topology : ~HasReadyCopy(t)}}
  <1>1. /\ process[Coordinator] = "up" /\ DOMAIN answer = DOMAIN topology
        /\ probe \in {"readiness", "status"}
    BY DEF ClusterInv, ProbeInv, TypeOK
  <1>2. \A s \in DOMAIN topology : s - 1 \in ShardIds
    BY <1>1, UpFacts
  <1> QED BY <1>1, <1>2 DEF Health

LEMMA EndProbeInv ==
    ASSUME ClusterInv, EndProbe
    PROVE  ClusterInv'
  <1>1. /\ probe # "idle" /\ report' = Health /\ probe' = "idle" /\ answer' = <<>>
        /\ served' = {} /\ quiet' = TRUE
        /\ UNCHANGED <<args, settings, process, processes, launcher, faults, topology, beenReady>>
    BY DEF EndProbe
  <1>2. answer' \in Seq(Seq(Answers)) /\ ProbeInv'
    BY <1>1 DEF ProbeInv
  <1>3. report' \in [kind : {"none", "readiness", "status"}, search : BOOLEAN,
                     write : BOOLEAN, unready : SUBSET ShardIds]
    BY <1>1, HealthFacts
  <1> QED BY <1>1, <1>2, <1>3, ProbeStep

-----------------------------------------------------------------------------
(* The theorems *)

\* Every step preserves the invariant.
LEMMA ClusterInductive == ClusterInv /\ [Next]_vars => ClusterInv'
  <1> SUFFICES ASSUME ClusterInv, [Next]_vars PROVE ClusterInv'
    OBVIOUS
  <1>1. CASE LauncherStep
    <2>1. CASE StartPrimaries
      BY <2>1, StartPrimariesInv
    <2>2. CASE StartReplicas
      BY <2>2, StartReplicasInv
    <2>3. CASE StartCoordinator
      BY <2>3, StartCoordinatorInv
    <2>4. CASE NodeSeenReady
      BY <2>4, NodeSeenReadyInv
    <2>5. CASE ClusterSeenReady
      BY <2>5, ClusterSeenReadyInv
    <2>6. CASE WaitTimesOut
      BY <2>6, TerminateInv DEF WaitTimesOut, Awaiting
    <2>7. CASE Reap
      BY <2>7, ReapInv
    <2> QED BY <1>1, <2>1, <2>2, <2>3, <2>4, <2>5, <2>6, <2>7 DEF LauncherStep
  <1>2. CASE Interrupt
    BY <1>2, TerminateInv DEF Interrupt
  <1>3. CASE CoordinatorStarts
    BY <1>3, CoordinatorStartsInv
  <1>4. ASSUME NEW n \in Nodes, NodeStarts(n)
        PROVE  ClusterInv'
    <2>1. /\ n \in ShardNodes /\ process[n] \in {"starting"} \cup Listening
          /\ \E newState \in {"ready", "unready", "exited"} : Becomes(n, newState)
      BY <1>4 DEF NodeStarts
    <2>2. faults' \in 0..MaxFaults
      BY <1>4 DEF NodeStarts, ClusterInv, TypeOK
    <2> QED BY <2>1, <2>2, BecomesInv
  <1>5. ASSUME NEW n \in Nodes, ProcessStops(n)
        PROVE  ClusterInv'
    BY <1>5, ProcessStopsInv
  <1>6. ASSUME NEW n \in Nodes, NodeFails(n)
        PROVE  ClusterInv'
    <2>1. process[n] \in {"starting"} \cup Listening /\ Becomes(n, "unready")
      BY <1>6 DEF NodeFails, Listening
    <2>2. faults' \in 0..MaxFaults
      BY <1>6, ClusterAssumption DEF NodeFails, ClusterInv, TypeOK
    <2>3. n \in ShardNodes
      <3>1. process[Coordinator] # "ready"
        BY DEF ClusterInv, StartInv
      <3> QED BY <1>6, <3>1, NodeFacts DEF NodeFails
    <2> QED BY <2>1, <2>2, <2>3, BecomesInv
  <1>7. ASSUME NEW n \in Nodes, ProcessExits(n)
        PROVE  ClusterInv'
    BY <1>7, ProcessExitsInv
  <1>8. ASSUME NEW s \in ShardIds, ReplicaResyncs(s)
        PROVE  ClusterInv'
    <2>1. /\ ReplicaOf(s) \in ShardNodes
          /\ process[ReplicaOf(s)] \in {"starting"} \cup Listening
          /\ Becomes(ReplicaOf(s), "ready")
      BY <1>8, NodeFacts DEF ReplicaResyncs, Listening
    <2>2. faults' \in 0..MaxFaults
      BY <1>8 DEF ReplicaResyncs, ClusterInv, TypeOK
    <2> QED BY <2>1, <2>2, BecomesInv
  <1>9. ASSUME NEW kind \in {"readiness", "status"}, BeginProbe(kind)
        PROVE  ClusterInv'
    BY <1>9, BeginProbeInv
  <1>10. ASSUME NEW s, NEW i, CopyAnswers(s, i)
         PROVE  ClusterInv'
    BY <1>10, CopyAnswersInv
  <1>11. ASSUME NEW s, NEW i, AnswerLost(s, i)
         PROVE  ClusterInv'
    BY <1>11, AnswerLostInv
  <1>12. CASE EndProbe
    BY <1>12, EndProbeInv
  <1>13. CASE UNCHANGED vars
    <2>1. /\ UNCHANGED <<args, settings, process, processes, launcher, faults, topology,
                         beenReady>>
          /\ UNCHANGED <<probe, answer, report, served, quiet>>
      BY <1>13 DEF vars
    <2>2. ProbeInv'
      BY <2>1, ProbeStays DEF probeVars
    <2> QED BY <2>1, <2>2, ProbeStep DEF ClusterInv, TypeOK
  <1> QED BY <1>1, <1>2, <1>3, <1>4, <1>5, <1>6, <1>7, <1>8, <1>9, <1>10, <1>11, <1>12, <1>13
        DEF Next

\* The invariant of the launcher, the processes and the probes.
THEOREM ClusterAlways == Spec => []ClusterInv
  <1>1. Init => ClusterInv
    BY InitCluster
  <1>2. ClusterInv /\ [Next]_vars => ClusterInv'
    BY ClusterInductive
  <1> QED BY <1>1, <1>2, PTL DEF Spec

\* The types of the variables.
THEOREM ClusterTypes == Spec => []TypeOK
  <1>1. ClusterInv => TypeOK
    BY DEF ClusterInv
  <1> QED BY <1>1, ClusterAlways, PTL

\* Whoever stops or fails, and for any number of shards and any offset: when
\* run_cluster.py prints "cluster ready", every primary and every replica that
\* was asked for has been READY, and a coordinator with all of the shards in its
\* topology has come up.  If --coordinator-port is the port of a node, this is
\* not so of the coordinator and of replicas that have the port of a primary; it
\* still is of all other nodes.
THEOREM ClusterAnnounced == Spec => []AnnouncedWholeCluster
  <1>1. ClusterInv => AnnouncedWholeCluster
    BY DEF ClusterInv
  <1> QED BY <1>1, ClusterAlways, PTL

\* Settings and build_topology, for any settings: a coordinator that is up
\* counts as many shards as its router, with equally many copies of each, no
\* address in two places, and each at the shard its position stands for.
THEOREM ClusterTopologySound == Spec => []TopologyIsSound
  <1>1. ClusterInv => TopologyIsSound
    BY UpFacts DEF TopologyIsSound
  <1> QED BY <1>1, ClusterAlways, PTL

\* The only step that responds to a probe is the end of it.
LEMMA ReportedAtTheEnd ==
    ASSUME ClusterInv, Next, Reported
    PROVE  EndProbe
  <1>1. probe # "idle" /\ report = NoReport /\ report' # report /\ NoReport.kind = "none"
    BY DEF ClusterInv, ProbeInv, TypeOK, Reported, NoReport
  <1>2. ~LauncherStep
    BY <1>1 DEF LauncherStep, StartPrimaries, StartReplicas, StartCoordinator, NodeSeenReady,
                ClusterSeenReady, WaitTimesOut, Reap, Terminate, probeVars
  <1>3. ~Interrupt /\ ~CoordinatorStarts
    BY <1>1 DEF Interrupt, Terminate, CoordinatorStarts
  <1>4. \A n \in Nodes :
           ~NodeStarts(n) /\ ~ProcessStops(n) /\ ~NodeFails(n) /\ ~ProcessExits(n)
    BY <1>1 DEF NodeStarts, ProcessStops, NodeFails, ProcessExits, Becomes, probeVars
  <1>5. \A s \in ShardIds : ~ReplicaResyncs(s)
    BY <1>1 DEF ReplicaResyncs, Becomes
  <1>6. \A kind \in {"readiness", "status"} : ~BeginProbe(kind)
    BY <1>1 DEF BeginProbe
  <1>7. \A s, i : ~CopyAnswers(s, i) /\ ~AnswerLost(s, i)
    BY <1>1 DEF CopyAnswers, AnswerLost
  <1> QED BY <1>2, <1>3, <1>4, <1>5, <1>6, <1>7 DEF Next

\* check_readiness and cluster_health do not report a cluster as searchable
\* unless every shard has had a READY copy since the request came in, whatever
\* started, stopped or got lost in between.
THEOREM ClusterReadyReportsHold == Spec => ReadyReportsHold
  <1>1. ASSUME ClusterInv, [Next]_vars
        PROVE  [Reported /\ report'.search => served = 0..(settings.shard_count - 1)]_vars
    <2> SUFFICES ASSUME Next, Reported, report'.search
                 PROVE  served = 0..(settings.shard_count - 1)
      BY <1>1
    <2>1. EndProbe /\ probe # "idle" /\ report' = Health
      BY <1>1, ReportedAtTheEnd DEF EndProbe
    <2>2. \A s \in DOMAIN topology : HasReadyCopy(s)
      BY <1>1, <2>1, HealthFacts
    <2>3. /\ process[Coordinator] = "up"
          /\ \A s \in served : s + 1 \in DOMAIN topology
          /\ \A s \in DOMAIN topology :
                /\ DOMAIN answer[s] = DOMAIN topology[s]
                /\ \A i \in DOMAIN topology[s] : answer[s][i] = "ready" => s - 1 \in served
          /\ served \subseteq ShardIds
      BY <1>1, <2>1 DEF ClusterInv, ProbeInv, TypeOK
    <2>4. \A s \in DOMAIN topology : s - 1 \in served
      BY <2>2, <2>3 DEF HasReadyCopy
    <2>5. settings.shard_count \in Nat /\ DOMAIN topology = 1..settings.shard_count
      BY <1>1, <2>3, UpFacts
    <2>6. served \subseteq 0..(settings.shard_count - 1)
      BY <2>3, <2>5 DEF ShardIds
    <2>7. ASSUME NEW s \in 0..(settings.shard_count - 1)
          PROVE  s \in served
      <3>1. s + 1 \in DOMAIN topology /\ (s + 1) - 1 = s
        BY <2>5
      <3> QED BY <2>4, <3>1
    <2> QED BY <2>6, <2>7
  <1> QED BY <1>1, ClusterAlways, PTL DEF Spec, ReadyReportsHold

\* If no node changes while a probe runs, the report of check_readiness or
\* cluster_health says exactly which shards have a READY copy whose answer was
\* not lost, and if all primaries are such copies.
THEOREM ClusterQuietReportsExact == Spec => QuietReportsAreExact
  <1> DEFINE shards == 0..(settings.shard_count - 1)
             Exact == /\ report'.search <=> \A s \in DOMAIN topology : Answering(s) # {}
                      /\ report'.unready = {s \in shards : Answering(s + 1) = {}}
                      /\ report'.kind = "status" =>
                            (report'.write <=> \A s \in DOMAIN topology : 1 \in Answering(s))
  <1>1. ASSUME ClusterInv, [Next]_vars
        PROVE  [Reported /\ quiet => Exact]_vars
    <2> SUFFICES ASSUME Next, Reported, quiet
                 PROVE  Exact
      BY <1>1
    <2>1. EndProbe /\ probe # "idle" /\ report' = Health /\ Collected
      BY <1>1, ReportedAtTheEnd DEF EndProbe
    <2>2. /\ process[Coordinator] = "up" /\ DOMAIN answer = DOMAIN topology
          /\ \A s \in DOMAIN topology :
                /\ DOMAIN answer[s] = DOMAIN topology[s]
                /\ \A i \in DOMAIN topology[s] :
                      answer[s][i] \in {"waiting", "lost", Says(topology[s][i])}
      BY <1>1, <2>1 DEF ClusterInv, ProbeInv
    <2>3. /\ settings.shard_count \in Nat /\ DOMAIN topology = 1..settings.shard_count
          /\ \A s \in DOMAIN topology : 1 \in DOMAIN topology[s]
      BY <1>1, <2>2, UpFacts
    <2>4. \A s \in DOMAIN topology : HasReadyCopy(s) <=> Answering(s) # {}
      <3> SUFFICES ASSUME NEW s \in DOMAIN topology
                   PROVE  HasReadyCopy(s) <=> Answering(s) # {}
        OBVIOUS
      <3>1. ASSUME NEW i \in Answering(s)
            PROVE  HasReadyCopy(s)
        <4>1. i \in DOMAIN topology[s] /\ Says(topology[s][i]) = "ready" /\ answer[s][i] # "lost"
          BY <3>1 DEF Answering
        <4> QED BY <2>1, <2>2, <4>1 DEF Collected, HasReadyCopy
      <3>2. ASSUME HasReadyCopy(s)
            PROVE  Answering(s) # {}
        <4>1. PICK i \in DOMAIN topology[s] : answer[s][i] = "ready"
          BY <2>2, <3>2 DEF HasReadyCopy
        <4> QED BY <2>2, <4>1 DEF Answering
      <3> QED BY <3>1, <3>2
    <2>5. /\ Health.kind = probe
          /\ Health.search <=> \A s \in DOMAIN topology : Answering(s) # {}
          /\ Health.unready = {s - 1 : s \in {t \in DOMAIN topology : Answering(t) = {}}}
          /\ Health.write <=>
                probe = "status" /\ \A s \in DOMAIN topology : answer[s][1] = "ready"
      BY <1>1, <2>1, <2>4, HealthFacts
    <2>6. report'.unready = {s \in shards : Answering(s + 1) = {}}
      <3>1. /\ \A s \in shards : s + 1 \in DOMAIN topology /\ (s + 1) - 1 = s
            /\ \A s \in DOMAIN topology : s - 1 \in shards /\ (s - 1) + 1 = s
        BY <2>3
      <3> HIDE DEF shards
      <3> QED BY <2>1, <2>5, <3>1
    <2>7. ASSUME report'.kind = "status"
          PROVE  report'.write <=> \A s \in DOMAIN topology : 1 \in Answering(s)
      <3>1. probe = "status"
        BY <2>1, <2>5, <2>7
      <3>2. \A s \in DOMAIN topology : answer[s][1] = "ready" <=> 1 \in Answering(s)
        <4> TAKE s \in DOMAIN topology
        <4>1. /\ 1 \in DOMAIN topology[s] /\ answer[s][1] # "waiting"
              /\ answer[s][1] \in {"waiting", "lost", Says(topology[s][1])}
          BY <2>1, <2>2, <2>3, <3>1 DEF Collected
        <4> QED BY <4>1 DEF Answering
      <3> QED BY <2>1, <2>5, <3>1, <3>2
    <2> QED BY <2>1, <2>5, <2>6, <2>7
  <1> QED BY <1>1, ClusterAlways, PTL DEF Spec, QuietReportsAreExact

=============================================================================

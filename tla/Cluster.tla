------------------------------- MODULE Cluster -------------------------------
(***************************************************************************)
(* The processes of a cluster: scripts/run_cluster.py starts them, waits   *)
(* for each of them and stops them; the coordinator answers /ready and     *)
(* /cluster/status from what their /ready and /internal/node-status say.   *)
(*                                                                         *)
(* Who answers a request is decided by the port it is sent to, whatever    *)
(* process holds it.  A port is given relative to --base-port.  What a     *)
(* node holds is left out: Replication has it, and shows when a node is    *)
(* READY.  A probe takes no lock and changes nothing, so one at a time     *)
(* stands for any number of them.                                          *)
(***************************************************************************)
EXTENDS Integers, Topology

CONSTANTS
    MaxShards,          \* bound: logical shards
    ReplicaOffset,      \* replica ports begin here (100 in the code)
    CoordinatorPorts,   \* the values of --coordinator-port
    HandWritten,        \* settings of a coordinator that is started by hand
    MaxFaults           \* bound: processes that stop or fail by themselves

ASSUME ClusterAssumption ==
    /\ MaxShards \in Nat /\ ReplicaOffset \in Nat /\ MaxFaults \in Nat
    /\ CoordinatorPorts \subseteq Int
    /\ Blank \notin Int
    /\ HandWritten \subseteq [shard_count : 0..MaxShards,
                             shard_urls : Seq(Int \cup {Blank}),
                             replica_urls : Seq(Seq(Int \cup {Blank})) \ {<<>>}]

ShardIds == 0..(MaxShards - 1)
Coordinator == <<"coordinator", 0>>
PrimaryOf(s) == <<"primary", s>>
ReplicaOf(s) == <<"replica", s>>
ShardNodes == {"primary", "replica"} \X ShardIds
Nodes == ShardNodes \cup {Coordinator}

\* "none": not started; "starting": in its lifespan hook, not yet listening;
\* "ready", "unready": a shard node that answers /ready with 200 or with 503;
\* "up": the coordinator; "stopping": after SIGTERM; "killed": after SIGKILL.
ProcessStates ==
    {"none", "starting", "ready", "unready", "up", "stopping", "killed", "exited"}
Listening == {"ready", "unready", "up"}
Running == {"starting", "stopping", "killed"} \cup Listening

Phases == {"start_primaries", "await_primaries", "start_replicas", "await_replicas",
           "start_coordinator", "await_coordinator", "running", "reap", "ended"}
Answers == {"waiting", "ready", "unready", "unreachable", "lost"}

VARIABLES
    args,       \* the command line: shards, --replication-factor 2, the port
    settings,   \* the environment of the coordinator's process
    process,    \* process[n]: the state of node n
    processes,  \* the launcher's list of what it has started, in order
    launcher,   \* its phase, and the position it has got to in its loop
    faults,     \* auxiliary: processes that have stopped or failed
    topology,   \* the coordinator's: topology[s + 1], the ports of shard s
    probe,      \* what the coordinator is collecting: "readiness", "status"
    answer,     \* answer[s][i]: what copy i of shard s has said to the probe
    report,     \* the last response of /ready or /cluster/status
    beenReady,  \* auxiliary: the nodes that have been READY
    served,     \* auxiliary: shards with a READY copy since the probe began
    quiet       \* auxiliary: no node has changed since then

vars == <<args, settings, process, processes, launcher, faults, topology, probe, answer,
          report, beenReady, served, quiet>>
probeVars == <<topology, probe, answer, report, served, quiet>>

\* The values of the command line.
Arguments == [shards : 0..MaxShards, replicated : BOOLEAN, port : CoordinatorPorts]

\* The settings that the launcher gives to the coordinator.
SettingsFor(a) ==
    [shard_count |-> a.shards,
     shard_urls |-> IF a.shards = 0 THEN <<Blank>> ELSE [i \in 1..a.shards |-> i - 1],
     replica_urls |-> IF a.replicated /\ a.shards > 0
                      THEN [i \in 1..a.shards |-> <<ReplicaOffset + (i - 1)>>]
                      ELSE << <<Blank>> >>]

NoReport == [kind |-> "none", search |-> FALSE, write |-> FALSE, unready |-> {}]

\* The types of the variables.
TypeOK ==
    /\ args \in Arguments
    /\ settings \in HandWritten \cup {SettingsFor(a) : a \in Arguments}
    /\ process \in [Nodes -> ProcessStates]
    /\ processes \in Seq(Nodes)
    /\ launcher \in [phase : Phases, next : 0..(2 * MaxShards + 2)]
    /\ faults \in 0..MaxFaults
    /\ topology \in Seq(Seq(Int))
    /\ probe \in {"idle", "readiness", "status"}
    /\ answer \in Seq(Seq(Answers))
    /\ report \in [kind : {"none", "readiness", "status"}, search : BOOLEAN,
                   write : BOOLEAN, unready : SUBSET ShardIds]
    /\ beenReady \subseteq ShardNodes
    /\ served \subseteq ShardIds
    /\ quiet \in BOOLEAN

\* The launcher has just begun, or there is no launcher and a coordinator
\* has been started by hand.
Init ==
    /\ args \in Arguments
    /\ \/ /\ settings = SettingsFor(args)
          /\ process = [n \in Nodes |-> "none"]
          /\ launcher = [phase |-> "start_primaries", next |-> 0]
       \/ /\ settings \in HandWritten
          /\ args.shards = 0 /\ ~args.replicated
          /\ process = [n \in Nodes |-> IF n = Coordinator THEN "starting" ELSE "none"]
          /\ launcher = [phase |-> "ended", next |-> 0]
    /\ processes = <<>>
    /\ faults = 0
    /\ topology = <<>>
    /\ probe = "idle"
    /\ answer = <<>>
    /\ report = NoReport
    /\ beenReady = {}
    /\ served = {}
    /\ quiet = TRUE

-----------------------------------------------------------------------------
(* Ports *)

Port(n) == CASE n[1] = "primary" -> n[2]
             [] n[1] = "replica" -> ReplicaOffset + n[2]
             [] OTHER -> args.port

PortFree(p) == \A n \in Nodes : Port(n) = p => process[n] \notin Listening

\* What a GET /ready, or a node-status, sent to port p finds; a coordinator is
\* no shard node and has no node-status.
Says(p) ==
    IF \E n \in ShardNodes : Port(n) = p /\ process[n] = "ready" THEN "ready"
    ELSE IF \E n \in ShardNodes : Port(n) = p /\ process[n] = "unready" THEN "unready"
    ELSE "unreachable"

\* The shards of the coordinator's topology with a copy that would serve.
Serving == {s \in ShardIds : s + 1 \in DOMAIN topology /\
               \E i \in DOMAIN topology[s + 1] : Says(topology[s + 1][i]) = "ready"}

\* The probe, if there is one, has seen a change.
NoteChange ==
    /\ served' = IF probe = "idle" THEN {} ELSE served \cup Serving'
    /\ quiet' = (probe = "idle")
    /\ beenReady' = beenReady \cup {n \in ShardNodes : process'[n] = "ready"}

\* Process n goes from one state to another and nothing else changes.
Becomes(n, newState) ==
    /\ process' = [process EXCEPT ![n] = newState]
    /\ UNCHANGED <<args, settings, processes, launcher, topology, probe, answer, report>>
    /\ NoteChange

-----------------------------------------------------------------------------
(* Nodes *)

\* A shard node's startup ends: storage is open and the index rebuilt.  A
\* replica has verified itself against whatever answers at its primary's
\* address, and is READY only if something did.  If the port is taken by then
\* the process exits.
NodeStarts(n) ==
    /\ n \in ShardNodes
    /\ process[n] = "starting"
    /\ ShardSettingsAccepted(n[2], args.shards)
    /\ \E newState \in IF ~PortFree(Port(n)) THEN {"exited"}
                       ELSE IF n[1] = "primary" THEN {"ready"}
                       ELSE IF Says(n[2]) = "unreachable" THEN {"unready"}
                       ELSE {"ready", "unready"} :
          Becomes(n, newState)
    /\ UNCHANGED faults

\* The coordinator's startup ends: its settings were accepted, the topology is
\* built and the port was free.  Otherwise the process exits.
CoordinatorStarts ==
    LET starts == /\ CoordinatorSettingsAccepted(settings)
                  /\ ~CannotBuild(settings)
                  /\ PortFree(args.port)
    IN  /\ process[Coordinator] = "starting"
        /\ process' = [process EXCEPT ![Coordinator] = IF starts THEN "up" ELSE "exited"]
        /\ topology' = IF starts
                       THEN BuildTopology(ShardAddresses(settings), ReplicaAddresses(settings))
                       ELSE topology
        /\ UNCHANGED <<args, settings, processes, launcher, faults, probe, answer, report,
                       beenReady, served, quiet>>

\* A process stops by itself: a crash, or a startup that fails.  The
\* coordinator takes its probe with it.
ProcessStops(n) ==
    /\ process[n] \in {"starting"} \cup Listening
    /\ faults < MaxFaults
    /\ faults' = faults + 1
    /\ IF n = Coordinator
       THEN /\ process' = [process EXCEPT ![n] = "exited"]
            /\ probe' = "idle"
            /\ answer' = <<>>
            /\ served' = {}
            /\ quiet' = TRUE
            /\ UNCHANGED <<args, settings, processes, launcher, topology, report, beenReady>>
       ELSE Becomes(n, "exited")

\* A node leaves READY: degraded, out of sync or recovering.
NodeFails(n) ==
    /\ process[n] = "ready"
    /\ faults < MaxFaults
    /\ faults' = faults + 1
    /\ Becomes(n, "unready")

\* POST /internal/replica/resync succeeds: the primary has served its export.
ReplicaResyncs(s) ==
    /\ process[ReplicaOf(s)] = "unready"
    /\ process[PrimaryOf(s)] = "ready"
    /\ Becomes(ReplicaOf(s), "ready")
    /\ UNCHANGED faults

-----------------------------------------------------------------------------
(* The launcher *)

Goes(phase, next) == launcher' = [phase |-> phase, next |-> next]

\* start_node
StartNode(n) ==
    /\ process' = [process EXCEPT ![n] = "starting"]
    /\ processes' = Append(processes, n)

\* Start all primaries, without waiting for any.
StartPrimaries ==
    /\ launcher.phase = "start_primaries"
    /\ IF launcher.next < args.shards
       THEN StartNode(PrimaryOf(launcher.next)) /\ Goes("start_primaries", launcher.next + 1)
       ELSE UNCHANGED <<process, processes>> /\ Goes("await_primaries", 0)
    /\ UNCHANGED <<args, settings, faults, beenReady, probeVars>>

Replicas == IF args.replicated THEN args.shards ELSE 0

\* Start the replicas, when every primary has been seen ready.
StartReplicas ==
    /\ launcher.phase = "start_replicas"
    /\ IF launcher.next < Replicas
       THEN StartNode(ReplicaOf(launcher.next)) /\ Goes("start_replicas", launcher.next + 1)
       ELSE UNCHANGED <<process, processes>> /\ Goes("await_replicas", 0)
    /\ UNCHANGED <<args, settings, faults, beenReady, probeVars>>

StartCoordinator ==
    /\ launcher.phase = "start_coordinator"
    /\ StartNode(Coordinator)
    /\ Goes("await_coordinator", 0)
    /\ UNCHANGED <<args, settings, faults, beenReady, probeVars>>

\* A launcher that starts the replicas' successors without waiting for them.
AwaitsPrimariesOnly ==
    /\ \/ /\ launcher.phase = "await_primaries"
          /\ IF launcher.next < args.shards
             THEN Says(launcher.next) = "ready" /\ Goes("await_primaries", launcher.next + 1)
             ELSE Goes("start_replicas", 0)
       \/ launcher.phase = "await_replicas" /\ Goes("start_coordinator", 0)
    /\ UNCHANGED <<args, settings, process, processes, faults, beenReady, probeVars>>

\* wait_until_ready, on the nodes one after another: a poll is answered 200.
NodeSeenReady ==
    /\ \/ /\ launcher.phase = "await_primaries"
          /\ IF launcher.next < args.shards
             THEN Says(launcher.next) = "ready" /\ Goes("await_primaries", launcher.next + 1)
             ELSE Goes("start_replicas", 0)
       \/ /\ launcher.phase = "await_replicas"
          /\ IF launcher.next < Replicas
             THEN Says(ReplicaOffset + launcher.next) = "ready"
                  /\ Goes("await_replicas", launcher.next + 1)
             ELSE Goes("start_coordinator", 0)
    /\ UNCHANGED <<args, settings, process, processes, faults, beenReady, probeVars>>

\* wait_until_ready, on the coordinator's address: "cluster ready".  A shard
\* node that holds that port answers just as well.
ClusterSeenReady ==
    /\ launcher.phase = "await_coordinator"
    /\ \/ Says(args.port) = "ready"
       \/ process[Coordinator] = "up" /\ report.kind = "readiness" /\ report.search
    /\ Goes("running", 0)
    /\ UNCHANGED <<args, settings, process, processes, faults, beenReady, probeVars>>

\* The launcher is in wait_until_ready.
Awaiting ==
    \/ launcher.phase = "await_primaries" /\ launcher.next < args.shards
    \/ launcher.phase = "await_replicas" /\ launcher.next < Replicas
    \/ launcher.phase = "await_coordinator"

\* The finally clause begins: SIGTERM to everything that was started and has
\* not exited.
Terminate ==
    /\ process' = [n \in Nodes |-> IF process[n] \in Running THEN "stopping" ELSE process[n]]
    /\ Goes("reap", 1)
    /\ probe' = "idle"
    /\ answer' = <<>>
    /\ served' = {}
    /\ quiet' = TRUE
    /\ UNCHANGED <<args, settings, processes, faults, topology, report, beenReady>>

\* READY_TIMEOUT_SECONDS have passed: return 1.
WaitTimesOut ==
    /\ Awaiting
    /\ Terminate

\* Ctrl-C, before the finally clause has begun.
Interrupt ==
    /\ launcher.phase \notin {"reap", "ended"}
    /\ Terminate

\* A process that has been told to stop does, or the kill takes effect.
ProcessExits(n) ==
    /\ process[n] \in {"stopping", "killed"}
    /\ process' = [process EXCEPT ![n] = "exited"]
    /\ UNCHANGED <<args, settings, processes, launcher, faults, beenReady, probeVars>>

\* A launcher that gives up on a process that does not stop.
ReapWithoutKill ==
    /\ launcher.phase = "reap"
    /\ IF launcher.next \in DOMAIN processes
       THEN Goes("reap", launcher.next + 1) ELSE Goes("ended", 0)
    /\ UNCHANGED <<args, settings, process, processes, faults, beenReady, probeVars>>

\* process.wait(timeout=10), then process.kill(): on to the next process when
\* this one has exited or has been killed.
Reap ==
    /\ launcher.phase = "reap"
    /\ IF launcher.next \in DOMAIN processes
       THEN /\ LET n == processes[launcher.next] IN
               process' = IF process[n] = "exited" THEN process
                          ELSE [process EXCEPT ![n] = "killed"]
            /\ Goes("reap", launcher.next + 1)
       ELSE UNCHANGED process /\ Goes("ended", 0)
    /\ UNCHANGED <<args, settings, processes, faults, beenReady, probeVars>>

-----------------------------------------------------------------------------
(* The coordinator's probes *)

\* GET /ready or GET /cluster/status.
BeginProbe(kind) ==
    /\ process[Coordinator] = "up"
    /\ probe = "idle"
    /\ probe' = kind
    /\ answer' = [s \in DOMAIN topology |-> [i \in DOMAIN topology[s] |-> "waiting"]]
    /\ report' = NoReport
    /\ served' = Serving
    /\ quiet' = TRUE
    /\ UNCHANGED <<args, settings, process, processes, launcher, faults, topology, beenReady>>

\* The copies of a shard are asked all at once for the status; for readiness
\* one after another, until one is ready.
Asked(s, i) ==
    /\ probe # "idle"
    /\ s \in DOMAIN answer
    /\ i \in DOMAIN answer[s]
    /\ answer[s][i] = "waiting"
    /\ probe = "readiness" => \A j \in 1..(i - 1) : answer[s][j] \in {"unready", "unreachable", "lost"}

\* Anything that answers counts as ready.
AnyAnswerIsReady(s, i) ==
    /\ Asked(s, i)
    /\ answer' = [answer EXCEPT ![s][i] =
                     IF Says(topology[s][i]) = "unreachable" THEN "unreachable" ELSE "ready"]
    /\ UNCHANGED <<args, settings, process, processes, launcher, faults, topology, probe,
                   report, beenReady, served, quiet>>

\* HttpShardClient.is_ready, node_status: the copy answers, or is not there.
CopyAnswers(s, i) ==
    /\ Asked(s, i)
    /\ answer' = [answer EXCEPT ![s][i] = Says(topology[s][i])]
    /\ UNCHANGED <<args, settings, process, processes, launcher, faults, topology, probe,
                   report, beenReady, served, quiet>>

\* The request to a copy that is there times out: the caller cannot tell it
\* from a copy that is not.
AnswerLost(s, i) ==
    /\ Asked(s, i)
    /\ Says(topology[s][i]) # "unreachable"
    /\ answer' = [answer EXCEPT ![s][i] = "lost"]
    /\ UNCHANGED <<args, settings, process, processes, launcher, faults, topology, probe,
                   report, beenReady, served, quiet>>

\* A shard is done with as soon as one of its requests is lost.
CollectedUntilLost == \A s \in DOMAIN answer :
    \/ \A i \in DOMAIN answer[s] : answer[s][i] # "waiting"
    \/ \E i \in DOMAIN answer[s] : answer[s][i] \in {"ready", "lost"}

\* Every coroutine of the gather has returned.
Collected == \A s \in DOMAIN answer :
    \/ \A i \in DOMAIN answer[s] : answer[s][i] # "waiting"
    \/ probe = "readiness" /\ \E i \in DOMAIN answer[s] : answer[s][i] = "ready"

HasReadyCopy(s) == \E i \in DOMAIN answer[s] : answer[s][i] = "ready"

\* Shards named by their position, counted from one.
PositionsUnready == [kind |-> probe,
                     search |-> \A s \in DOMAIN answer : HasReadyCopy(s),
                     write |-> probe = "status" /\ \A s \in DOMAIN answer : answer[s][1] = "ready",
                     unready |-> {s \in DOMAIN answer : ~HasReadyCopy(s)}]

\* A shard that is writable if it is readable.
WritableIfReadable == [kind |-> probe,
                       search |-> \A s \in DOMAIN answer : HasReadyCopy(s),
                       write |-> probe = "status" /\ \A s \in DOMAIN answer : HasReadyCopy(s),
                       unready |-> {s - 1 : s \in {t \in DOMAIN answer : ~HasReadyCopy(t)}}]

\* ClusterReadiness, ClusterHealth: every shard needs a copy that is ready to be
\* searched, and its primary to be written.
Health == [kind |-> probe,
           search |-> \A s \in DOMAIN answer : HasReadyCopy(s),
           write |-> probe = "status" /\ \A s \in DOMAIN answer : answer[s][1] = "ready",
           unready |-> {s - 1 : s \in {t \in DOMAIN answer : ~HasReadyCopy(t)}}]

\* The response is sent.
EndProbe ==
    /\ probe # "idle"
    /\ Collected
    /\ report' = Health
    /\ probe' = "idle"
    /\ answer' = <<>>
    /\ served' = {}
    /\ quiet' = TRUE
    /\ UNCHANGED <<args, settings, process, processes, launcher, faults, topology, beenReady>>

-----------------------------------------------------------------------------
LauncherStep ==
    \/ StartPrimaries \/ StartReplicas \/ StartCoordinator
    \/ NodeSeenReady \/ ClusterSeenReady \/ WaitTimesOut \/ Reap

Next ==
    \/ LauncherStep \/ Interrupt
    \/ CoordinatorStarts
    \/ \E n \in Nodes :
          NodeStarts(n) \/ ProcessStops(n) \/ NodeFails(n) \/ ProcessExits(n)
    \/ \E s \in ShardIds : ReplicaResyncs(s)
    \/ \E kind \in {"readiness", "status"} : BeginProbe(kind)
    \/ \E s \in DOMAIN answer : \E i \in DOMAIN answer[s] :
          CopyAnswers(s, i) \/ AnswerLost(s, i)
    \/ EndProbe

\* The launcher runs, its timeouts expire, and a killed process is gone soon.
Fairness ==
    /\ WF_vars(LauncherStep)
    /\ \A n \in Nodes : WF_vars(process[n] = "killed" /\ ProcessExits(n))

Spec == Init /\ [][Next]_vars /\ Fairness

-----------------------------------------------------------------------------
(* Properties *)

NodesOf == {PrimaryOf(s) : s \in 0..(args.shards - 1)} \cup
           {ReplicaOf(s) : s \in 0..(Replicas - 1)}

\* A node has the port that was meant for the coordinator.
CoordinatorPortTaken == \E n \in NodesOf : Port(n) = args.port

\* "cluster ready" is said of a whole cluster, whoever stops while the launcher
\* waits for others: there are shards, every primary and every replica that was
\* asked for has been READY, and a coordinator has come up that knows all of the
\* shards.  There is one exception: if --coordinator-port is a node's port, that
\* node is taken for the coordinator, and then a primary may also have been
\* taken for a replica with its port.
AnnouncedWholeCluster ==
    launcher.phase = "running" =>
        /\ args.shards >= 1
        /\ \A s \in 0..(args.shards - 1) : PrimaryOf(s) \in beenReady
        /\ \A s \in 0..(Replicas - 1) :
              \/ ReplicaOf(s) \in beenReady
              \/ CoordinatorPortTaken /\ ReplicaOffset + s < args.shards
        /\ CoordinatorPortTaken \/ DOMAIN topology = 1..args.shards

\* The step is the response to the probe.
Reported == probe # "idle" /\ report'.kind = probe /\ probe' = "idle"

\* Nobody is told that the cluster can be searched unless every shard has had a
\* READY copy since the question was asked, whatever came, went or got lost in
\* the meantime.
ReadyReportsHold ==
    [][Reported /\ report'.search => served = 0..(settings.shard_count - 1)]_vars

\* The copies of the shard at position s that are READY and whose answer to the
\* probe, if they were asked, has arrived.
Answering(s) == {i \in DOMAIN topology[s] :
                    Says(topology[s][i]) = "ready" /\ answer[s][i] # "lost"}

\* If no node changes while a probe runs, its report is exact: searchable,
\* writable and the shards that are not ready.  An answer that is lost counts
\* against the copy it came from and nobody else: another copy that is READY
\* still makes its shard readable, and the other shards are not affected.
QuietReportsAreExact ==
    [][Reported /\ quiet =>
          /\ report'.search <=> \A s \in DOMAIN topology : Answering(s) # {}
          /\ report'.unready = {s \in 0..(settings.shard_count - 1) : Answering(s + 1) = {}}
          /\ report'.kind = "status" =>
                (report'.write <=> \A s \in DOMAIN topology : 1 \in Answering(s))]_vars

\* A coordinator that is up has a topology it can rely on, whatever its
\* settings: as many shards as its router counts, equally many copies of each,
\* no process in two places, and every address at the shard that its position in
\* the settings says, blank entries not counted and blank groups counted.
TopologyIsSound ==
    process[Coordinator] = "up" => SoundTopology(topology, settings)

\* The launcher comes to an end of what it does: either the cluster runs or,
\* after a timeout or Ctrl-C, it has ended and has left no process behind.
LauncherSettles ==
    launcher.phase \notin {"running", "ended"} ~>
        \/ launcher.phase = "running"
        \/ launcher.phase = "ended" /\ \A n \in Nodes : process[n] \in {"none", "exited"}

=============================================================================

CONSTANTS
    Blank = Blank
    MaxShards = 3
    ReplicaOffset = 2
    CoordinatorPorts <- MCCoordinatorPorts
    HandWritten <- MCHandWritten
    MaxFaults = 2
SPECIFICATION Spec
INVARIANTS
    TypeOK
    AnnouncedWholeCluster
    TopologyIsSound
PROPERTIES
    ReadyReportsHold
    QuietReportsAreExact
    LauncherSettles
CHECK_DEADLOCK FALSE

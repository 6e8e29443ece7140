CONSTANTS
    Shards <- OneShard
    Docs <- MCDocs
    Route <- OneRoute
    NumReplicas = 1
    Kinds <- AllKinds
    NoAnswer = NoAnswer
    MaxWrites = 2
SPECIFICATION FairSpec
PROPERTIES
    ReadsAreFresh
    RoundsAgree
    ShardsAreLogs
    OperationsEnd

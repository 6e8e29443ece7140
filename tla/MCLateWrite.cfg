CONSTANTS
    Shards <- OneShard
    Docs <- MCDocs
    Route <- OneRoute
    NumReplicas = 1
    Kinds = {"search"}
    NoAnswer = NoAnswer
    MaxWrites = 1
SPECIFICATION Spec
PROPERTY NoWriteBetweenRounds

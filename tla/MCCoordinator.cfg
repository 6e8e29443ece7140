CONSTANTS
    Shards <- MCShards
    Docs <- MCDocs
    Route <- MCRoute
    NumReplicas = 1
    Kinds = {"search"}
    NoAnswer = NoAnswer
    MaxWrites = 2
SPECIFICATION Spec
INVARIANT TypeOK
PROPERTIES
    ReadsAreFresh
    RoundsAgree

CONSTANTS
    Shards <- OneShard
    Docs <- MCDocs
    Route <- OneRoute
    NumReplicas = 1
    Kinds = {"hybrid"}
    NoAnswer = NoAnswer
    MaxWrites = 1
SPECIFICATION Spec
PROPERTY HybridDescribesOneCorpus

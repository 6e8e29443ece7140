CONSTANTS
    Docs = {d1}
    Texts = {x}
    NoText = NoText
    NumReplicas = 2
    ResyncThreads = {t1}
    MaxGeneration = 1
SPECIFICATION Spec
INVARIANT LaggingReplicaDoesNotServe

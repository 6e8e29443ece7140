CONSTANTS
    Docs = {d1, d2}
    Texts = {x}
    NoText = NoText
    NumReplicas = 2
    ResyncThreads = {t1}
    MaxGeneration = 2
SPECIFICATION Spec
INVARIANTS
    TypeOK
    GenerationNamesCorpus
    PrimaryIsAhead
    ReadyMatchesStorage
    AckedOnEveryCopy
    RecoveryCatchesUp
PROPERTIES
    NeverBackwards
    ImplementsLog

CONSTANTS
    Docs = {d1}
    Texts = {x}
    NoText = NoText
    NumReplicas = 1
    ResyncThreads = {t1, t2}
    MaxGeneration = 1
SPECIFICATION Spec
INVARIANT AckedOnEveryCopy

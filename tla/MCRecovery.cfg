CONSTANTS
    Docs = {d1}
    Texts = {x}
    NoText = NoText
    NumReplicas = 1
    ResyncThreads = {t1}
    MaxGeneration = 3
SPECIFICATION RSpec
PROPERTIES
    LockIsReleased
    RecoveryConverges
CHECK_DEADLOCK FALSE

CONSTANTS
    Docs = {d1, d2}
    Texts = {x}
    NoText = NoText
    Threads = {t1, t2}
    Nobody = Nobody
    MaxGeneration = 3
SPECIFICATION ShownSpec
INVARIANTS TypeOK ReadyIsConsistent
PROPERTIES QueriesAreAtomic LockIsFreed MethodsAreAtomic

CONSTANTS
    Docs <- MCDocs
    Vectors <- MCVectors
    Queries <- MCQueries
    Zero = 0
    NoVector = NoVector
    InitialCapacity = 1
    MaxLimit = 4
SPECIFICATION Spec
INVARIANTS TypeOK RowsMatchPositions SearchIsExact ValidateIsComplete
PROPERTIES ImplementsMap

SPECIFICATION Spec
CONSTANTS
    Dbs = {d1, d2}
    NoDb = NoDb
    MaxConns = 2
    MaxRows = 3
    Multi = TRUE
INVARIANTS
    EncodingResultsFreed
PROPERTIES
    ContractSpec
    RowsSpec

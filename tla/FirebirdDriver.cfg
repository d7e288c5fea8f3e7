SPECIFICATION Spec
CONSTANTS
    Dbs = {d1, d2}
    NoDb = NoDb
    MaxConns = 3
    MaxRows = 2
    MaxWork = 2

    
PROPERTIES
    RowsSpec
    WorkKept
    ContractSpec

SPECIFICATION EitherSpec
CONSTANTS
    Dbs = {d1, d2}
    NoDb = NoDb
    Tables = {t1, t2}
    MaxHandles = 3
    Faults = {"connect", "select", "temp", "insert", "master", "dir",
              "read", "drop", "create", "query"}
INVARIANTS
    ListingFaithful
PROPERTY
    ContractSpec

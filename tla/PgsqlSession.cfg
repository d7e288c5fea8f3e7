SPECIFICATION Spec
CONSTANTS
    Dbs = {d1, d2}
    NoDb = NoDb
    DefaultDb = d1
    MaxConns = 5
INVARIANTS
    OnePgconn
    CurrentDbTrue
PROPERTY
    ContractSpec

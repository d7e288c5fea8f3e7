SPECIFICATION Spec
CONSTANTS
    Main = Main
    Sys = Sys
    AutocommitOptions = {TRUE, FALSE}
    MaxHandles = 10
    MaxWork = 2
    Faults = {"connect", "disconnect", "autocommit", "end", "query"}
INVARIANTS
    SessionsOwned
    MainTransaction
    CatalogsQuiet
PROPERTY
    KeepsWork

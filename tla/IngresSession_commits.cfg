SPECIFICATION Spec
CONSTANTS
    Main = Main
    Sys = Sys
    AutocommitOptions = {TRUE}
    MaxHandles = 9
    MaxWork = 2
    Faults = {}
INVARIANTS
    AutocommitCommits

SPECIFICATION Spec
CONSTANTS
    MaxConns = 3
    MaxRows = 3
INVARIANTS
    StatementsOwned
    HandleUsable
    OneSession
    RowsFaithful

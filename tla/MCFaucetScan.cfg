CONSTANTS
    NumScripts = 2
    PageSize = 2
    PageOptions = {1, 3}
    MaxChain = 4
    MaxInputs = 1
SPECIFICATION Spec
INVARIANTS
    TypeOK
    OfferedWasUnspent
    UnspentIsOffered
PROPERTY Terminates
CHECK_DEADLOCK FALSE

CONSTANTS
    MaxNonce = 4
    MaxLimit = 7
SPECIFICATION Spec
INVARIANTS
    TypeOK
    TriesWithinJob
    FindsLeast
PROPERTIES
    KeepsContract
    Terminates
CHECK_DEADLOCK FALSE

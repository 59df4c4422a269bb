CONSTANTS
    Threads = {t1, t2}
    NoThread = NoThread
SPECIFICATION Spec
INVARIANTS
    TypeOK
    NothingLeaks
    LegacyIsKnown
    LegacyIsReported
    NeverThroughNull
CHECK_DEADLOCK FALSE

CONSTANTS
    BoundaryBytes = {1, 2, 3, 4, 7, 8, 12, 15, 16, 31, 32, 48, 63, 64, 96, 127, 128, 192, 240, 255}
    Fillers = {0, 1, 255}
SPECIFICATION HashSpec
INVARIANTS
    KernelsAgreeWithVerify
    ValidMeansBelowHeaderTarget
    SplitMatchesScript
    RulesAgreeOnWholeBytes
CHECK_DEADLOCK FALSE

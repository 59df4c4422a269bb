CONSTANTS
    MaxConfirmations = 700
    StrippedSizes = {82, 83, 85, 94}
    FeeRates = {1, 2, 5}
SPECIFICATION Spec
INVARIANTS
    LockTimeHasPassed
    SequenceIsTheScripts
    PaysMinimumRelayFee
PROPERTY DifficultyFallsBySteps
CHECK_DEADLOCK FALSE

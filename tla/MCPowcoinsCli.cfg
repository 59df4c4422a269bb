CONSTANTS
    Coins = {c1, c2}
    BirthHeights = {101, 100, 56, 37}
    StartHeight = 100
    MaxHeight = 101
    ValueLogs = {13, 15}
    Stripped = 94
    MinOptions <- MCMinOptions
    MaxOptions = {0, 80}
    FeeOptions = {0}
    MaxIdle = 1
SPECIFICATION MCSpec
INVARIANTS
    CliTypeOK
    BuiltIsSpendable
    AnswersDecide
    AnnouncedIsWanted
    ExitIsTrue
    CpuIsTheLastResort
PROPERTY Ends
CHECK_DEADLOCK FALSE

CONSTANTS
    Coins = {c1, c2}
    BirthHeights = {101, 100, 56, 37}
    StartHeight = 100
    MaxHeight = 101
    ValueLogs = {13, 14, 15}
    Stripped = 94
    MinOptions = {0, 36}
    MaxOptions = {0, 80}
    FeeOptions = {0}
SPECIFICATION Spec
INVARIANT YesMinesAndSpends
CHECK_DEADLOCK FALSE

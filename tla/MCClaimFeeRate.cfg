CONSTANTS
    MaxConfirmations = 700
    StrippedSizes = {82, 83, 85, 94}
    FeeRates = {1}
SPECIFICATION Spec
INVARIANT PaysRequestedFeeRate
CHECK_DEADLOCK FALSE

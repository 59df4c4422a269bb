CONSTANTS
    NumScripts = 2
    PageSize = 1
    PageOptions = {1}
    MaxChain = 4
    MaxInputs = 1
SPECIFICATION Spec
INVARIANT DerivesUnspentOutputs
CHECK_DEADLOCK FALSE

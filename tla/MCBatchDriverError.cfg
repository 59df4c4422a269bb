CONSTANTS
    MaxNonce = 4
    MaxLimit = 6
    Backends = {"cuda"}
    DefaultBatchSize = 3
    MaxBatch = 4
    Workgroup = 2
    Faults = {"deviceError"}
SPECIFICATION Spec
INVARIANT DriverErrorsReported
CHECK_DEADLOCK FALSE

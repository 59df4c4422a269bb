CONSTANTS
    MaxNonce = 4
    MaxLimit = 6
    Backends = {"cuda", "metal", "webgpu"}
    DefaultBatchSize = 2
    MaxBatch = 4
    Workgroup = 2
    Faults = {"spuriousCas", "deviceError"}
SPECIFICATION Spec
INVARIANTS
    TypeOK
    FoundIsFromLastBatch
    DispatchFits
PROPERTIES
    KeepsContract
    Terminates
CHECK_DEADLOCK FALSE

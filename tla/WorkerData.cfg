\* Four records in pages of two; two writers with a key that may change.
SPECIFICATION Spec
CONSTANTS
    MaxRecords = 4
    PageSize = 2
    MaxRunFaults = 1
    Apis <- Apis4
    Configurations <- Bound
    Workers = {w1, w2}
    Ids = {i1, i2}
    Keys = {k1}
    NoKey = noKey
    NBlocks = 2
    MaxWriteFaults = 1
    MaxCrashes = 1
    MaxPowerLosses = 1
    MaxLostAnswers = 1
CHECK_DEADLOCK FALSE
INVARIANTS SourceInvariant StorageInvariant
PROPERTIES EveryRecordDelivered

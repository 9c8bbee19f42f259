SPECIFICATION Spec
INVARIANT NoLockPanic
CONSTANTS
    Blocks <- AllBlocks
    Genesis = "g"
    NoBlock = "none"
    Parent <- ParentOf
    Weight <- WeightOf
    Base <- BaseOf
    Valid <- ValidBlocks
    MaxRollbackDelta = 2
    RollbackMaxBlocks = 3
    LightMode = FALSE
    StorageMayFail = FALSE
    MaxBatch = 2
    MaxApiCalls = 1
    MaxCrashes = 0

SPECIFICATION Spec
INVARIANT RefusalRestoresChain
INVARIANT CachedRollbackIsShallow
CONSTANTS
    Blocks <- AllBlocks
    Genesis = "g"
    NoBlock = "none"
    Parent <- ParentOf
    Weight <- WeightOf
    Base <- BaseOf
    Valid <- ValidBlocks
    MaxRollbackDelta = 2
    RollbackMaxBlocks = 3
    LightMode = TRUE
    StorageMayFail = TRUE
    MaxBatch = 2
    MaxApiCalls = 1
    MaxCrashes = 1

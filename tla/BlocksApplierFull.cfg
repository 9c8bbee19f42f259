SPECIFICATION Spec
INVARIANT ChainIsValid
INVARIANT RollbackWindowExists
INVARIANT SavedCompletesChain
INVARIANT DecisionsMatchReference
PROPERTY CrashLosesLittle
PROPERTY ImplementsForkChoice
CONSTANTS
    Blocks <- AllBlocks
    Genesis = "g"
    NoBlock = "none"
    Parent <- ParentOf
    Weight <- WeightOf
    Base <- BaseOf
    Valid <- ValidBlocks
    MaxRollbackDelta = 2
    RollbackMaxBlocks = 3
    LightMode = FALSE
    StorageMayFail = TRUE
    MaxBatch = 2
    MaxApiCalls = 1
    MaxCrashes = 1

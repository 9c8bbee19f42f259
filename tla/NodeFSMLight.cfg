SPECIFICATION FairSpec
INVARIANTS SkipListServesState SyncAwaitsSomething WaitIsGuarded
PROPERTIES SkipListHeals WaitEnds
CONSTANTS
    Peers = {p1}
    NoPeer = NoPeer
    MinPeersMining = 1
    NetCap = 1
    BlockIDs = {b1}
    NoBlock = NoBlock
    LightMode = TRUE
    BatchSize = 1
    StorageMayFail = FALSE
    TasksCap = 2
    MaxMineTimers = 0
    MaxPersistJobs = 2

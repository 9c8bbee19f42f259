SPECIFICATION FairSpec
INVARIANTS SyncPeerAgrees NoPoppableBatch
PROPERTIES SilentPeerIsLeft BrokenPeerIsLeft
CONSTANTS
    Peers = {p1, p2}
    NoPeer = NoPeer
    MinPeersMining = 1
    NetCap = 1
    BlockIDs = {b1, b2}
    NoBlock = NoBlock
    LightMode = FALSE
    BatchSize = 2
    StorageMayFail = TRUE
    TasksCap = 1
    MaxMineTimers = 1
    MaxPersistJobs = 1

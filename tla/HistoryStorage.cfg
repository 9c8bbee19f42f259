SPECIFICATION Spec
INVARIANTS HistoriesMatchChain NewestMatchesChain
PROPERTY RemovedStaysRemoved
CONSTANTS
    Keys <- AllKeys
    NotCut = {"vote"}
    Contents <- AllContents
    MaxRollback = 2
    MaxHeight = 6
    MaxPack = 2
    MaxNum = 8
    NoData = NoData

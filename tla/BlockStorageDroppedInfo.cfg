CONSTANTS
    TxSizes = {0, 1}
    Window = 2
    MaxRollback = 2
    Preactivated = FALSE
    MaxHeight = 6
    MaxPack = 2
    NoBlock = NoBlock
    ZeroCell = ZeroCell
SPECIFICATION Spec
INVARIANT NothingFoundMeansNotActivated
CONSTRAINT NotMisled

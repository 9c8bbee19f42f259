CONSTANTS
    TxSizes = {0, 1}
    Window = 2
    MaxRollback = 2
    Preactivated = FALSE
    MaxHeight = 7
    MaxPack = 2
    NoBlock = NoBlock
    ZeroCell = ZeroCell
SPECIFICATION Spec
INVARIANTS StoredChainReadsBack CountersMatchFiles ActivationIsNotForgotten
CONSTRAINT NotMisled

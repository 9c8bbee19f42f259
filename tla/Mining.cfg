SPECIFICATION Spec
INVARIANT OwnBlockFitsLimit
INVARIANT TransactionsInOnePlace
PROPERTY ScheduleGoesOn
CONSTANTS
    t1 = t1
    t2 = t2
    t3 = t3
    Txs = {t1, t2, t3}
    Early = {t1, t2}
    SizeOf <- MCSizeOf
    Accounts = {a1}
    MaxTxsSize = 2
    MinTxSize = 1
    MaxMicroTxs = 1
    InternalCap = 1
    MaxBlocks = 3
    MaxInFlight = 1
    Nothing = Nothing
SYMMETRY MCSymmetry
VIEW MCView
CHECK_DEADLOCK FALSE

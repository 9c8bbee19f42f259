SPECIFICATION FairSpec
INVARIANT TypeOK
INVARIANT NoPopPanic
INVARIANT NoDuplicates
INVARIANT CancelIsPossible
PROPERTY CleanRemovesOldItemsOnly
PROPERTY CleaningEnds
CONSTANTS
    t1 = t1
    t2 = t2
    t3 = t3
    Txs = {t1, t2, t3}
    Size <- MCSize
    Fee <- MCFee
    SizeLimit = 3
    Cleaners = {c1, c2}
    MaxAdds = 3
    NoCleaner = NoCleaner
CHECK_DEADLOCK FALSE

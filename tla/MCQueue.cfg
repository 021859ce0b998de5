\* Three goroutines, one token, two configurations of the backlog.
CONSTANTS
    p1 = p1  p2 = p2  p3 = p3
    e1 = e1  e2 = e2  e3 = e3  e4 = e4
    Procs <- ThreeProcs
    Limits <- OnlyOne
    Elements <- FourElements
    None = None
    Configs <- TwoConfigs
SPECIFICATION FairSpec
INVARIANTS TypeOK TokensAccounted BacklogBounded BacklogAlive
PROPERTIES ServesOldest AcquireReturns ReleaseReturns DoneContextEndsWait

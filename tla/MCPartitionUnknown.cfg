\* Lookup with three requests: half of the limit for live requests, a quarter for
\* batch, the rest for nobody.
CONSTANTS
    c1 = c1  c2 = c2  c3 = c3  None = None
    Callers <- ThreeCallers
    NewLimits <- ZeroToThree
    MaxLimit = 3
    r1 = r1  r2 = r2  r3 = r3  r4 = r4  r5 = r5  r6 = r6  r7 = r7
    live = live  batch = batch  Unknown = Unknown  Nothing = Nothing
    write = write  read = read  any = any
    Requests <- ThreeRequests
    Partitions <- ThreePartitions
    Quarters <- Percentages
    Requested <- ZeroAndThree
    Names <- TwoNames
    InitialNames <- OneName
    InitialMap <- LiveOnly
    CtorLimits <- One
    PredRequests <- FourRequests
    PredPartitions <- WriteReadAny
    PredQuarters <- PredPercentages
    Contexts <- TwoContexts
    Matches <- Overlapping
    InitialList <- WriteThenAny
SPECIFICATION MCSpec
PROPERTIES UnknownOnlyExcess

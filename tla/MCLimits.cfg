\* Windows of up to three samples around the window size, limits from 8 on; in the
\* registry two goroutines that build limits, start and stop, and two that poll.
CONSTANTS
    c1 = c1  c2 = c2  p1 = p1  p2 = p2
    None = None
    InitialLimit = 8
    RatioNum = 1  RatioDen = 4
    IncreaseBy = 2
    MinWindowTime = 1  MaxWindowTime = 3
    WindowSize = 10
    MinRTTThreshold = 1
    MaxInt64 = 99
    StartTimes <- Times
    RTTs <- ZeroToTwo
    InFlights <- Loads
    MaxSamples = 3
    VegasInitial = 8  VegasMax = 12
    ProbeMultiplier = 3
    Jitters <- JittersUsed
    VegasRTTs <- PowersAndZero
    VegasInFlights <- LowAndHigh
    \* the estimate of GradientLimit starts above the maximum, and its queue (the
    \* square root) is at times larger than the minimum
    Unit = 4  SmoothNum = 1  SmoothDen = 2
    GradInitial = 12  GradMin = 2  GradMax = 10
    Tolerance = 1  GradBaseline = 1  ProbeInterval = 4
    GradRTTs <- ZeroToThree
    GradInFlights <- LowMediumHigh
    \* the warm-up of the average is that of the constructor
    G2Initial = 6  G2Min = 4  G2Max = 10
    G2QueueSize = 1  LongWindow = 3  WarmupWindow = 10
    G2RTTs <- ZeroOneThree
    G2InFlights <- OneAndSix
    Clients <- TwoClients
    Silent <- WithoutValue
    Names <- TwoNames
    Pollers <- TwoPollers
    IDs <- ThreeIDs
    sanitizeName <- SanitizedIDs
    Foreign <- ForeignNames
    Alike <- OthersAlike
SPECIFICATION MCSpec
INVARIANTS LimitFollowsDemand ListenersUpToDate WindowFaithful EstimatesBounded BaselinesFresh LongWithinSeen EntriesExported
PROPERTIES UpdatesSpaced NaNOnlyFromStart RegistryCallsReturn GaugesPublished

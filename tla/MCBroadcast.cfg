\* Two goroutines share one or two tokens.  The deadline may pass at any moment
\* of any call; without a timeout, only a broadcast or the context can wake a
\* goroutine that blocks in a BlockingLimiter.
CONSTANTS
    p1 = p1  p2 = p2
    c1 = c1  c2 = c2  c3 = c3  c4 = c4
    Procs <- TwoProcs
    Limits <- OneOrTwo
    Channels <- FourChannels
    NoChannel = NoChannel
SPECIFICATION FairLimiterSpec
INVARIANTS NoDoubleClose NoLostWakeup NoGrantAfterDeadline
PROPERTIES CapacityReachesWaiter CancelEndsCall DeadlineEndsCall

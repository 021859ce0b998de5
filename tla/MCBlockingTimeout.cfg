\* With the per-attempt timeout; a holder may keep its token.
CONSTANTS
    p1 = p1  p2 = p2
    c1 = c1  c2 = c2  c3 = c3  c4 = c4
    Procs <- TwoProcs
    Limits <- OneOrTwo
    Channels <- FourChannels
    NoChannel = NoChannel
SPECIFICATION BlockingFairSpec
PROPERTIES TimeoutEndsCall

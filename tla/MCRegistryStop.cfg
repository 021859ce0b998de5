\* Two goroutines that build, start and stop, over two names.
CONSTANTS
    c1 = c1  c2 = c2  p1 = p1  p2 = p2  None = None
    Clients <- TwoClients
    Silent <- OneClient
    Names <- TwoNames
    Pollers <- TwoPollers
SPECIFICATION FairSpec
PROPERTIES StopEndsPolling

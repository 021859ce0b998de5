\* Three goroutines, one token, FIFO with a timeout.
CONSTANTS
    p1 = p1  p2 = p2  p3 = p3
    e1 = e1  e2 = e2  e3 = e3  e4 = e4
    Procs <- ThreeProcs
    Limits <- OnlyOne
    Elements <- FourElements
    None = None
    Configs <- FIFOConfig
SPECIFICATION Spec
INVARIANTS NoStrandedWaiter

\* Two goroutines, each up to two interceptors deep, over one or two limiters
\* that refuse at once or wait.
CONSTANTS
    p1 = p1  p2 = p2  a = a  b = b
    None = None
    Procs <- TwoProcs
    Limiters <- TwoLimiters
    Limits <- OneOrTwo
    Configs <- FourConfigs
    Rank <- ServersFirst
    MaxDepth = 2
SPECIFICATION Spec
INVARIANTS TokensAccounted NoCircularWait

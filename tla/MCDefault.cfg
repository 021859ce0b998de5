\* Two goroutines; windows of two samples, two ticks apart or more.
CONSTANTS
    p1 = p1  p2 = p2
    Procs <- TwoProcs
    None = None
    Estimates <- ZeroToTwo
    MinWindowTime = 2
    MaxWindowTime = 3
    MinRTTThreshold = 1
    WindowSize = 1
    MaxInt64 = 99
    MaxTime = 5
    MaxStall = 1
SPECIFICATION Spec
INVARIANTS CountersAgree
PROPERTIES ImplementsCore SampledWithinLimit UpdatesSpaced NoStaleReport

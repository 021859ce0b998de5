\* What the delegate makes of a window with a drop in it.
CONSTANTS
    InitialLimit = 8
    RatioNum = 1  RatioDen = 4
    IncreaseBy = 2
    MinWindowTime = 1  MaxWindowTime = 3
    WindowSize = 10
    MinRTTThreshold = 1
    MaxInt64 = 99
    StartTimes <- Times
    RTTs <- ZeroToTwo
    InFlights <- Loads
    MaxSamples = 3
SPECIFICATION Spec
PROPERTIES DropNeverRaises

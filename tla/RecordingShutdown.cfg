\* One recording is enough, with the latency the code starts with.
CHECK_DEADLOCK FALSE
SPECIFICATION Spec
CONSTANTS
    NumSurfaces = 3
    Latencies <- MCNoLatency
    TotalFrames = 3
    EndMargin = 1
    SkipFirst = 1
    SkipLast = 2
    TimeOut = 1
    MaxIndex = 3
    MaxRecordings = 1
PROPERTIES
    ShutdownFinishes

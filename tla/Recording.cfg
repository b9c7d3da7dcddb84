\* The window may be hidden and the user may do nothing more: the system may stop.
CHECK_DEADLOCK FALSE
SPECIFICATION Spec
CONSTANTS
    NumSurfaces = 2
    Latencies <- MCLatencies
    TotalFrames = 3
    EndMargin = 1
    SkipFirst = 1
    SkipLast = 2
    TimeOut = 1
    MaxIndex = 3
    MaxRecordings = 2
INVARIANTS
    TypeOK
    KeepsCapturing
PROPERTIES
    RequestServed

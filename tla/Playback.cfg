SPECIFICATION Spec
CONSTANTS
    File <- MCFile
    Targets <- MCTargets
    Gap = 1
    EndZone = 3
    MIN_FRAMES = 0
    MAX_QUEUE_SIZE = 2
    max_size <- MCmax_size
    MaxSamples = 1
    MaxCalls = 2
INVARIANTS
    TypeOK
    InStep
    QueuesBounded
PROPERTIES
    EndDrained
    LipSync
    PlaysToTheEnd

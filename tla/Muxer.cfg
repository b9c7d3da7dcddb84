\* Once stop() has returned, the muxer is destroyed.
CHECK_DEADLOCK FALSE
SPECIFICATION Spec
CONSTANTS
    MaxFed <- MCMaxFed
    ImageTime = 3
    BufferTime = 2
    Delay = 1
    WaitEnds = {FALSE}
INVARIANTS
    TypeOK
    InSync
    AudioFlushed
PROPERTIES
    StopReturns
    ImagesTaken
    FileSpec

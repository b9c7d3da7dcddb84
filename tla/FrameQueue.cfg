\* The user may leave the track deselected for good: the system may stop.
CHECK_DEADLOCK FALSE
SPECIFICATION Spec
CONSTANTS
    f1 = f1
    f2 = f2
    Frame <- MCFrame
    NoFrame = NoFrame
    max_size = 3
    keep_last = TRUE
    MaxStarts <- MCMaxStarts
INVARIANTS
    TypeOK
    RingConsistent
    WriterAwayFromReader
    HeldFrameIntact
PROPERTIES
    AbortCompletes
    ReaderReleased
    BufferSpec

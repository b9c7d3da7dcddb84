\* With no start, as here for a reader that polls, there is nothing to do.
CHECK_DEADLOCK FALSE
SPECIFICATION Spec
CONSTANTS
    f1 = f1
    f2 = f2
    Frame <- MCFrame
    NoFrame = NoFrame
    max_size = 3
    keep_last = TRUE
    MaxStarts <- MCReselect
INVARIANTS
    ReadableIsReadable

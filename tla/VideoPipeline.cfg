SPECIFICATION Spec
CONSTANTS
    LastFrame = 2
    KeyFrames <- MCKeyFrames
    Targets <- MCTargets
    Delay = 1
    MIN_FRAMES = 1
    max_size = 3
    MaxSerial = 2
INVARIANTS
    TypeOK
    InOrder
PROPERTIES
    ScreenForward
    EndIsTheEnd
    EndNoticed
    SeekShows

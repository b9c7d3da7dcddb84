\* With the last media closed, or its Open failed, the user may leave it at that.
CHECK_DEADLOCK FALSE
SPECIFICATION Spec
CONSTANTS
    Kinds <- MCKinds
    MaxOpens = 2
    Patient = TRUE
INVARIANTS
    OneDisplayThread

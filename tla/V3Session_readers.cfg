CONSTANTS
    MaxStreams <- One
    StreamBuffer <- One
    SessionBuffer <- Four
    MaxWindow = 4
    MaxId = 2
    WriteQueue = 1
    ControlQueue = 1
    Wire = 1
    MaxBytes <- Zero
    Events <- ServerRefuses
SPECIFICATION Spec
INVARIANT ReadersNotBothBlocked
CHECK_DEADLOCK FALSE

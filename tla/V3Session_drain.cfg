CONSTANTS
    MaxStreams <- One
    StreamBuffer <- One
    SessionBuffer <- Four
    MaxWindow = 4
    MaxId = 1
    WriteQueue = 1
    ControlQueue = 1
    Wire = 1
    MaxBytes <- OneZero
    Events <- ClientDrains
SPECIFICATION Spec
INVARIANT DrainInterruptsNobody
CHECK_DEADLOCK FALSE

CONSTANTS
    MaxStreams <- One
    StreamBuffer <- One
    SessionBuffer <- Two
    MaxWindow = 1
    MaxId = 2
    WriteQueue = 1
    ControlQueue = 1
    Wire = 1
    MaxBytes <- OneZero
    Events <- ForeignClient
SPECIFICATION Spec
INVARIANTS
    WindowAccounted
    SlotsBounded
    DrainEnds
CHECK_DEADLOCK FALSE

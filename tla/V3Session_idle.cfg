CONSTANTS
    MaxStreams <- One
    StreamBuffer <- One
    SessionBuffer <- Four
    MaxWindow = 4
    MaxId = 1
    WriteQueue = 1
    ControlQueue = 1
    Wire = 1
    MaxBytes <- Zero
    Events <- ServerIdles
SPECIFICATION Spec
PROPERTY IdleOnlyWithoutStreams
CHECK_DEADLOCK FALSE

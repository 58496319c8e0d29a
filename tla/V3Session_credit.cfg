CONSTANTS
    MaxStreams <- Two
    StreamBuffer <- One
    SessionBuffer <- Four
    MaxWindow = 4
    MaxId = 2
    WriteQueue = 1
    ControlQueue = 1
    Wire = 1
    MaxBytes <- OneZero
    Events <- Quiet
SPECIFICATION FairSpec
PROPERTY WriterServed
CHECK_DEADLOCK FALSE

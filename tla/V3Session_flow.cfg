CONSTANTS
    MaxStreams <- One
    StreamBuffer <- OneTwo
    SessionBuffer <- Four
    MaxWindow = 4
    MaxId = 1
    WriteQueue = 1
    ControlQueue = 1
    Wire = 1
    MaxBytes <- ThreeZero
    Events <- Faults
SPECIFICATION Spec
INVARIANTS
    PeersConform
    EofAfterData
    CreditConserved


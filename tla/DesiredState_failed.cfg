CONSTANTS
    Edits <- Quiet
    MaxLoss = 0
    MaxFail = 1
    MaxFaults = 1
    MaxEvents = 2
    MaxReissue = 0
SPECIFICATION Spec
INVARIANTS
    NothingForgotten

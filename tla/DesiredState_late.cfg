CONSTANTS
    Edits <- QuietLast
    MaxLoss = 0
    MaxFail = 0
    MaxFaults = 0
    MaxEvents = 2
    MaxReissue = 0
SPECIFICATION Spec
PROPERTIES
    LateResultIgnored

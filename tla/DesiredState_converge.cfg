CONSTANTS
    Edits <- Visible
    MaxLoss = 1
    MaxFail = 1
    MaxFaults = 1
    MaxEvents = 1
    MaxReissue = 0
SPECIFICATION FairSpec
PROPERTIES
    Converges

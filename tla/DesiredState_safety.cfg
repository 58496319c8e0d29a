CONSTANTS
    Edits <- Visible2
    MaxLoss = 0
    MaxFail = 0
    MaxFaults = 0
    MaxEvents = 2
    MaxReissue = 0
SPECIFICATION Spec
INVARIANTS
    AcceptedOnce
PROPERTIES
    NeverOlder
    ClaimsWhatRuns

CONSTANTS
    a = a
    b = b
    c = c
    d = d
    Hosts <- FourHosts
    Steady <- SteadyAB
    MaxConcurrent = 2
    CoalesceTicks = 2
    WaitTimeout = 3
    PollEvery = 1
SPECIFICATION GateFairSpec
INVARIANTS
    OneReconciliation
    CapacityRespected
PROPERTIES
    NoOvertaking
    SteadyKeepsPlace
    SteadyAdmitted

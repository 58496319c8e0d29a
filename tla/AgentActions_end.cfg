CONSTANTS
    a = a
    b = b
    None = None
    PortList <- TwoPorts
    MaxIssue = 2
    Workers = 1
    IngressCapacity = 1
    QueueCapacity = 1
SPECIFICATION FairSpec
INVARIANTS
    GuardsSuffice
PROPERTIES
    EveryJobEnds
CHECK_DEADLOCK FALSE

CONSTANTS
    a = a
    b = b
    None = None
    PortList <- TwoPorts
    MaxIssue = 2
    Workers = 2
    IngressCapacity = 1
    QueueCapacity = 1
SPECIFICATION Spec
    PROPERTY RestoredAfterRelease
CHECK_DEADLOCK FALSE

CONSTANTS
    c1 = c1
    c2 = c2
    c3 = c3
    k1 = k1
    s1 = s1
    s2 = s2
    s3 = s3
    s4 = s4
    b1 = b1
    b2 = b2
    b3 = b3
    b4 = b4
    b5 = b5
    Callers <- TwoCallers
    Keys <- OneKey
    Sessions <- SomeSessions
    Buckets <- SomeBuckets
    PoolLimit = 2
    MaxStreams = 2
    MaxIds = 2
    MaxCalls = 4
    MaxFaults = 1
SPECIFICATION Spec
PROPERTIES
    StaleSessionKeepsStreams
CHECK_DEADLOCK FALSE

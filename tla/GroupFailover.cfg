CONSTANTS
    a = a
    b = b
    g = g
    None = None
    Flusher = Flusher
    Sweeper = Sweeper
    Admin = Admin
    Tasks <- ThreeTasks
    Keys <- OneGroup
    Groups <- OneGroup
    Group <- g
    Order <- TwoMembers
    AutoFailback = TRUE
    MaxEvents = 3
SPECIFICATION FairSpec
PROPERTIES
    SettlesOnBest
    SwitchesSoundly
INVARIANTS
    NeverStranded
    NothingForgotten
    RecordAgrees
CHECK_DEADLOCK FALSE

CONSTANTS
    a = a
    b = b
    g = g
    None = None
    Flusher = Flusher
    Sweeper = Sweeper
    Admin = Admin
    Tasks <- ThreeTasks
    Keys <- OneGroup
    Groups <- OneGroup
    Group <- g
    Order <- TwoMembers
    AutoFailback = TRUE
    MaxEvents = 1
SPECIFICATION FairSpec
PROPERTY DisabledIsLeft
CHECK_DEADLOCK FALSE

CONSTANTS
    mine = mine
    theirs = theirs
    more = more
    user = user
    None = None
    Keys = {mine, theirs, more}
    Callers = {c1}
    MaxLoads = 3
    Writers = {user}
    Matched <- Scope
    Concurrency = 1
    MaxQueued = 1
    MaxEntries = 2
    MaxBytes = 3
    Sizes = {1, 3, 4}
    MaxVersion = 1
SPECIFICATION FairSpec
INVARIANTS
    ReadYourWrites
    OneLoadPerKey
    Accounted
PROPERTIES
    EveryGetSettles
CHECK_DEADLOCK FALSE

CONSTANTS
    None = None
    Nobody = Nobody
    Host = Host
    Background = Background
    Heartbeat = Heartbeat
    Keys <- OneHost
    Tasks <- TwoTasksEach
    Callers <- TwoCallers
    Handler <- MCHandler
    Notifier <- MCNotifier
    MaxEpoch = 3
    Attempts = 2
    MaxChanges = 3
    MaxFaults = 1
SPECIFICATION FairSpec
PROPERTY KnownSettles
CHECK_DEADLOCK FALSE

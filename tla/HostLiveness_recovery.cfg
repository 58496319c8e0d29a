CONSTANTS
    None = None
    Nobody = Nobody
    Host = Host
    Background = Background
    Heartbeat = Heartbeat
    Keys <- OneHost
    Tasks <- TwoTasksEach
    Callers <- TwoCallers
    Handler <- MCHandler
    Notifier <- MCNotifier
    MaxEpoch = 3
    Attempts = 2
    MaxChanges = 2
    MaxFaults = 1
SPECIFICATION FairSpec
PROPERTY FailedRecoveryIsRetried
CHECK_DEADLOCK FALSE

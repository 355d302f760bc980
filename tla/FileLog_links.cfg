SPECIFICATION MCSpec
CONSTANTS
    p1 = p1
    p2 = p2
    c1 = c1
    c2 = c2
    Processes = {p1, p2}
    Cleaners = {c1}
    Environments <- LinkEnvironments
    Configs <- SharedConfigs
    DefaultConfig <- Default
    DayLength = 2
    StartTime = 5
    MaxFileSizeBytes = 2
    CircuitBreakerResetDelay = 1
    RotationRetryDelay = 2
    MaxBackupRenameAttempts = 2
    MaxBackupNameSuffix = 2
    Ops <- LinkOps
    MaxTime = 6
    MaxWait = 0
    MaxCalls <- AllCalls
    MaxCrashes = 0
CHECK_DEADLOCK FALSE
INVARIANT LinesAreKept

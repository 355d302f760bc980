SPECIFICATION MCSpec
CONSTANTS
    p1 = p1
    p2 = p2
    c1 = c1
    c2 = c2
    Processes = {p1, p2}
    Cleaners = {c1}
    Environments <- AllEnvironments
    Configs <- AllConfigs
    DefaultConfig <- Default
    DayLength = 2
    StartTime = 5
    MaxFileSizeBytes = 2
    CircuitBreakerResetDelay = 1
    RotationRetryDelay = 1
    MaxBackupRenameAttempts = 2
    MaxBackupNameSuffix = 1
    Ops <- OneOps
    MaxTime = 6
    MaxWait = 1
    MaxCalls <- AllCalls
    MaxCrashes = 1
CHECK_DEADLOCK FALSE
INVARIANTS
    RotationKeepsLines DailyBackupsEndInTime NewFilesContinueBackups ClosedOnlyByFailure
PROPERTIES
    BackupsAreNotReplaced NewestBackupsStay

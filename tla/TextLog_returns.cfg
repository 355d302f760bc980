SPECIFICATION FairSpec
CONSTANTS
    a = a
    b = b
    W = W
    App <- TwoThreads
    Configs <- PeriodicConfigs
    DefaultConfig <- SyncConfig
    QueueCapacity = 1
    CallOps <- ReturnOps
    HandlerOps = {"Log", "Close"}
    MaxCalls <- Calls221
    Failures = {}
PROPERTIES EveryCallReturns QueueDrains

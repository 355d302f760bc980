SPECIFICATION Spec
CONSTANTS
    a = a
    b = b
    W = W
    App <- TwoThreads
    Configs <- ManualConfigs
    DefaultConfig <- SyncConfig
    QueueCapacity = 1
    CallOps <- HandlerClosesOps
    HandlerOps = {"Reconfigure"}
    MaxCalls <- Calls122
    Failures = {}
INVARIANT ActiveMeansWorkerRuns

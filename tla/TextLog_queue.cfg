SPECIFICATION Spec
CONSTANTS
    a = a
    b = b
    W = W
    App <- TwoThreads
    Configs <- QueueConfigs
    DefaultConfig <- SyncConfig
    QueueCapacity = 1
    CallOps <- QueueOps
    HandlerOps = {}
    MaxCalls <- Calls330
    Failures = {}
INVARIANTS
    DropsAccounted
PROPERTIES
    WaitsCoverQueued

SPECIFICATION Spec
CONSTANTS
    a = a
    b = b
    W = W
    App <- TwoThreads
    Configs <- ManualConfigs
    DefaultConfig <- SyncConfig
    QueueCapacity = 2
    CallOps <- SwitchOps
    HandlerOps = {"Open", "Close"}
    MaxCalls <- Calls321
    Failures = {"open", "flush", "throw", "thread"}
INVARIANTS
    OneThreadInOrder AsyncOffMeansDrained CloseKeepsQueued

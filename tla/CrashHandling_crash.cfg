SPECIFICATION FairSpec
CONSTANTS
    t1 = t1
    t2 = t2
    w = w
    buffered = buffered
    async = async
    memory = memory
    NoOne = NoOne
    Loggers <- MCLoggers
    Threads <- MCThreads
    Workers <- MCWorkers
    WorkerOf <- MCWorkerOf
    Flushed <- MCFlushed
    Memory <- MCMemory
    Platforms <- MCPlatforms
    Instances <- MCCrashes
CHECK_DEADLOCK FALSE
INVARIANTS
    EntriesPrecedeCrashLine LoggersGetTheCrash VisitsLiveLoggers HandlersGetTheCrash
PROPERTIES
    ProcessEnds

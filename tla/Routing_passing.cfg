CONSTANTS
    Sinks = {"a", "b"}
    Multi = "multi"
    Categories = {"net", "http", "other"}
    Threads = {"t1", "t2"}
    OwnName <- MCOwnName
    Wrapped <- MCWrapped
    Levels = {0, 1}
    Off = 2
    Instances <- MCInstances
SPECIFICATION Spec
INVARIANTS
    CategoriesFollowTheRules
PROPERTIES
    FanOutOnce AskedIsWritten InitializeTellsReady

CONSTANTS
    a = a
    b = b
    none = none
    Thread <- Threads
    NoLevel = none
    Off = 2
    CategoryLevels <- LowCategory
    Configs <- Sizes
    Calls <- AllCalls
    MaxCalls <- Calls42
SPECIFICATION MCSpec
CHECK_DEADLOCK FALSE
INVARIANTS
    InOnePlace GateMatchesRing OwnEntriesAreTaken
PROPERTIES
    KeepsTheNewest

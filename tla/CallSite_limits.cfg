CONSTANTS
    a = a
    b = b
    Threads = {a, b}
    Limiters <- EachKind
    Kinds = {"Write"}
    MinTicks = 0
    MaxTicks = 4
    Times = {0, 1}
    ErrorReportInterval = 1
    ScopeFields <- OwnField
    MaxCalls <- Calls21
    MaxScopes <- Scopes10
SPECIFICATION Spec
CHECK_DEADLOCK FALSE
INVARIANTS
    RefusedToldOnce ReportsCountedOnce
PROPERTIES
    AllowsAsDocumented

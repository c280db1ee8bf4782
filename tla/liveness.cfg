CONSTANTS
    Submitters = {p1}
    Closers = {c1}
    Thieves = {t1}
    NShards = 2
    Capacity = 1
    HighWater = 3
    LowWater = 1
    MayPanic = TRUE
    MaxTasks = 3
    NoTask = NoTask
    NoOne = NoOne
    Fds = {f1, f2}
    Tokens = {"t1", "t2"}
    EventsBuf = 1
    MaxUnread = 1
    MaxRegistrations = 3
    Operators = {"o1", "o2"}
    GatewayLevels = {"x"}
    BackendLists <- MCBackendLists
    RouteLists <- MCRouteLists
    Secrets <- MCSecrets
    MaxEdits = 1
    MaxFaults = 1
SPECIFICATION MCSpec
CHECK_DEADLOCK FALSE
PROPERTIES
    
    ShutdownReturns
    DataIsRead
    ConfigConverges

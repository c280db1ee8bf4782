CONSTANTS
    Submitters = {p1, p2}
    Closers = {c1, c2}
    Thieves = {}
    NShards = 2
    Capacity = 2
    HighWater = 2
    LowWater = 1
    MayPanic = TRUE
    MaxTasks = 4
    NoTask = NoTask
    NoOne = NoOne
    Fds = {f1, f2}
    Tokens = {"t1", "t2"}
    EventsBuf = 1
    MaxUnread = 2
    MaxRegistrations = 4
    Operators = {"o1", "o2"}
    GatewayLevels = {"x"}
    BackendLists <- MCBackendLists
    RouteLists <- MCRouteLists
    Secrets <- MCSecrets
    MaxEdits = 2
    MaxFaults = 1
    LogShards = 2
    Payloads <- MCPayloads
    MaxPayloadCells = 3
    SegmentCells = 7
    MaxLogAppends = 4
    MaxOpens = 2
    Files <- MCFiles
    Environments <- MCEnvironments
    Gpus = {0, 1}
    Readings <- MCReadings
    Layouts <- MCLayouts
    GpuIndex = 0
    Backend = 1
    MaxPolls = 3
    Callers = {p1, p2}
    WasmFilters = {"w0", "w1"}
    InstancePool <- MCInstancePool
    MaxFilters = 2
    MaxCalls = 3
    Recorders = {p1, p2}
    Dimensions = {"d1", "d2", "d3"}
    DimensionCap = 1
    ReservoirCapacity = 2
    MaxRecords = 4
    Publishers = {p1, p2}
    Events <- MCEvents
    BusCapacity = 2
    U64Max = 7
    I64Max = 3
    F64Exact = 4
    MaxEvents = 3
SPECIFICATION MCSpec
CHECK_DEADLOCK FALSE
INVARIANTS
    
    DumpIsComplete
    ImageNotAheadOfConfig
    LoadMatchesLayers
    
    TerminatedForCause
    
    SinksAgree
    ShardRunsInOrder
    ShutdownDrains
    
SYMMETRY Symmetry

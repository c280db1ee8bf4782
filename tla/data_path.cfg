CONSTANTS
    Requests = {r1, r2}
    NBackends = 2
    Bodies <- MCBodies
    MinPrefix = 1
    MaxTrieEntries = 2
    HedgeNum = 1
    HedgeDen = 4
    MaxDecisions = 3
    Callers = {r1, r2}
    Subjects = {s1}
    Costs = {1, 2}
    Rate = 1
    Burst = 1
    Floor = 0
    Scale = 5
    PerSec = 2
    Word = 6
    MaxMs = 8
    AliasScale = 8
    WeightVectors <- MCWeightVectors
    QuantileNum = 19
    QuantileDen = 20
    Latencies = {1, 2, 3, 4}
    MaxObservations = 20
    Chunks <- MCChunks
    MaxFeeds = 4
    MaxLine = 3
    Cancellers = {"DeadlineExceeded", "HedgeLost"}
    Deadlines = {1, 2, 3}
    MaxTimers = 5
    CompactDiv = 4
    HeaderLens = {1, 2}
    ContentLengths = {0, 1, 3}
    ReadSizes = {1, 2, 3}
    MaxHeaderBytes = 3
    MaxBytes = 7
SPECIFICATION MCSpec
SYMMETRY Symmetry
CHECK_DEADLOCK FALSE
INVARIANTS
    DecisionHonoursSignals
    HedgesBounded
    RateBound
    DrawnByWeight
    QuantileOnTarget
    TokensMatchStream
    CancelledTruthfully
    FiresOnceOnTime
    FramedExactly
PROPERTY RetryAfterSuffices

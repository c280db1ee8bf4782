CONSTANTS
    a1 = a1
    a2 = a2
    Appenders = {a1, a2}
    FlushCallers = {}
    ShutdownCallers = {}
    NShards = 1
    SegmentSizeMax = 100
    FlushBufferBytes = 1
    FrameLens = {1}
    Durabilities = {"Async", "Fsync"}
    IoErrors = FALSE
    MaxEntries = 3
SPECIFICATION Spec
INVARIANTS
    AckedIsDurable

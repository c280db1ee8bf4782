CONSTANTS
    a1 = a1
    a2 = a2
    f1 = f1
    s1 = s1
    Appenders = {a1, a2}
    FlushCallers = {f1}
    ShutdownCallers = {s1}
    NShards = 2
    SegmentSizeMax = 1
    FlushBufferBytes = 1
    FrameLens = {1}
    Durabilities = {"Async", "Fsync"}
    IoErrors = TRUE
    MaxEntries = 3
SPECIFICATION Spec
SYMMETRY AppenderSymmetry
VIEW LiveState
INVARIANTS
    AckedInOrderIsDurable
    ExitedFlusherDrained
PROPERTIES
    
    FlushReturnsCovered

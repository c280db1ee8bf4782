CONSTANTS
    a1 = a1
    f1 = f1
    s1 = s1
    Appenders = {a1}
    FlushCallers = {f1}
    ShutdownCallers = {s1}
    NShards = 2
    SegmentSizeMax = 2
    FlushBufferBytes = 2
    FrameLens = {1}
    Durabilities = {"Async", "Fsync"}
    IoErrors = FALSE
    MaxEntries = 3
SPECIFICATION FairSpec
PROPERTIES
    
    
    ShutdownReturns

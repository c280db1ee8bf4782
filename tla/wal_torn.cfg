CONSTANTS
    LogShards = 1
    Payloads <- MCPayloads
    MaxPayloadCells = 3
    SegmentCells = 9
    MaxLogAppends = 3
    MaxOpens = 2
SPECIFICATION RecoverySpec
CHECK_DEADLOCK FALSE
INVARIANT SyncedIsReadable

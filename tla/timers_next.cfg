CONSTANTS
    Deadlines = {1, 2, 3}
    MaxTimers = 5
    CompactDiv = 4
SPECIFICATION TimersSpec
CHECK_DEADLOCK FALSE
INVARIANT NextDeadlineIsNext

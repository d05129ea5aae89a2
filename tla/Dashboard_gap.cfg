SPECIFICATION Spec
CONSTANTS
    QUEUE_MAX = 2
    MAX_POINTS = 2
    MaxRuns = 2
    MaxBreaks = 1
INVARIANT InitialStatusIsSynced
CHECK_DEADLOCK FALSE

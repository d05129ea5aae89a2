\* Two runs, one broken connection, queues that overflow.
CONSTANTS
    QUEUE_MAX = 2
    MAX_POINTS = 2
    MaxRuns = 2
    MaxBreaks = 1
SPECIFICATION FairSpec
INVARIANTS
    PageFollows
    ChartsShowTheRun
PROPERTIES
    PageConverges

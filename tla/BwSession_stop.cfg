\* One stop while the session streams.
CONSTANTS
    QueueMax = 2
    MaxCancels = 1
CHECK_DEADLOCK FALSE
SPECIFICATION Spec
INVARIANTS
    StoppedSessionIsClean

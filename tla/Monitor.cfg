\* Two clients that stop, time out and stop again, and a shutdown. A session
\* is cancelled at most four times, so that MaxCancels never stands in the way.
CONSTANTS
    QueueMax = 2
    MaxCancels = 4
    Clients = {c1, c2}
SPECIFICATION FairMonitorSpec
INVARIANTS
    NormalEndIsClean
    NormalEndYieldsAll
    FailedStartIsClean
    QuietWhenIdle
PROPERTIES
    NoEventAfterCancel
    KeepsContract
    FollowsView
    FinishedEnds
    StopAnswered
    ShutdownEnds
CHECK_DEADLOCK FALSE

\* One client reads, the other may stop reading for ever; more events than
\* fit in a queue, so that the oldest are dropped.
CONSTANTS
    Subscribers = {fast, slow}
    Reading = {fast}
    QUEUE_MAX = 2
    MaxPublished = 5
SPECIFICATION FairSpec
INVARIANTS
    QueueIsWindow
PROPERTIES
    ImplementsFeed
    CatchesUp

\* Two clients whose requests overlap, with the liveness properties.
CONSTANTS
    Clients = {c1, c2}
    Tasks = {t1, t2, t3}
    NoTask = NoTask
SPECIFICATION FairSpec
INVARIANTS
    TypeOK
    BusyHasOwner
    SessionIsExclusive
    StatusNamesSession
PROPERTIES
    ImplementsView
    ConnectingEnds
    StopReturns

\* Hosts that answer, fail or say nothing; every output of up to two chips.
CONSTANTS
    Hosts = {a, b}
    Missing = Missing
    MaxChips = 2
    Rounds = 3
SPECIFICATION FairSpec
INVARIANTS
    PortInUseIsRead
    EventIsFresh
PROPERTIES
    KeepsPublishing

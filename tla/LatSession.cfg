\* Two samples, up to two cancels at any await. The session really ends.
CONSTANTS
    Iterations = 2
    MaxCancels = 2
SPECIFICATION FairSpec
INVARIANTS
    ReapsWhatItHolds
    OnlyDialFails
PROPERTIES
    EndIsClean
    KeepsContract
    EndsByItself
CHECK_DEADLOCK FALSE

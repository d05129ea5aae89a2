\* Counters of two bits, up to two bytes between two reads.
CONSTANTS
    Bidir = TRUE
    Modulus = 4
    MaxBytes = 2
SPECIFICATION Spec
INVARIANTS
    NeverOverstates
    SteadyIsExact

CONSTANTS
    Mutexes = {m1, m2, m3}
    Identities = {x}
    None = none
    Ttls <- MCTtls
    Horizon = 4
SYMMETRY Symmetry
SPECIFICATION Spec
INVARIANTS
    LeaseKept
PROPERTIES
    IntrusionReported
    RefinesLeaseLock

CONSTANTS
    Mutexes = {m1, m2, m3}
    Identities = {x}
    None = none
    Ttls <- OneTtl
    Horizon = 4
CONSTRAINT TwoUnplain
SYMMETRY Symmetry
SPECIFICATION Spec
PROPERTIES
    IntrusionReported
    RefinesLeaseLock

CONSTANTS
    Mutexes = {m1, m2, m3}
    Identities = {x}
    None = none
    Ttls <- OneTtl
    PurgeAfter = 1
    Horizon = 3
CONSTRAINT TwoShared
SYMMETRY Symmetry
SPECIFICATION Spec
PROPERTIES
    LiveDocNotOverwritten
    RefinesLeaseLock

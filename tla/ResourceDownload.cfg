CONSTANTS
    Calls = {c1, c2}
    None = none
    MaxBytes = 2
    DataMaxBytes = 2
    Chunk = 2
    Piece = 2
    Sizes <- MCSizes
    Endless = 5
CONSTRAINT OneSmall
SPECIFICATION Spec
INVARIANTS
    WholeContent
    ReportIsTrue
    RefusalIsTrue
    NothingLeft
PROPERTIES
    CallSettles
CHECK_DEADLOCK FALSE

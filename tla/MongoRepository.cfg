CONSTANTS
    a = a
    b = b
    x = x
    t = t
    u = u
    Callers = {a, b, x}
    Tenants = {t, u}
    TenantOf <- MCTenantOf
    Hard = {x}
    None = none
    MaxTime = 3
SPECIFICATION Spec
PROPERTIES
    OptimisticLock
    ConflictIsReal
    DeletedStaysDeleted
    TenantWalls
    RefinesRegister
SYMMETRY Symmetry
CONSTRAINT Bound

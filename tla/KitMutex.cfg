CONSTANTS
    Mutexes = {t1, t2, t3}
    Identities = {}
    None = none
    Ttls <- MCTtls
    DefaultTtl = 2
    Spin = 1
    Horizon = 4
SPECIFICATION KitSpec
INVARIANTS
    CleanCallWasAlone
    NoLockLeftBehind
    OneActionInLease
    NoOversleep
PROPERTIES
    CallSettles
CHECK_DEADLOCK FALSE

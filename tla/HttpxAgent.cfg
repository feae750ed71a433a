CONSTANTS
    Handlers = {root, a}
    Root = root
    None = none
    Retrying = {root, a}
    Discovering = {root}
    Streaming = {a}
    MaxAttempts = 2
    BaseDelay = 1
    MaxDelay = 2
    Ms = 2
    Quota = 2
    Default = 2
    MaxTimeout = 1
    Budget = 2
SPECIFICATION Spec
INVARIANTS
    DownstreamBudget
    OneClientPerCall
    NoWastedBackoff
PROPERTIES
    LateOnlyBehindResolver
    CallSettles

CONSTANTS
    Handlers = {root}
    Root = root
    None = none
    Retrying = {root}
    Discovering = {}
    Streaming = {}
    MaxAttempts = 2
    BaseDelay = 1
    MaxDelay = 2
    Ms = 2
    Quota = 3
    Default = 2
    MaxTimeout = 1
    Budget = 3
SPECIFICATION SafetySpec
PROPERTIES
    NetworkErrorRetried

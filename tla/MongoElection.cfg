CONSTANTS
    Nodes = {a, b}
    Willing = {a}
    Beating = {a}
    Listening = {a}
    None = none
    Lease = 3
    Timeout = 2
    MinInterval = 1
    PurgeAfter = 1
    MaxAge = 1
    MaxFails = 1
SPECIFICATION Spec
PROPERTIES
    RefinesLeaderLease
    ClosedNodeFades
    Failover

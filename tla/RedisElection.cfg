CONSTANTS
    Nodes = {a, b}
    Willing = {a}
    Beating = {a}
    Listening = {a}
    NoNode = none
    UnhealthyTime = 3
    Timeout = 2
    MinInterval = 1
    MaxFails = 1
SPECIFICATION ElectionSpec
INVARIANTS
    ClosedNodeIsGone
PROPERTIES
    RefinesLeaderLease
    OneMissKeepsLeader
    Failover
    TruthIsTold

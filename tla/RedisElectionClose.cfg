CONSTANTS
    Nodes = {a}
    Willing = {a}
    Beating = {a}
    Listening = {a}
    NoNode = none
    UnhealthyTime = 3
    Timeout = 2
    MinInterval = 1
    MaxFails = 0
SPECIFICATION ElectionSafetySpec
INVARIANTS
    LoopEndsWithClose

SPECIFICATION FairSpec
CONSTANTS
    Workers = {w1, w2}
    Coros = {c1, c2}
    SelfOwned = {c1, c2}
    None = None
    Quantum = 1
    MaxCost = 2
    Delays = {1, 2}
    MaxTime = 2
PROPERTIES CorosServed StopReaches
CHECK_DEADLOCK FALSE

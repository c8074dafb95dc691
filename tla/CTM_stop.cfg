SPECIFICATION FairSpec
CONSTANTS
    Workers = {w1}
    Coros = {c1}
    SelfOwned = {c1}
    None = None
    Quantum = 1
    MaxCost = 2
    Delays = {0}
    MaxTime = 0
PROPERTIES StopTerminates
CHECK_DEADLOCK FALSE

SPECIFICATION Spec
CONSTANTS
    Workers = {w1, w2}
    Coros = {c1, c2}
    SelfOwned = {c1}
    None = None
    Quantum = 1
    MaxCost = 2
    Delays = {0, 1}
    MaxTime = 1
INVARIANTS OnePlace RunningCorosExact WorkConserving
PROPERTIES TimerOrder ImplementsPool
CHECK_DEADLOCK FALSE

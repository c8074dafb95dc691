SPECIFICATION Together
CONSTANTS
    LastId = 2
    Created = 3
    Http = {h1}
    Pool = {w1}
    None = None
    Ops = {"set_sentence", "orphan"}
    AdoptSelf = FALSE
    Trees <- Chain
    MaxPending = 2
INVARIANT NoDeadlock
SYMMETRY Symmetry
CHECK_DEADLOCK FALSE

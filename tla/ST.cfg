SPECIFICATION MCSpec
CONSTANTS
    LastId = 2
    Created = 3
    Http = {h1, h2}
    Pool = {}
    None = None
    Ops = {"dump", "set_sentence", "set_antidists", "orphan", "reparent", "destroy"}
    AdoptSelf = FALSE
    Trees <- Trio
    MaxPending = 1
INVARIANTS Forest LinksAgree CirclesGoUp ClientKeepsChildren
SYMMETRY Symmetry
CHECK_DEADLOCK FALSE

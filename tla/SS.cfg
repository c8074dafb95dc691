SPECIFICATION Spec
CONSTANTS
    a = a
    b = b
    Root = root
    Steps = {root, a, b}
    None = None
    Reloader = reloader
    Sentences = {x, bad}
    Parsing = {x}
    Antidists = {d1, d2}
    LastPriority = 1
    Strats = {1, 2, 3}
    Workers = 1
    Trees <- Forests
    MaxEdits = 2
INVARIANTS CurrentDataOnly SnapshotFits StatusAnnounced
PROPERTIES Settles
CHECK_DEADLOCK FALSE

SPECIFICATION Spec
CONSTANTS
    Nodes = {0, 1, 2, 3}
    Root = 0
    None = None
    Shapes <- TwoNodes
    MaxClicks = 4
    MaxLost = 1
    Conns = {c1, c2}
    Users = {u1}
    Guest = guest
    NoSession = noSession
    MaxWorksets = 2
    MaxChunks = 3
    MaxPostChunks = 1
INVARIANTS TreesAgree PatienceRewarded
INVARIANTS TicketGrantsOnce PostDataComplete HealthyServerStaysUp
PROPERTY IdsNeverReused
SYMMETRY Alike
CHECK_DEADLOCK FALSE

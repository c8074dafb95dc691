SPECIFICATION FeedSpec
CONSTANTS
    Steps = {s1}
    Clients = {c1, c2}
    MaxUpdates = 2
    MaxLost = 1
INVARIANTS StaleViewsArePursued
PROPERTIES ViewCatchesUp
CHECK_DEADLOCK FALSE

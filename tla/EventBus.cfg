SPECIFICATION BusFairSpec
CONSTANTS
    Threads = {t1, t2}
    MaxSubscriptions = 2
    MaxPublished = 3
    MaxDepth = 2
INVARIANTS
    BusSafe
PROPERTIES
    BusProgress
CHECK_DEADLOCK FALSE

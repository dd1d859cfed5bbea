SPECIFICATION FairSpec
CONSTANTS
    Sessions = {a, b}
    Workers = {w1, w2}
    Stoppers = {c1}
    MaxPendingPerSession = 2
    MaxPendingTotal = 2
    MaxTurns = 3
    Timed = {1}
    NoSession = none
INVARIANTS
    TypeOK
    PromiseOnce
    LaneOrder
    PendingAccounting
    StopReachesEveryTurn
PROPERTIES
    ImplementsTurnLanes
    Progress

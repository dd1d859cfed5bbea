SPECIFICATION FairSpec
CONSTANTS
    Ids = {i1}
    Workers = {w1, w2}
    Callers = {c1}
    MaxSessions = 2
    MaxPendingStarts = 1
    MaxPendingNotifications = 2
    Observed = TRUE
    MaxGenerations = 1
INVARIANTS
    ManagerSafe
    StopReachesSession
PROPERTIES
    StoryForward
    SessionsKeepContract
    ImplementsAdmissions
    Progress

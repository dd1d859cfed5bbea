SPECIFICATION FairSpec
CONSTANTS
    MaxEvents = 2
    MaxPendingNotifications = 2
    Flushers = {f1}
    MaxAppends = 4
INVARIANTS
    TimelineSafe
    GapsReported
PROPERTIES
    Progress
CHECK_DEADLOCK FALSE

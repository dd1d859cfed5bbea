SPECIFICATION ReaperSpec
CONSTANTS
    Ids = {i1, i2}
    Workers = {w1}
    Callers = {}
    MaxSessions = 2
    MaxPendingStarts = 1
    MaxPendingNotifications = 1
    Observed = FALSE
    MaxGenerations = 2
INVARIANTS
    Membership
PROPERTIES
    CancelledReservationRetires

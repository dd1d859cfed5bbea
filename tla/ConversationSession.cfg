SPECIFICATION FairSpec
CONSTANTS
    Starters = {s1, s2}
    Stoppers = {p1}
    Callers = {c1, c2}
    MaxEvents = 2
INVARIANTS
    SessionSafe
PROPERTIES
    ImplementsLifecycle
    Progress
CHECK_DEADLOCK FALSE

SPECIFICATION FairSpec
CONSTANTS
    MaxOutputMessages = 2
    LivenessTimeout = 2
    MaxIncarnations = 3
    MaxOutputs = 3
    MaxClock = 2
INVARIANTS
    VoiceSafe
PROPERTIES
    FreshIncarnation
    Progress

SPECIFICATION FairSpec
CONSTANTS
    Apps = {a1}
    ServerVad = FALSE
    MaxInputFrames = 1
    MaxResponses = 2
    MaxSamples = 2
    MaxSpeech = 1
INVARIANTS
    DuplexSafe
    CancelExact
PROPERTIES
    Progress
CHECK_DEADLOCK FALSE

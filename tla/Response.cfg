SPECIFICATION FairSpec
CONSTANTS
    MaxSteps = 2
    MaxAttempts = 2
    RetryHttp = TRUE
    Deltas <- MCDeltas
    MaxText = 6
    MaxCalls = 2
    MaxSpans = 7
    MinCharacters = 2
    TargetCharacters = 3
    HardMaxCharacters = 3
    Capacity = 1
    MaxChunks = 8
    MaxFrames = 2
INVARIANTS
    ResponseSafe
    HistoryAtomic
    TextIntact
    CompletedMeansSpoken
    SpansSettled
PROPERTIES
    DoneFences
    CancelStops
    Progress

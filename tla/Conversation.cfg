SPECIFICATION FairSpec
CONSTANTS
    MaxAudioFrames = 1
    MaxPending = 1
    MaxTurns = 3
    MaxInterrupts = 1
INVARIANTS
    PipelineSafe
    InterruptExact
PROPERTIES
    Progress

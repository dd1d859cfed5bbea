SPECIFICATION FairSpec
CONSTANTS
    Capacity = 1
    MaxChunks = 3
    MaxFrames = 1
PROPERTIES
    InterruptUnblocks
CHECK_DEADLOCK FALSE

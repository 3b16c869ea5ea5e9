SPECIFICATION FairSpec
CONSTANTS
    ClipLists <- MCClipLists
    PipeLen = 2
    MaxSources = 2
    MaxSpeeds = 1
    Patient = FALSE
    NULL = NULL
INVARIANTS
    StopReturnsToIdle

SPECIFICATION MCSpec
CONSTANTS
    ClipLists <- MCClipLists
    PipeLen = 2
    MaxSources = 3
    MaxSpeeds = 1
    Patient = TRUE
    NULL = NULL
    Cameras <- MCCameras
    Deltas <- MCDeltas
    MaxFrames = 2
    MaxCommands = 3
    MaxObjects = 6
INVARIANTS
    SourceOwnedOnce
    ProgramInOrder
    SoundFollowsPicture
    SpeedSetBeforeRollApplies
    PortKeepsPictures
    NeverSleepsOnWork
PROPERTIES
    StillContinuesProgram
    CommandTakesEffect
    PreviewSettles

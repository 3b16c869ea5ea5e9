SPECIFICATION MCSpec
CONSTANTS
    NSources = 2
    Row = 1
    DialSize = 256
    MaxEvents = 2
    MaxSent = 2
    MaxClicks = 2
    SeekStep = 3
    MaxFrame = 9
    Pictures = 8
    PacketSamples = 1024
    SoundPackets = 13
    MaxFrames = 8
    CueFiles = {"one", "other"}
    MaxLoads = 3
    Slots = 1
    AudioRoom = 1
    Lead = 3
    Recorded = 4
    MaxRecorded = 6
    Starts = {1, 3, 4}
    Turns = {1, 4, 5, 8, 12}
    ChannelNos = {1, 2}
    MaxRead = 4
    MaxChanges = 2
CHECK_DEADLOCK FALSE
INVARIANTS
    SoundGoesWithPicture
    ShotPlayedExactly
    SoundKeepsStep
    NoCrossedWait
PROPERTIES
    ListCatchesUp
    CueSettles
    SourceReturns

SPECIFICATION MCSpec
CONSTANTS
    NSources = 2
    Row = 1
    DialSize = 256
    MaxEvents = 2
    MaxSent = 2
    MaxClicks = 2
    SeekStep = 3
    MaxFrame = 9
    Pictures = 8
    PacketSamples = 1024
    SoundPackets = 13
    MaxFrames = 8
    CueFiles = {"one", "other"}
    MaxLoads = 3
    Slots = 1
    AudioRoom = 1
    Lead = 3
    Recorded = 1
    MaxRecorded = 1
    Starts = {0}
    Turns = {1}
    ChannelNos = {1}
    MaxRead = 0
    MaxChanges = 0
CHECK_DEADLOCK FALSE
INVARIANTS
    RollQueueRollsAll

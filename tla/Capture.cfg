SPECIFICATION MCSpec
CONSTANTS
    IN_PIPE_SIZE = 3
    Deliveries <- MCDeliveries
    MaxPictures = 7
    AvpAudioRoom = 1
    Preroll = 1
    PreviewSlots = 1
    AvpLead = 1
    AvpPictures = 5
    PARSE_BUF_SIZE = 15
    Slots = 1
    MaxRead = 3
    BUFSIZE = 11
    KernelRoom = 5
    MaxImages = 4
    n_buffers = 2
    PipeSlots = 2
    MaxShots = 5
CHECK_DEADLOCK FALSE
INVARIANTS
    SoundWithinOne
    SoundWillCome
    ChildNotStarved
    SlicesWhole
    PicturesWhole
PROPERTIES
    ChildFed
    WorkerStops
    ImagesRecordedInOrder

SPECIFICATION MCSpec
CONSTANTS
    p1 = p1
    c1 = c1
    a = a
    b = b
    NULL = NULL
    BufLen = 4
    Producers <- MCProducers
    Consumers <- MCConsumers
    Items <- MCItems
    MaxTries = 2
    MaxFrames = 4
INVARIANTS
    PolledNeverBlocks
    NoLostWakeup
    NoTornFrame
    FlipReportExact
PROPERTIES
    ImplementsChannel
    CallsReturn
    FramesInOrder
    CompletedFrameShown
\* every thread may have left or been told BrokenPipe; the consumer waits
\* for ever if the child died with the semaphore
CHECK_DEADLOCK FALSE

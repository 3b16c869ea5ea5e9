SPECIFICATION Spec
CONSTANTS
    OUT_PIPE_SIZE = 2
    PREROLL = 1
    MaxAdjust = 2
    Programs <- MCPrograms
    Frames = {0, 2}
    Levels = {0, 1}
INVARIANTS TypeOK KeyedWithinOneOverlay
PROPERTIES KeyerGoesOn DissolveEnds
CHECK_DEADLOCK FALSE

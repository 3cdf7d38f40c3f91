SPECIFICATION FairSpec
CONSTANTS
    LoopSize = 3
    AttemptMod = 4
    LowMemory = FALSE
PROPERTIES
    ReconnectsForever
CHECK_DEADLOCK FALSE

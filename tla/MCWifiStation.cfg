SPECIFICATION ReachableSpec
CONSTANTS
    LoopSize = 3
    AttemptMod = 4
    LowMemory = TRUE
INVARIANTS
    TypeOK
    IpBitFollowsLease
    SoleConnector
    BackoffFollowsFailures
PROPERTIES
    ReconnectsIfPrompt
    MainProceeds
    StatusCatchesUp
CHECK_DEADLOCK FALSE

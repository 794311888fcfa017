SPECIFICATION FairSpec
CONSTANTS
    Chunks = 4
    Window = 3
    RefillAt = 2
    HighWater = 1
    Links = {"p2p"}
    MayDrop = TRUE
    Cancels = {}
    SinkFails = FALSE
PROPERTIES
    BothEnd
CHECK_DEADLOCK FALSE

SPECIFICATION FairSpec
CONSTANTS
    Chunks = 7
    Window = 3
    RefillAt = 2
    HighWater = 1
    Links = {"p2p", "relay"}
    MayDrop = TRUE
    Cancels = {"sender", "receiver"}
    SinkFails = TRUE
INVARIANTS
    WindowHolds
    VerifiedMeansWritten
    ConfirmationHeard
PROPERTIES
    BothReleased
CHECK_DEADLOCK FALSE

SPECIFICATION FairSpec
CONSTANTS
    MaxFaults = 1
    Cancels = TRUE
INVARIANTS
    TypeOK
    LinksAgree
    NothingDropped
    PayloadTrusted
    AuthTold
PROPERTIES
    SetupEnds
CHECK_DEADLOCK FALSE

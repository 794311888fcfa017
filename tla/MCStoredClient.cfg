SPECIFICATION FairSpec
CONSTANTS
    Sizes = {0, 2, 3}
    ChunkSize = 2
    PartSize = 3
    MaxFaults = 2
    MaxTorn = 1
INVARIANTS
    TypeOK
    UploadExact
    FailureLeavesNothing
    RetrySurvives
    DeliveredWhole
PROPERTIES
    ClientsEnd
CHECK_DEADLOCK FALSE

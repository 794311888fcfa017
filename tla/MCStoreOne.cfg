SPECIFICATION FairSpec
CONSTANTS
    Ids = {a}
    Codes = {x}
    Ips = {p}
    MaxReadsLimit = 2
    MaxFile = 2
    Quota = 2
    MaxUncommitted = 1
    MaxQueue = 2
    Ages = {"idle", "stale", "past"}
    LiveCodes = {x}
    Faults = {}
    MaxFaults = 0
    None = None
    Live = Live
    Restored = Restored
INVARIANTS
    TypeOK
    BlobExact
    ReadBudget
    CollectedIsGone
PROPERTIES
    CommittedFrozen
    ReaderUndisturbed
    ImplementsTransfer
    TimeEndsThem
CHECK_DEADLOCK FALSE

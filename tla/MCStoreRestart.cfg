SPECIFICATION RSpec
CONSTANTS
    Ids = {a, b}
    Codes = {x}
    Ips = {p}
    MaxReadsLimit = 1
    MaxFile = 1
    Quota = 3
    MaxUncommitted = 1
    MaxQueue = 1
    Ages = {}
    LiveCodes = {}
    Faults = {"load"}
    MaxFaults = 1
    MaxCrashes = 1
    None = None
    Live = Live
    Restored = Restored
SYMMETRY Symmetry
INVARIANTS
    CodesConsistent
    BothFilesFound
PROPERTIES
    PublishedNeverRewritten
CHECK_DEADLOCK FALSE

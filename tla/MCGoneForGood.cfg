SPECIFICATION RSpec
CONSTANTS
    Ids = {a}
    Codes = {x}
    Ips = {p}
    MaxReadsLimit = 1
    MaxFile = 1
    Quota = 3
    MaxUncommitted = 1
    MaxQueue = 1
    Ages = {}
    LiveCodes = {}
    Faults = {}
    MaxFaults = 0
    MaxCrashes = 1
    None = None
    Live = Live
    Restored = Restored
INVARIANTS
    GoneForGood
CHECK_DEADLOCK FALSE

SPECIFICATION RSpec
CONSTANTS
    Ids = {a, b}
    Codes = {x, y}
    Ips = {p}
    MaxReadsLimit = 1
    MaxFile = 1
    Quota = 3
    MaxUncommitted = 1
    MaxQueue = 1
    Ages = {"past"}
    LiveCodes = {}
    Faults = {}
    MaxFaults = 0
    MaxCrashes = 1
    None = None
    Live = Live
    Restored = Restored
INVARIANTS
    CountedAfterBoot
CHECK_DEADLOCK FALSE

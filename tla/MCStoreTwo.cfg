SPECIFICATION Spec
CONSTANTS
    Ids = {a, b}
    Codes = {x, y}
    Ips = {p}
    MaxReadsLimit = 1
    MaxFile = 1
    Quota = 2
    MaxUncommitted = 2
    MaxQueue = 1
    Ages = {}
    LiveCodes = {}
    Faults = {"create", "append", "save", "remove"}
    MaxFaults = 1
    None = None
    Live = Live
    Restored = Restored
SYMMETRY Symmetry
INVARIANTS
    SlotExact
    NeverUndercounted
CHECK_DEADLOCK FALSE

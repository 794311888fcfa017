SPECIFICATION GuardSpec
CONSTANTS
    Codes = {x, y}
    Ips = {p, q}
    AttemptsPerIp = 2
    Window = 2
    FailuresPerCode = 2
    MaxClock = 4
    MaxKept = 4
SYMMETRY Symmetry
INVARIANTS
    OnlyFailuresCount
    OneBudget
CHECK_DEADLOCK FALSE

SPECIFICATION Spec
CONSTANTS
    Codes = {x, y}
    Ips = {p, q}
    AttemptsPerIp = 1
    Window = 1
    FailuresPerCode = 1
    MaxClock = 0
    MaxKept = 2
    Sockets = {a, b, c}
    None = None
    RoomsPerIp = 1
    SocketsPerIp = 2
    MaxBuffer = 1
    MaxBacklog = 1
SYMMETRY Symmetry
INVARIANTS
    TypeOK
    RoomsConsistent
    ChargedExactly
PROPERTIES
    RelayedWithinPair
    NobodyLeftWaiting
    ImplementsGuard
CHECK_DEADLOCK FALSE

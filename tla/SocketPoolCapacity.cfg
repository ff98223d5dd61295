SPECIFICATION Spec
CONSTANTS
    Conn = {c1, c2, c3}
    Fd = {f1, f2, f3}
    Poller = poller
    Workers = {w1}
    Setters = {}
    Removers = {}
    ClosesPooled = FALSE
    HasTimeout = TRUE
    Interests <- OneInterest
    Capacity = 1
    PipeCap = 2
    BufSize = 2
    NoConn = NoConn
    NoFd = NoFd
    NoThread = NoThread
    NoEntry = NoEntry
SYMMETRY Symmetry
INVARIANT PoolWithinCapacity
CHECK_DEADLOCK TRUE

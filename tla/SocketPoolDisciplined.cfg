SPECIFICATION Spec
CONSTANTS
    Conn = {c1, c2, c3}
    Fd = {f1, f2}
    Poller = poller
    Workers = {w1}
    Setters = {w1}
    Removers = {}
    ClosesPooled = FALSE
    HasTimeout = TRUE
    Interests <- BothInterests
    Capacity = 1
    PipeCap = 3
    BufSize = 2
    NoConn = NoConn
    NoFd = NoFd
    NoThread = NoThread
    NoEntry = NoEntry
SYMMETRY Symmetry
INVARIANT SnapshotValid
INVARIANT ResultsHold
INVARIANT IdsExclusive
CHECK_DEADLOCK TRUE

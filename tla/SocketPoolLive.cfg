SPECIFICATION LiveSpec
CONSTANTS
    Conn = {c1, c2}
    Fd = {f1, f2}
    Poller = poller
    Workers = {w1}
    Setters = {}
    Removers = {}
    ClosesPooled = FALSE
    HasTimeout = FALSE
    Interests <- BothInterests
    Capacity = 1
    PipeCap = 2
    BufSize = 2
    NoConn = NoConn
    NoFd = NoFd
    NoThread = NoThread
    NoEntry = NoEntry
PROPERTY AddedIsPolled
PROPERTY ReadyIsReported
PROPERTY WakeupsQuiesce
CHECK_DEADLOCK TRUE

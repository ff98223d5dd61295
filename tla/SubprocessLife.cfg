SPECIFICATION Spec
CONSTANTS
    Object = {o1, o2}
    Pid = {p1, p2}
    Child = {k1, k2, k3}
    Modes <- SomeModes
    NoPid = NoPid
    NoChild = NoChild
    NoProc = NoProc
    Other = Other
SYMMETRY Symmetry
INVARIANT NoLostChild
INVARIANT HandleOwns
INVARIANT TerminalsOnly
PROPERTY TerminatesOnlyStale
PROPERTY AbandonedStays
CHECK_DEADLOCK FALSE

SPECIFICATION Spec
CONSTANTS
    Object = {o1, o2}
    Pid = {p1, p2}
    Child = {k1, k2, k3}
    Modes <- SomeModes
    NoPid = NoPid
    NoChild = NoChild
    NoProc = NoProc
    Other = Other
SYMMETRY Symmetry
INVARIANT NotRunMeansNotRun
CHECK_DEADLOCK FALSE

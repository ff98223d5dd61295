SPECIFICATION Spec
CONSTANTS
    Unique = {u1, u2}
    Shared = {s1, s2}
    Cell = {c1, c2, c3}
    Number <- Numbers
    File = {f1, f2, f3, f4}
    NoCell = NoCell
    NoFile = NoFile
SYMMETRY Symmetry
INVARIANT OwnedOnce
INVARIANT NothingLost
INVARIANT FailureExplained
PROPERTY SharedStaysOpen
CHECK_DEADLOCK FALSE

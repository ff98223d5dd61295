SPECIFICATION Spec
CONSTANTS
    Size = 3
    MaxIn = 6
    MaxOut = 6
    MaxOpens = 2
    LikeEof = {2, 4}
    HalfDuplex = TRUE
    MovesUsed = FALSE
    ShortWrites = FALSE
    ReadErrors = FALSE
    WriteErrors = FALSE
INVARIANT InputInOrder
INVARIANT OutputInOrder
INVARIANT EachItsOwn
PROPERTY ImplementsChannel
CHECK_DEADLOCK FALSE

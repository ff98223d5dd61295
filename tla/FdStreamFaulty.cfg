SPECIFICATION Spec
CONSTANTS
    Size = 2
    MaxIn = 1
    MaxOut = 3
    MaxOpens = 1
    LikeEof = {1}
    HalfDuplex = FALSE
    MovesUsed = TRUE
    ShortWrites = TRUE
    ReadErrors = TRUE
    WriteErrors = TRUE
CONSTRAINT Bounded
INVARIANT TypeOK
INVARIANT OutputCounted
CHECK_DEADLOCK FALSE

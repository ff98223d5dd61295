SPECIFICATION LiveSpec
CONSTANTS
    Server = {s1, s2}
    Worker = {w1, w2}
    Home <- Homes
    s1 = s1
    s2 = s2
    w1 = w1
    w2 = w2
    Client = {c1, c2}
    Connects = 2
    NoServer = NoServer
    NoClient = NoClient
INVARIANT StopBound
INVARIANT PathExplained
INVARIANT LostAnswerBlocksPath
PROPERTY StopNoticed
PROPERTY ClientsTold
CHECK_DEADLOCK FALSE

SPECIFICATION Spec
CONSTANTS
    Symbol <- SomeSymbols
    Decimals <- SomeDecimals
    Requests <- SomeRequests
    Responses <- SomeResponses
    MaxSent = 3
INVARIANT AcceptedIsWritten
INVARIANT EndIsClean
INVARIANT SplitIsExact
CHECK_DEADLOCK FALSE

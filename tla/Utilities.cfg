SPECIFICATION Spec
CONSTANTS
    Key = {1, 2, 3}
    MaxSize = 4
    CmpThrows = TRUE
    Bytes = {65, 37, 10, 200}
    MaxText = 3
    Junk = {0, 7}
    Commands <- Declared
    NoRest = NoRest
    Args <- Typed
    MaxArgs = 4
    Numerals <- Seven
    Holders = {x, y}
    Scalars <- Tokens
    Rounded <- OneDecimal
    Contents <- Letters
    Labels <- Keyword
    MaxNodes = 4
    MaxOthers = 0
    MaxDepth = 7
    Highest = 3
    Indent = 2
SYMMETRY Symmetry
INVARIANT InOrder
INVARIANT SearchIsExact
INVARIANT NothingForgotten
INVARIANT DecodesWhatItEncoded
INVARIANT VerdictExplained
INVARIANT RoundTrip
INVARIANT DepthLimits
INVARIANT CrashNeedsAHole
CHECK_DEADLOCK FALSE

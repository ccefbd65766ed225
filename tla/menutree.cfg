CONSTANTS
    A = A
    B = B
    C = C
    CH = CH
    None = None
    Symbols = {A, B, C}
    ChoiceSet = {CH}
    Statements <- MCStatements
    Tristates = {C, CH}
    Modules = A
    Files = {"sub"}
    MaxNodes = 5
SPECIFICATION TreeSpec
INVARIANTS
    DepsArePropagated
    TreeIsInFileOrder
    DefaultsInFileOrder
    NoWrittenLoopIsMissed
    MarkedInOrder
    NoLoopIsDropped
    LoopIsReal
CHECK_DEADLOCK FALSE

CONSTANTS
    A = A
    B = B
    C = C
    CH = CH
    None = None
    Symbols = {A, B, C}
    ChoiceSet = {CH}
    Statements <- MCChoiceStatements
    Tristates = {}
    Modules = B
    Files = {}
    MaxNodes = 5
SPECIFICATION TreeSpec
CONSTRAINT ChoiceIsDefinedOnce
INVARIANT EvaluationEnds
CHECK_DEADLOCK FALSE

SPECIFICATION InputSpec
CONSTANTS
    M = M
    A = A
    B = B
    C = C
    D = D
    P = P
    Q = Q
    Ch = Ch
    None = None
    Absent = Absent
    Syms = {M, A, B, C, D, P, Q}
    Choices = {Ch}
    OrigType <- MixedType
    Prompts <- MixedPrompts
    Defaults <- MixedDefaults
    RevDep <- MixedRev
    WeakRevDep <- MixedWeak
    DirectDep <- MixedDirect
    ChoiceOf <- MixedChoiceOf
    ChoiceSyms <- PQ
    IsOptional <- MixedOptional
    Exprs <- MixedExprs
    Modules = M
    Observed = {}
    AttrValue <- TreeValue
    AttrReads <- TreeReads
    Dependents <- MCDependents
    HasPrompt <- MCHasPrompt
    Given <- MixedGiven
    SymOrder <- MixedOrder
    LoadKinds = {}
INVARIANTS
    RoundTrip
    AssignableIsRespected
    ChoiceIsExclusive

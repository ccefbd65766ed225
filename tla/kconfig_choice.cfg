SPECIFICATION Spec
CONSTANTS
    M = M
    A = A
    B = B
    C = C
    D = D
    P = P
    Q = Q
    Ch = Ch
    None = None
    Absent = Absent
    Syms = {M, D, P, Q}
    Choices = {Ch}
    OrigType <- ChoiceTreeType
    Prompts <- ChoicePrompts
    Defaults <- ChoiceDefaults
    RevDep <- ChoiceNoSelect
    WeakRevDep <- ChoiceNoSelect
    DirectDep <- ChoiceDirect
    ChoiceOf <- ChoiceChoiceOf
    ChoiceSyms <- PQ
    IsOptional <- ChoiceOptional
    Exprs <- ChoiceExprs
    Modules = M
    Observed = {P}
    AttrValue <- TreeValue
    AttrReads <- TreeReads
    Dependents <- MCDependents
    HasPrompt <- MCHasPrompt
    Given <- ChoiceGiven
    SymOrder <- ChoiceOrder
    LoadKinds = {"replace"}
INVARIANTS
    CacheCoherent
    ReadsAreRegistered

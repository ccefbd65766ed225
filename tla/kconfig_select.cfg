SPECIFICATION Spec
CONSTANTS
    M = M
    A = A
    B = B
    C = C
    D = D
    P = P
    Q = Q
    Ch = Ch
    None = None
    Absent = Absent
    Syms = {M, A, B, C, D}
    Choices = {}
    OrigType <- SelectType
    Prompts <- SelectPrompts
    Defaults <- SelectDefaults
    RevDep <- SelectRev
    WeakRevDep <- SelectWeak
    DirectDep <- SelectDirect
    ChoiceOf <- SelectChoiceOf
    ChoiceSyms <- NoChoices
    IsOptional <- NoChoices
    Exprs <- SelectExprs
    Modules = M
    Observed = {D}
    AttrValue <- TreeValue
    AttrReads <- TreeReads
    Dependents <- MCDependents
    HasPrompt <- MCHasPrompt
    Given <- SelectGiven
    SymOrder <- SelectOrder
    LoadKinds = {"merge", "replace"}
INVARIANTS
    LocallyCoherent
    CacheCoherent
    ReadsAreRegistered

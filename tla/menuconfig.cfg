SPECIFICATION MenuSpec
CONSTANTS
    M = M
    A = A
    O = O
    P = P
    Q = Q
    Ch = Ch
    None = None
    Absent = Absent
    Syms = {M, A, O, P, Q}
    Choices = {Ch}
    OrigType <- MCType
    Prompts <- MCPrompts
    Defaults <- MCDefaults
    RevDep <- MCNoDep
    WeakRevDep <- MCNoDep
    DirectDep <- MCDirect
    ChoiceOf <- MCChoiceOf
    ChoiceSyms <- MCMembers
    IsOptional <- MCOptional
    Exprs <- MCExprs
    Modules = M
    Observed = {}
    AttrValue <- TreeValue
    AttrReads <- TreeReads
    Dependents <- MCDependents
    HasPrompt <- MCHasPrompt
    Given <- MCGiven
    SymOrder <- MCOrder
    LoadKinds = {}
    NodeOrder <- MCNodeOrder
    ItemOf <- MCItemOf
    PromptCond <- MCPromptCond
    VisibleIf <- MCVisibleIf
    ParentOf <- MCParentOf
    IsMenuconfig <- MCMenus
    Terminals = {9, 11}
    Names = {"config"}
    StdName = "config"
    InitFiles <- MCInitFiles
    CutLines = {1}
    Searches = {{}, {"P", "Q"}}
    SearchOrder <- MCSearchOrder
    ScrollOffset = 5
    MaxStray = 2
INVARIANTS
    NoLookupFails
    ScreenIsCurrent
    NoChangeIsLost
PROPERTIES
    MainListRefines
    MatchListRefines

SPECIFICATION GuiSpec
CONSTANTS
    M = M
    A = A
    O = O
    P = P
    None = None
    Absent = Absent
    Syms = {M, A, O, P}
    Choices = {}
    OrigType <- MCType
    Prompts <- MCPrompts
    Defaults <- MCDefaults
    RevDep <- MCNoDep
    WeakRevDep <- MCNoDep
    DirectDep <- MCDirect
    ChoiceOf <- MCChoiceOf
    ChoiceSyms <- MCMembers
    IsOptional <- MCOptional
    Exprs <- MCExprs
    Modules = M
    Observed = {}
    AttrValue <- TreeValue
    AttrReads <- TreeReads
    Dependents <- MCDependents
    HasPrompt <- MCHasPrompt
    Given <- MCGiven
    SymOrder <- MCOrder
    LoadKinds = {}
    NodeOrder <- MCNodeOrder
    ItemOf <- MCItemOf
    PromptCond <- MCPromptCond
    VisibleIf <- MCVisibleIf
    ParentOf <- MCParentOf
    IsMenuconfig <- MCMenus
    Names = {"config"}
    StdName = "config"
    InitFiles <- MCInitFiles
    CutLines = {1}
    Searchable = {"A", "C"}
INVARIANTS
    TreeIsCurrent
    NoChangeIsLost
PROPERTIES
    
    SelectionIsOnARow

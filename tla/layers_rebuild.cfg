SPECIFICATION Spec
CONSTANTS
    NumLayers = 2
    Tasks <- MCTasks2
    Depends <- MCDepends2
    RunAfter <- MCNone2
    Sources <- MCSources2
    CloneFirst = {}
    NoDependFile = {}
    ParallelLayers = FALSE
    OverlayFS = TRUE
    Jobs = 2
    MaxUpsets = 1
INVARIANTS
    TypeOK
    DoneIsFresh
    OverlayIsCurrent
    TrustedStampIsComplete
    SettlesAfterTwoRuns

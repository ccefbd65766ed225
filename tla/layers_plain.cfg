SPECIFICATION Spec
CONSTANTS
    NumLayers = 2
    Tasks <- MCTasks2
    Depends <- MCNone2
    RunAfter <- MCNone2
    Sources <- MCSources2
    CloneFirst = {1}
    NoDependFile = {}
    ParallelLayers = FALSE
    OverlayFS = FALSE
    Jobs = 2
    MaxUpsets = 2
INVARIANTS
    Serialised

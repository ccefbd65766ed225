SPECIFICATION FairSpec
CONSTANTS
    NumLayers = 3
    Tasks <- MCTasks
    Depends <- MCDepends
    RunAfter <- MCRunAfter
    Sources <- MCSources
    CloneFirst = {}
    NoDependFile = {3}
    ParallelLayers = TRUE
    OverlayFS = TRUE
    Jobs = 2
    MaxUpsets = 1
PROPERTIES
    RunAfterDoesNotRebuild
    MakeEnds

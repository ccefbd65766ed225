SPECIFICATION FairInvSpec
CONSTANTS
    AnyItems = {s1, s2, s3}
    ModulesItem = s1
INVARIANTS
    ReachesAll
    DepthIsBounded
PROPERTY Ends
CHECK_DEADLOCK FALSE

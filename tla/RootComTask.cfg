SPECIFICATION FairSpec
CONSTANTS
    c1 = c1
    c2 = c2
    Tasks = {c1, c2}
    ServerReps = {c2}
    NewTasks = {c1}
    InitialList <- TwoTasks
    NoTask = null
    Freed = freed
    Root = root
    Other = other
    OtherCycle = 2
    Intervals = {1}
    LockValues = {TRUE, FALSE}
    MayMoveOther = TRUE
INVARIANTS
    RootInv
    WalkOnExisting
    NotPastNextEvent
PROPERTIES
    ThreadGivenBack
    TasksServed

SPECIFICATION FairSpec
CONSTANTS
    Objects = {o1, o2, o3}
    NoObject = NoObject
    MaxTime = 2
    MaxSpan = 1
    AllowedJitter = 1
    MaxExceeds = 0
    MayBackdate = TRUE
    ClockJumps = TRUE
    ExecOption = TRUE
    RunValues = {TRUE, FALSE}
    Second = 4
    Half = 8
INVARIANTS
    QueueSorted
    ActiveIffQueued
    NextEventTimeIsOthers
    SleepsNotPastDue
PROPERTIES
    ImplementsTimedObjects
    DueEventRuns
    StopRequestEndsServer

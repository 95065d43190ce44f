SPECIFICATION FairTaskSpec
CONSTANTS
    p = p
    g = g
    u = u
    Tasks = {p, g, u}
    SchedulerTasks = {p}
    UserTasks = {u}
    Children <- Tree
    MaxTime = 3
    ClientModes <- SomeModes
    CycleTimes <- SomeCycles
    AlarmTimes <- SomeAlarms
    SupervisedValues <- SomeSupervised
    MaxEvents = 2
INVARIANTS
    TaskInv
PROPERTIES
    ExecutedInTime
    AlarmComes

SPECIFICATION FairSpec
CONSTANTS
    a = a
    b = b
    UrTask = ur
    ComTask = com
    NoTask = none
    Tasks = {ur, a, b}
    Blocks = {b}
    InitialLists <- Flat
    MaxTime = 3
    CycTimes = {2}
    ProcTimes <- UrTaskTimes
    ClientModes <- AllModes
INVARIANTS
    FbInv
    NoChildSkipped
PROPERTIES
    ClientsAreServed

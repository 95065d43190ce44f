SPECIFICATION FairWorkerSpec
CONSTANTS
    Elems = {e1, e2, e3}
    Channels = {c1}
    Null = null
    Starts = {1, 2}
    DeletedOpening = TRUE
INVARIANTS
    ListSound
    LastElementKept
PROPERTIES
    RequestAnswered
    MarkedAreFreed
CHECK_DEADLOCK FALSE

SPECIFICATION WorkerSpec
CONSTANTS
    Elems = {e1, e2, e3}
    Channels = {c1}
    Null = null
    Starts = {1}
    DeletedOpening = TRUE
INVARIANTS
    LastElementValid
CHECK_DEADLOCK FALSE

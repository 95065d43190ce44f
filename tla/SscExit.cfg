SPECIFICATION Spec
CONSTANTS
    i = i
    s = s
    e = e
    Steps = {i, s, e}
    NoStep = null
    InitStep = i
    EndStep = e
    Transitions <- ChainTransitions
    Commands = {"stop", "start", "break", "reset"}
    MayRename = FALSE
INVARIANTS
    ExitActionsExecuted

SPECIFICATION FairSpec
CONSTANTS
    i = i
    s = s
    e = e
    Steps = {i, s, e}
    NoStep = null
    InitStep = i
    EndStep = e
    Transitions <- LoopTransitions
    Commands = {"stop", "start", "break", "reset"}
    MayRename = TRUE
INVARIANTS
    OneActiveStep
    FlagOfActiveStep
    EntryOncePerActivation
PROPERTIES
    CommandsAreObeyed

SPECIFICATION FairSpec
CONSTANTS
    Callers = {"block", "task"}
    Timeouts <- MixedTimeouts
    MaxDepth = 3
INVARIANTS
    JumpTargetLive
    AbortedByOwnTimeout
PROPERTIES
    EndedByOwnerOnly
    ArmedTimeoutAborts
CHECK_DEADLOCK FALSE

SPECIFICATION Spec
CONSTANTS
    Callers = {"task"}
    Timeouts <- PositiveTimeouts
    MaxDepth = 2
INVARIANTS
    StaysSupervised
CHECK_DEADLOCK FALSE

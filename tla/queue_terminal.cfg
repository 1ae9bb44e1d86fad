CONSTANTS
    Jobs = {j1}
    Sessions = {s1, s2}
    MaxResume = 3
    Retains = TRUE
    StoreFaults = FALSE
    MaxCrashes = 0
    MaxStops = 0
    MaxRequeues = 0
SPECIFICATION Spec
INVARIANTS TerminalIsImmutable
CHECK_DEADLOCK FALSE

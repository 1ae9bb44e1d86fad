CONSTANTS
    Jobs = {j1, j2}
    Sessions = {s1, s2}
    MaxResume = 2
    Retains = FALSE
    StoreFaults = TRUE
    MaxCrashes = 1
    MaxStops = 1
    MaxRequeues = 1
SPECIFICATION FairSpec
INVARIANTS HandedToOne AcceptedOnRecord ResumesBounded AlwaysAnswers
PROPERTIES EveryJobEnds
CHECK_DEADLOCK FALSE

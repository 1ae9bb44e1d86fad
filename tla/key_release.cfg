CONSTANTS
    Decisions = {d1}
    Keys = {k1, k2}
    GenomeKeys = {k1}
    Images = {"now", "next"}
    Known = {"now"}
    Allowed = {"now"}
    Lists <- MCLists
    SourceSuites <- MCSource
    DestSuites <- MCDest
    Gated = TRUE
    GateRequired = FALSE
    MaxPending = 1
    MaxRuns = 2
    MaxHandshakes = 2
    MaxRestarts = 1
SPECIFICATION FairSpec
INVARIANTS KeyOnlyOnRecord ConfirmedIsTheRelease
PROPERTIES ReleasedIsSettled
CHECK_DEADLOCK FALSE

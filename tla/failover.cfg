CONSTANTS
    SyncFails = FALSE
    MaxTime = 1
    MaxStates = 2
    MaxSeals = 2
    MaxBeats = 2
    MaxStarts = 3
    Executors = {e1, e2}
    OnCompromise = TRUE
    OnSilence = TRUE
    HasGrace = TRUE
    Policies <- MCPolicies
SPECIFICATION Spec
SYMMETRY ExecutorSymmetry
INVARIANTS OneFailoverPerSerial RestoredIsClean ChosenWasCommitted RecordedGenomeChecksOut
CHECK_DEADLOCK FALSE

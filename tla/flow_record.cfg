CONSTANTS
    Requests = {r1}
    Components = 3
    MaxFlows = 2
SPECIFICATION FairSpec
INVARIANTS ReleaseOnRecord RecordBeforeEffect
PROPERTIES EveryFlowEnds
CHECK_DEADLOCK FALSE

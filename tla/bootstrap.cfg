CONSTANTS
    N = 2
    MaxTries = 2
SPECIFICATION Spec
INVARIANTS AcceptedIsTheGenome DisclosedOnRecord
CHECK_DEADLOCK FALSE

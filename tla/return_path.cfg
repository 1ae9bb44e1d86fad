CONSTANTS
    Conns = {c1, c2}
    Jobs = {j1, j2}
    Slots = 2
SPECIFICATION FairSpec
INVARIANTS TakenIsHeld VaultHearsTheWorker
PROPERTIES EverySessionEnds
CHECK_DEADLOCK FALSE

CONSTANTS
    Issuers = {i1, i2}
    Bodies = {"a", "b", "c"}
    Lineage <- MCLineage
    Subjects = {"c"}
    Suites = {"ed25519"}
    Responses = {"yes", "no"}
    WitnessKeys = {"k1", "k2"}
    EarlierSizes = {0, 3, 5}
    MaxGeneration = 2
    MaxAppends = 2
    MaxTime = 1
    MaxHeads = 2
    MaxFaults = 1
    MaxPath = 2
SPECIFICATION Spec
SYMMETRY Symmetry
INVARIANTS TreeProofs HonestNeverAccused ForksAreFound AppendedIsIssued
CHECK_DEADLOCK FALSE

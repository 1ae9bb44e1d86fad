CONSTANTS
    a = a
    b = b
    m1 = m1
    Servers = {a, b}
    People = {p}
    Models = {m1}
    Home <- Homes
    Images = {"pinned", "other"}
    Pinned = "pinned"
    MaxCodes = 2
    MaxOrders = 2
    MaxSerial = 2
    MaxFaults = 2
SPECIFICATION Spec
INVARIANTS KeyGoesWhereOrdered SentCanBeRestored
CHECK_DEADLOCK FALSE

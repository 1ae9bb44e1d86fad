CONSTANTS
    h1 = h1
    h2 = h2
    i1 = i1
    i2 = i2
    b1 = b1
    b2 = b2
    p1 = p1
    p2 = p2
    Hosts = {h1, h2}
    Families <- SealerFamilies
    Names <- TwoNames
    Images = {i1, i2}
    Boots = {b1, b2}
    Paths = {p1, p2}
    MaxProvisions = 2
    MaxCommands = 2
    MaxEvents = 2
SYMMETRY Perms
SPECIFICATION KeyStoreSpec
INVARIANTS OpensOnlyAsSealed KeySurvivesSealing PublishedCanBeOpened
CHECK_DEADLOCK FALSE

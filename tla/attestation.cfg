CONSTANTS
    m1 = m1
    m2 = m2
    n1 = n1
    n2 = n2
    Machines = {m1, m2}
    Nonces = {n1, n2}
    ShortNonces = {}
    Families <- AllFamilies
    MaxTime = 2
    MaxQuotes = 2
    Validity = 1
    MaxSkew = 1
SYMMETRY Perms
SPECIFICATION AttestationSpec
INVARIANTS AdmittedIsGenuine RevocationTakesHold CurrentIsEnough SoundIsAdmitted
CHECK_DEADLOCK FALSE

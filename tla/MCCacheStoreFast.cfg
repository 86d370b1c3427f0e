SPECIFICATION Spec
CONSTANTS
    t1 = t1
    t2 = t2
    Threads = {t1, t2}
    k1 = k1
    k2 = k2
    k3 = k3
    k4 = k4
    Keys = {k1, k2, k3, k4}
    Disk0 = {k1, k2, k3}
    None = None
    MaxPuts = 2
    MaxFaults = 1
    MaxCrashes = 1
    MaxL1 = 3
    Size <- Sizes
SYMMETRY Alike
INVARIANTS
    PutsAtomic
    NoTornReads
    L1Accounts
    TiersAgree
PROPERTIES
    InsertFits
    SecondChance
CHECK_DEADLOCK FALSE

SPECIFICATION FairSpec
CONSTANTS
    Clients = {c1, c2}
    Writer = w
    k1 = k1
    k2 = k2
    Keys = {k1, k2}
    None = None
    Disk0 <- OldDisk
    MaxPuts = 3
    MaxSpurious = 1
INVARIANTS
    DiskIsPrefix
    DrainedOnExit
CHECK_DEADLOCK FALSE
PROPERTIES
    ImplementsWriteBehind
    FlushDurable
    CountersAgree
    L1DiskAgree
    WritesPersist
    LoneFlushReturns

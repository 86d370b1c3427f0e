SPECIFICATION FairSpec
CONSTANTS
    Clients = {c1, c2}
    Writer = w
    k1 = k1
    k2 = k2
    Keys = {k1}
    None = None
    Disk0 <- OldDisk
    MaxPuts = 1
    MaxSpurious = 0
PROPERTY FlushReturns
CHECK_DEADLOCK FALSE

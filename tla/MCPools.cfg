SPECIFICATION MCSpec
CONSTANTS
    a = a
    b = b
    c = c
    Threads = {a, b, c}
    Allocators = {a}
    Scanners = {a}
    TtlUs = 1
    MaxTime = 3
    NPages = 3
    NShards = 2
    Sizes = {1, 2}
    PoolSize = 3
    Traces = {x, y}
    Ttl = 0
    Batch = 2
    Workers = {u, v, w}
    Leader = u
    NNodes = 2
    PagesPerNode = 2
    MaxRequest = 2
    Kinds = {"fast", "mutex", "numa"}
SYMMETRY FreersAlike
INVARIANTS
    PagesConserved
    StampsTellTruth
    FreeListSound
    PagesGoHome
CHECK_DEADLOCK FALSE

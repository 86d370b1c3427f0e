SPECIFICATION Spec
CONSTANTS
    r1 = r1
    r2 = r2
    Ranks = {r1, r2}
    Program <- Programs
    MaxFaults = 1
    Nobody = Nobody
    Setups <- Computed
    Serialised = TRUE
INVARIANTS
    BarrierHolds
    LeaksOnlyByThrow
PROPERTIES
    ReducesOwnProduct
    RanksFinish
CHECK_DEADLOCK FALSE

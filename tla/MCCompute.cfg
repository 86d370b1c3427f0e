SPECIFICATION Spec
CONSTANTS
    Lanes = 2
    MaxSmem = 25
    SmemCap = 25
    V = 3
    D = 2
    G = 2
    MaxK = 2
    MaxCalls = 2
    Costs = {1, 2, 3}
    MaxCands = 6
    MinReps = 1
    MaxReps = 8
    Etas = {2, 3}
    Refused = {}
    Fine = 2
    MaxExp = 19
INVARIANTS
    GemmExact
    FlashExact
    BarriersUniform
    TunedIsBest
    EveryDraftCounted
    OutputFollowsTarget
    Fp8Nearest
PROPERTIES
    GridFinishes
    HalvingFindsBest
CHECK_DEADLOCK FALSE

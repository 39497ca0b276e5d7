SPECIFICATION Spec
CONSTANTS
    a1 = a1
    a2 = a2
    a3 = a3
    r1 = r1
    treasury = treasury
    Agent = {a1, a2, a3}
    Treasury = treasury
    AgentOrder <- Order
    Validator = {a1}
    Run = {r1}
    MaxSupply = 11
    GenesisTreasury = 1
    GenesisGrant = 4
    InitialReward = 2
    HalvingInterval = 2
    BaseFee = 1
    FeeRate = 1
    FeeRateBase = 4
    EpochFeeStep = 1
    MemoByteFee = 1
    MaxHeight = 3
    MaxAmount = 1
    MaxNonce = 1
    MemoSizes = {0}
    MaxEvents = 6
INVARIANTS
    TypeOK
    SupplyCap
    RewardedOnce
    HalvingAnnounced
    JournalReplays
    NoncesConsumedOnce
PROPERTIES
    RefusalMovesNothing
    ImplementsAsset
CHECK_DEADLOCK FALSE

SPECIFICATION Spec
CONSTANTS
    n1 = n1
    n2 = n2
    n3 = n3
    c1 = c1
    c2 = c2
    c3 = c3
    treasury = treasury
    NoKey = NoKey
    Agent = {n1, n2, n3}
    Call = {c2, c3}
    Proposal <- Proposals
    Scenario <- RunsAndRestart
    Coordinator = n1
    AgentOrder <- Nodes
    Ballots <- Votes
    InitialReputation = 100
    MaxReputation = 1000
    AlignedReward = 10
    OpposedPenalty = 12
    AbstainPenalty = 1
    Treasury = treasury
    MaxSupply = 1000
    GenesisTreasury = 1
    GenesisGrant = 10
    InitialReward = 4
    HalvingInterval = 1
    BaseFee = 1
    FeeRate = 0
    FeeRateBase = 1
    EpochFeeStep = 0
    MemoByteFee = 1
PROPERTIES
    BridgeRunsStay
CHECK_DEADLOCK FALSE

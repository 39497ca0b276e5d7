SPECIFICATION Spec
CONSTANTS
    Leader = n1
    n1 = n1
    n2 = n2
    p1 = p1
    p2 = p2
    Agent = {n1, n2}
    Proposal = {p1, p2}
    ProposerOf <- OneProposer
    Opinion <- Partisan
    MaxLoss = 0
    MaxDuplicate = 1
    MaxExpired = 0
    InitialReputation = 100
    MaxReputation = 1000
    AlignedReward = 10
    OpposedPenalty = 12
    AbstainPenalty = 1
INVARIANTS
    OneBlockPerProposal
    ChainTellsScores
PROPERTIES
    ImplementsReplicatedLog
CHECK_DEADLOCK FALSE

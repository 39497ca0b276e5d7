SPECIFICATION Spec
CONSTANTS
    n1 = n1
    n2 = n2
    n3 = n3
    p1 = p1
    p2 = p2
    Agent = {n1, n2, n3}
    Proposal = {p1, p2}
    ProposerOf <- TwoProposers
    Opinion <- Unanimous
    MaxLoss = 0
    MaxDuplicate = 0
    MaxExpired = 0
    InitialReputation = 100
    MaxReputation = 1000
    AlignedReward = 10
    OpposedPenalty = 12
    AbstainPenalty = 1
INVARIANTS
    FinalizedIsInChain
CHECK_DEADLOCK FALSE

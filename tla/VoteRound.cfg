SPECIFICATION Spec
CONSTANTS
    a1 = a1
    a2 = a2
    a3 = a3
    a4 = a4
    Agent = {a1, a2, a3, a4}
    MaxScore = 2
INVARIANTS
    EarlyDecisionIsSound
    FullBallotDecides
    AcceptanceHasSupport
PROPERTIES
    DecisionIsStable
CHECK_DEADLOCK FALSE

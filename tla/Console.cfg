SPECIFICATION FairSpec
CONSTANTS
    Key = {operator}
    MaxFailedAttempts = 2
    Window = 2
    TokenTtl = 2
    Form = {proposal, transfer}
    Page = page
    Resource = {snapshot, supply}
    OperatorKey = operator
    None = None
    Budget <- Budgets
INVARIANTS
    TypeOK
    GuessesAreLimited
    LockoutIsEarned
    SessionIsOfToken
PROPERTIES
    MutationsAreAuthorized
    OwnChangesAreShown
    HandlersReturn
CHECK_DEADLOCK FALSE

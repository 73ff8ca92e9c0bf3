SPECIFICATION FairSpec
CONSTANTS
    Requests = {r1, r2}
    NoRequest = NoRequest
INVARIANTS
    TypeOK
    AssociatedHonest
    
PROPERTIES
    OutcomeTrue
    UsesFSM
    ConnectReturns

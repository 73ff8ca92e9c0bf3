SPECIFICATION Spec
CONSTANTS
    Connector = connector
    Callers = {monitor, user}
    Loop = loop
    NoThread = NoThread
    Sessions = {s1, s2}
    NoSession = NoSession
    NBrokers = 2
    Reachable = {0}
    Misconfigured = {1}
    SlowHandshakes = TRUE
    PongThreshold = 2
    MaxAttempts = {0, 2}
SYMMETRY Symmetry
INVARIANTS
    TypeOK
    OneSession
    StateMatchesSession
    BackoffBounded
    AttemptsRotate
    DestroyedAlone
    IndInv
PROPERTY ImplementsFSM

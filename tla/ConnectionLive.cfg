SPECIFICATION FairSpec
CONSTANTS
    Connector = connector
    Callers = {user}
    Loop = loop
    NoThread = NoThread
    Sessions = {s1}
    NoSession = NoSession
    NBrokers = 2
    Reachable = {1}
    Misconfigured = {}
    SlowHandshakes = FALSE
    PongThreshold = 1
    MaxAttempts = {0, 1}
PROPERTIES
    ConnectReturns
    CloseCompletes
    DestructorReturns

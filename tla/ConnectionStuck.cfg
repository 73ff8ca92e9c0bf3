SPECIFICATION FairSpec
CONSTANTS
    Connector = connector
    Callers = {user}
    Loop = loop
    NoThread = NoThread
    Sessions = {s1}
    NoSession = NoSession
    NBrokers = 1
    Reachable = {}
    Misconfigured = {0}
    SlowHandshakes = FALSE
    PongThreshold = 1
    MaxAttempts = {1}
PROPERTY ConnectingSettles

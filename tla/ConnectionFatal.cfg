SPECIFICATION Spec
CONSTANTS
    Connector = connector
    Callers = {user}
    Loop = loop
    NoThread = NoThread
    Sessions = {s1}
    NoSession = NoSession
    NBrokers = 1
    Reachable = {0}
    Misconfigured = {}
    SlowHandshakes = FALSE
    PongThreshold = 1
    MaxAttempts = {1}
PROPERTY NoFatalOnceOpen

SPECIFICATION FairSpec
CONSTANTS
    Users = {u1, u2}
    Tasks = {t1}
    NoThread = NoThread
    Associating = TRUE
INVARIANTS TypeOK OneConnector DestroyedQuiet
PROPERTIES ExceptionDelivered
    StopReturns
    Reestablished
CONSTRAINT NoRace

SPECIFICATION Spec
CONSTANTS
    Users = {u1, u2}
    Tasks = {t1, t2}
    NoThread = NoThread
    Associating = FALSE
INVARIANT OneTask

SPECIFICATION Spec
CONSTANTS
    Users = {u1}
    Tasks = {t1}
    NoThread = NoThread
    Associating = FALSE
INVARIANT EndsForAReason

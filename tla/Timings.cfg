SPECIFICATION Spec
CONSTANTS
    MaxTime = 6
    IntLimit = 4
INVARIANTS
    TypeOK
    IntervalsNested
    AssociationOrdered
    SameSession
    EndRecorded
PROPERTY CloseKept

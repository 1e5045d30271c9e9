SPECIFICATION Spec
CONSTANTS
    e1 = e1
    e2 = e2
    Entries = {e1, e2}
    Torn = Torn
    Nothing = Nothing
    MaxSaves = 2
    MaxAppends = 4
    MaxCrashes = 2
    MaxDropped = 1
    PageSizes = {1, 2, 3, 25}
SYMMETRY Symmetry
INVARIANTS
    TypeOK
    StopLeavesPrefix
    RecordLossBounded
    PagesCoverHistory
CHECK_DEADLOCK FALSE

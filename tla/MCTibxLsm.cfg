CONSTANTS
    k1 = k1
    k2 = k2
    v1 = v1
    v2 = v2
    v3 = v3
    Keys = {k1, k2}
    Values = {v1, v2, v3}
    Slots = 2
    Absent = Absent
    Dead = Dead
    MaxWrites = 6
SYMMETRY MCSymmetry
SPECIFICATION LsmSpec
INVARIANTS SlicesOfStore IndexOfStore ExtentsOfStore
CHECK_DEADLOCK TRUE

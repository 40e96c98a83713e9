CONSTANTS
    p1 = p1
    p2 = p2
    Processes = {p1, p2}
    MaxVersion = 1
    Records <- MCRecords
    Missing = Missing
    Gap = Gap
    BadMagic = BadMagic
    Truncated = Truncated
    NotSaved = NotSaved
SYMMETRY MCSymmetry
SPECIFICATION Spec
INVARIANTS FilesAreCurrent SavedIsFound
PROPERTIES AcceptedIsWhole RejectedForCause

CONSTANTS
    NoPage = NoPage
    Archives <- MCArchives
    MaxDepth = 5
SPECIFICATION Spec
INVARIANTS
    ReadIsOwn
    GuessIsSafe
    WalkYieldsTree
PROPERTIES
    WalkEnds
CHECK_DEADLOCK FALSE

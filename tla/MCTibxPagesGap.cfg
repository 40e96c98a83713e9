CONSTANTS
    NoPage = NoPage
    Archives <- MCArchives
    MaxDepth = 5
SPECIFICATION Spec
INVARIANT GapIsGap
CHECK_DEADLOCK FALSE

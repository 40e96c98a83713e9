CONSTANTS
    Dir = Dir
    NoLimit = NoLimit
    NotNamed = NotNamed
    Archives <- MCArchives
    MaxDamaged = 2
    Lookahead = 3
    Limits <- MCLimits
    RawSize = 9
SPECIFICATION Spec
INVARIANTS
    CleanIsExact
    DamageIsLocal
    NamedOnce
    ServedIsFound
PROPERTIES
    WalkEnds
CHECK_DEADLOCK FALSE

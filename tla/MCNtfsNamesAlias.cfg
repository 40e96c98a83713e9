CONSTANTS
    t1 = t1
    t2 = t2
    Threads = {t1, t2}
    Volumes <- MCVolumes
    Calls <- MCCalls
    Lower <- MCLower
    NameOrder <- MCNameOrder
    Lead <- MCLead
    Trail <- MCTrail
    Cut <- MCCut
    Empty = ""
    Dot = "."
    DotDot = ".."
    NoData = NoData
    None = None
    Root = 1
    FirstUser = 3
    Total = 9
    MaxFaults = 1
    MaxPos = 3
SPECIFICATION Spec
INVARIANT AliasesFound

CONSTANTS
    t1 = t1
    t2 = t2
    Threads = {t1, t2}
    Requests <- MCEarly
    Segments <- MCSegments
    Extents <- MCExtents
    SegIndex <- MCSegIndex
    NotIndexed = NotIndexed
    NumPages = 9
    FirstPage = 6
    Kind <- MCKind
    Span <- MCSpan
    Sealed = {5}
    Inflate <- MCInflate
    Undecodable = Undecodable
    Byte <- MCByte
    Zero <- MCZero
    CacheSize = 1
    NotCached = NotCached
SPECIFICATION AdapterSpec
INVARIANTS HoleEndsAtExtent
CHECK_DEADLOCK TRUE

CONSTANTS
    t1 = t1
    t2 = t2
    Threads = {t1, t2}
    ClusterSize = 2
    Image <- MCImage
    Zero <- MCZero
    Hole = Hole
    Unset = Unset
    Volumes <- MCVolumes
    Requests <- MCRequests
    Lznt1 <- MCLznt1
    Xpress <- MCXpress
    XpressError = XpressError
    UnitCacheMax = 1
    NoDict = NoDict
    KeyError = KeyError
    IsADirectoryError = IsADirectoryError
SPECIFICATION FairSpec
INVARIANTS
    CacheInv
    ReadIsFile
PROPERTY
    ReadReturns

CONSTANTS
    t1 = t1
    Threads = {t1}
    Offsets <- MCOffsets
    Lengths <- MCLengths
    BlockCount <- MCBlockCount
    ClustersPerBlock <- MCClustersPerBlock
    ClusterSize = 2
    CacheBlocks = 1
    Byte <- MCByte
    Zero = 0
    Disk <- MCDisk
    Preamble <- MCPreamble
    Archive <- MCArchive
    CorruptRecord = {2}
    BadStream = {3}
    NotCached = NotCached
SPECIFICATION Spec
INVARIANT ReadIsFull

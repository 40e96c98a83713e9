CONSTANTS
    ByteBits = 3
    Literals = 4
    Nibbles = 2
    Shifts = 2
    ChunkSizes = {16}
    Group = 3
    Least = 2
    Most = 4
    Digit = 4
    LongestLeb = 3
    MaxLength = 10
    MapBits = 2
    History = 6
    ChildSize = 2
    Poly <- MCPoly
    Magic <- MCMark
    Ahead = 2
    Behind = 3
    Sector = 32
    RunByte = 16
    Nibble = 4
    Priority <- MCPriority
    ChunkOf <- MCChunkOf
    Zero = 0
    XpressJobs <- MCXpressJobs
    Lznt1Jobs <- MCLznt1Jobs
    CellJobs <- MCCellJobs
    PageJobs <- MCPageJobs
    RecordJobs <- MCRecordJobs
    ChainJobs <- MCChainJobs
SPECIFICATION JobSpec
INVARIANTS
    DecodedIsWritten
    DamageIsCaught
    ChainsAreLineages
PROPERTIES
    EveryJobEnds

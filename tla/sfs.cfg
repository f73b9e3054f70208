SPECIFICATION Spec
CONSTANTS
    BlockSize = 10
    NumBlocks = 14
    NumDirect = 2
    PerBlock = 2
    NumDouble = 2
    MaxNodes = 4
    MaxOpen = 2
    MaxMounts = 2
    Reserve = 2
    Files <- MCFiles
    Dirs <- MCDirs
    WriteSizes = {35}
    MaxFaults = 1
    MaxChanges = 5
INVARIANTS
    TypeOK
    BlocksHeldOnce
    LinksCountChildren
    GetattrExact
    
    
    
    ReadsAreExact
PROPERTIES
    OnlyDirectoriesLoseBlocks
    
CHECK_DEADLOCK FALSE

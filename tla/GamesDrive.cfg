SPECIFICATION DriveSpec
CONSTANTS
    NSectors = 7
    Files <- MCFiles
    BlockSectors = 2
    ReadAhead = 1
    CacheBlocks = 3
    Requests <- MCRequests
    MaxVersions = 1
    MaxErrors = 1
    MaxNesting = 2
INVARIANTS DriveConsistent
PROPERTIES ImplementsDisk CallsReturn

CONSTANTS
    Producers = {p1, p2}
    Sizes = {1, 2}
    BufferSize = 2
    BackupNums = 1
    DiskFails = TRUE
    MaxCalls = 3
    MaxLines = 4
SPECIFICATION FairSpec
INVARIANTS TypeOK NoSharedBuffer NoLostBroadcast
PROPERTIES ImplementsStream EveryLineFlushed

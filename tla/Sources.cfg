SPECIFICATION SourcesSpec
CONSTANTS
    DiskBlockSize = 3
    BufferSize = 6
    FileSize = 11
    DirectReads = TRUE
    SharedFd = FALSE
    HeaderBytes = 2
    MayShrink = FALSE
    MaxFaults = 2
CHECK_DEADLOCK FALSE
INVARIANTS
    BytesInPlace
    BlockIsWhole
    CompleteOrError
    BlocksAccountedFor
    NoWorkForSleepers
    BlocksCoverMissing
PROPERTIES
    EveryTakerServed

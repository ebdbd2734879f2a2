SPECIFICATION HistorySpec
CONSTANTS
    t1 = t1
    t2 = t2
    Threads = {t1, t2}
    Blocks = {1, 2}
    BlockSize = 1
    MaxNumBlocks = 2
    None = None
SYMMETRY ThreadSymmetry
CHECK_DEADLOCK FALSE
INVARIANTS
    EveryBlockAccounted
    NoBlockTwice
    GlobalCheckpointFreezesHistory
    FinishLeavesOnlyAcked
PROPERTIES
    RecoveryWaitsForOwner

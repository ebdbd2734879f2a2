SPECIFICATION FairTransferSpec
CONSTANTS
    p1 = p1
    p2 = p2
    Threads = {p1, p2}
    Blocks = {1, 2}
    BlockSize = 2
    MaxNumBlocks = 3
    None = None
    Verification = "none"
    MaxFaults = 1
    MaxTransferRetries = 2
    PromptAdd = TRUE
INVARIANTS
    OneThreadOkMeansAllReceived
    CheckpointsAreAccepted
PROPERTIES
    UsesHistoryAsSpecified
    TransferEnds

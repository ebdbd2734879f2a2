SPECIFICATION TransferSpec
CONSTANTS
    p1 = p1
    p2 = p2
    Threads = {p1, p2}
    Blocks = {1, 2}
    BlockSize = 2
    MaxNumBlocks = 3
    None = None
    Verification = "none"
    MaxFaults = 2
    MaxTransferRetries = 2
    PromptAdd = TRUE
SYMMETRY ThreadSymmetry
INVARIANTS
    AcknowledgedMeansReceived
    SkippedBytesAreStored

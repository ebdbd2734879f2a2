SPECIFICATION StorageSpec
CHECK_DEADLOCK FALSE
INVARIANTS
    InSync
    BlocksStay
    ClaimIsStored
    ClaimsAreOnDisk
    SuccessIsComplete
    
PROPERTIES
    ReceiverGoesOn

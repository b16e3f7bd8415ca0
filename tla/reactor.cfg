SPECIFICATION FairSpec
CONSTANTS
    Instruction <- IoInstructions
    Data <- MCData
    InitData = "a"
    Update = {}
    UpdatePayload <- MCUpdatePayload
    Rejected = "rejected"
    IoType <- MCIoType
    KnownIoTypes <- MCKnownIoTypes
    Transition <- MCTransition
    Injectable <- AnyPayload
    MaxRounds = 4
    MaxQueueLen = 0
    WalFailThreshold = 3
    WalOutcomes <- Healthy
    Budget <- IoBudget
INVARIANTS
    PendingConsistent
    CausesTrackOrigin
    LeafAppliedOnce
    SerialExecution
PROPERTIES
    ComesToRest
    RequestsEnd

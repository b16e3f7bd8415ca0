SPECIFICATION Spec
CONSTANTS
    Instruction <- ChainInstructions
    Data <- MCData
    InitData = "a"
    Update <- MCUpdate
    UpdatePayload <- MCUpdatePayload
    Rejected = "rejected"
    IoType <- MCIoType
    KnownIoTypes <- MCKnownIoTypes
    Transition <- MCTransition
    Injectable <- AnyPayload
    MaxRounds = 3
    MaxQueueLen = 0
    WalFailThreshold = 3
    WalOutcomes <- Healthy
    Budget <- ChainBudget
INVARIANTS
    LogMirrorsPayload
PROPERTIES
    ChangesAreVersioned
CHECK_DEADLOCK FALSE

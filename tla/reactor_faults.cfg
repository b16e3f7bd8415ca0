SPECIFICATION Spec
CONSTANTS
    Instruction <- AllInstructions
    Data <- MCData
    InitData = "a"
    Update <- MCUpdate
    UpdatePayload <- MCUpdatePayload
    Rejected = "rejected"
    IoType <- MCIoType
    KnownIoTypes <- MCKnownIoTypes
    Transition <- MCTransition
    Injectable <- OnlyA
    MaxRounds = 3
    MaxQueueLen = 2
    WalFailThreshold = 3
    WalOutcomes <- Flaky
    Budget <- FaultBudget
INVARIANTS
    ExhaustionKeepsFlag
CHECK_DEADLOCK FALSE

SPECIFICATION Spec
CONSTANTS
    PageSize = 5
    PageCount = 4
    Size <- MCSize
    Instruction <- AllInstructions
    Data <- MCData
    InitData = "a"
    Update = {}
    UpdatePayload <- MCUpdatePayload
    Rejected = "rejected"
    IoType <- MCIoType
    Transition <- MCTransition
    AnswerId <- MCAnswerId
    MaxQueueLen = 3
    MaxSteps = 2
    Budget <- FlashBudget
INVARIANTS
    AlwaysOpens
    StoreMatchesMedium
    UnansweredArePending
PROPERTIES
    LedgerSurvives
CHECK_DEADLOCK FALSE

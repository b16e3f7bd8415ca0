SPECIFICATION MCSpec
CONSTANTS
    t1 = t1
    t2 = t2
    Thread <- TwoThreads
    Session <- TwoSessions
    WithOrigin <- Second
    Kinds <- AllKinds
    Intervals <- EverySecond
    Failures <- AnyFailure
    Content <- Writes
    IoType <- Http
    Target <- AnyTarget
    Tenant <- OneTenant
    Assets <- AllAssets
    Budgets <- AllBudgets
SYMMETRY Symmetric
INVARIANTS
    IndexFollowsLedger
    AnchorsBind
    EntriesAreFrozen
    GrantsAreGrounded
CHECK_DEADLOCK FALSE

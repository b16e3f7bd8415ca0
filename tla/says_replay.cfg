SPECIFICATION MCSpec
CONSTANTS
    t1 = t1
    t2 = t2
    Thread <- OneThread
    Session <- TwoSessions
    WithOrigin <- Second
    Kinds <- OnlyDurable
    Intervals <- EverySecond
    Failures <- AnyFailure
    Content <- Writes
    IoType <- Http
    Target <- AnyTarget
    Tenant <- OneTenant
    Assets <- NoAssets
    Budgets <- ReplayBudget
INVARIANTS
    VerdictsReplay
CHECK_DEADLOCK FALSE

SPECIFICATION VerifySpec
CONSTANTS
    Kinds <- OneKind
    MaxLines = 2
    Faults <- WriteFaults
    ForkVersions <- Forks
    MaxFacts = 4
    Budgets <- AllBudgets
    Policies <- AllPolicies
    AnchorFaults <- AnyAnchorFault
    Allowances <- AllAllowances
    Scenarios <- AllScenarios
    IdOffset = 100
    AnchorId = 1000000000
INVARIANTS
    WriteAhead
    AuditFollowsChain
    SealsBind
    
PROPERTIES
    SentinelIsRight
CHECK_DEADLOCK FALSE

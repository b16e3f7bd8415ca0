SPECIFICATION HealthySpec
CONSTANTS
    Kinds <- AllKinds
    MaxLines = 2
    Faults <- NoFaults
    ForkVersions <- NoForks
    MaxFacts = 4
    Budgets <- DurableBudget
INVARIANTS
    ReadsAreComplete
    RewindFaithful
PROPERTIES
    Durable
    RecoveryRestores
CHECK_DEADLOCK FALSE

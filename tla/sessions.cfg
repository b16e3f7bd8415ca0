SPECIFICATION Spec
CONSTANTS
    t1 = t1
    t2 = t2
    Thread <- TwoThreads
    MaxSessions = 2
    ShardCount = 2
    MaxIds = 2
    MaxRestarts = 1
SYMMETRY Symmetric
VIEW ManagerView
INVARIANTS
    CountIsExact
    LimitHolds
PROPERTIES
    LogsAreKept

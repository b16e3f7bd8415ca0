SPECIFICATION FairSpec
CONSTANTS
    Capacity = 2
    MaxRetries = 1
    IdOffset = 10000
    Gates <- WithOrWithout
    Kinds <- AllFacts
    MaxFacts = 3
    MaxTime = 4
    Threshold = 2
    Window = 2
INVARIANTS
    AnsweredOnce
    NoneForgotten
    BurstsTrip
    EvidenceFirst
PROPERTIES
    AnswersArrive
CHECK_DEADLOCK FALSE

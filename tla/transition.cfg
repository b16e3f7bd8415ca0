SPECIFICATION Spec
CONSTANTS
    x = x
    y = y
    attr = attr
    value = value
    list = list
    Null = Null
    Text = Text
    Hollow = Hollow
    Field <- Fields
    MinInt <- LeastInt
    MaxInt = 1
    Evaluate <- MCEvaluate
    MaxTransformRules = 3
    MaxBranchDepth = 2
    MaxMetaInstructions = 5
    Meta <- AllMeta
    Inputs <- AllCalls
INVARIANTS
    ConstraintsComeFirst
    WorkIsBounded
    ValidationAgrees
CHECK_DEADLOCK FALSE

SPECIFICATION Spec
CONSTANTS
    x = x
    y = y
    Null = Null
    Text = Text
    Hollow = Hollow
    Field <- Fields
    InstructionType <- Types
    MinInt = 0
    MaxInt = 1
    MaxDomainDepth = 2
    Domains <- AllDomains
PROPERTIES
    VerdictsRestOnData
CHECK_DEADLOCK FALSE

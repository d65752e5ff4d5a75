SPECIFICATION RequestSpec
CONSTANTS
    MaxLength = 5
    MaxAtoms = 5
    MaxDepth = 2
INVARIANTS
    NoConditionLost
    ReadersAgree
    WrongOnlyWhenCrossed
CHECK_DEADLOCK FALSE

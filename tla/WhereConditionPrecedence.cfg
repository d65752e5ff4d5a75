SPECIFICATION Spec
CONSTANTS
    MaxAtoms = 4
    MaxDepth = 2
INVARIANTS
    ReadAsWritten
CHECK_DEADLOCK FALSE

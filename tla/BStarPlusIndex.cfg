SPECIFICATION Spec
CONSTANTS
    Keys = {1, 2, 3, 4, 5, 6, 7, 8, 9, 10, 11}
    KeyKinds = {"two", "three", "four"}
    Record <- MCRecord
    MaxLeaf <- MCMaxLeaf
    MaxInternal <- MCMaxInternal
    None = none
VIEW TreeView
INVARIANTS
    TypeOK
    FindIsExact
    RangeIsExact
    Balanced
    SeparatorsExact
    MetadataAgrees
    FindReadsOnlyNodes
    LossIsLocal

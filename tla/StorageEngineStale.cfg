SPECIFICATION Spec
CONSTANTS
    Databases = {d1}
    Tables = {t1}
    Columns = {"k"}
    Values = {1, 15}
    Kind <- MCKind
    Indexable = {1, 15}
    Schemas <- TwoKinds
    RowLists <- StaleRowLists
    Wheres <- NoWheres
    SetLists <- NoWheres
    MaxRowId = 2
    ReuseNames = TRUE
    Null = null
    None = none
INVARIANTS
    FastPathAgrees

SPECIFICATION Spec
CONSTANTS
    Databases = {d1}
    Tables = {t1}
    Columns = {"k"}
    Values = {15, 16}
    Kind <- MCKind
    Indexable = {15}
    Schemas <- StringKey
    RowLists <- LongRowLists
    Wheres <- NoWheres
    SetLists <- NoWheres
    MaxRowId = 3
    ReuseNames = FALSE
    Null = null
    None = none
INVARIANTS
    UniqueKeys

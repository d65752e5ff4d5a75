SPECIFICATION StopSpec
CONSTANTS
    Databases = {d1}
    Tables = {t1}
    Columns = {"k"}
    Values = {1, 2, 11, 15}
    Kind <- MCKind
    Indexable = {1, 2}
    Schemas <- TwoSchemas
    RowLists <- CrashRowLists
    Wheres <- CrashWheres
    SetLists <- CrashSetLists
    MaxRowId = 2
    ReuseNames = FALSE
    Null = null
    None = none
INVARIANTS
    ServerStarts

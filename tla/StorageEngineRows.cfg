SPECIFICATION FairSpec
CONSTANTS
    Databases = {d1}
    Tables = {t1}
    Columns = {"k", "v"}
    Values = {1, 2, 3, 11, 12, 13, 15, 16}
    Kind <- MCKind
    Indexable = {1, 2, 3, 11, 12, 13, 15, 16}
    Schemas <- KeySchemas
    RowLists <- RowsRowLists
    Wheres <- RowsWheres
    SetLists <- RowsSetLists
    MaxRowId = 4
    ReuseNames = FALSE
    Null = null
    None = none
INVARIANTS
    UniqueKeys
    IndexMatchesRows
    IndexIsTransparent
PROPERTIES
    ImplementsStore
    EveryCommandAnswered

SPECIFICATION CrashSpec
CONSTANTS
    Databases = {d1, d2}
    Tables = {t1}
    Columns = {"k"}
    Values = {1, 2, 3, 11, 13, 15}
    Kind <- MCKind
    Indexable = {1, 2}
    Schemas <- ThreeSchemas
    RowLists <- FaultRowLists
    Wheres <- FaultWheres
    SetLists <- FaultSetLists
    MaxRowId = 2
    ReuseNames = TRUE
    Null = null
    None = none
INVARIANTS
    TypeOK
    RowsInOrder
    RowsFitSchema
    FilesOldOrNew
    ActiveIsLoaded
    FailsOnlyOnIndexedRows
PROPERTIES
    ImplementsTypedStore

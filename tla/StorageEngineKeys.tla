-------------------------- MODULE StorageEngineKeys -------------------------
(***************************************************************************)
(* An index is the inverse of its column for as long as the process runs,  *)
(* if every literal fits an index page and no table gets the name of one   *)
(* that was dropped (Spec, with those two assumptions).                    *)
(***************************************************************************)
EXTENDS StorageEngineRefinement

(* The invariant, on top of IInv.                                           *)

\* The row whose key the command in progress has yet to insert into the index
\* of a column, or has taken out of it already.
Pending(d, t, c) ==
    IF ~(cmd.pc \in {"insert", "update", "delete"} /\ d = cmd.db /\ t = cmd.table) THEN {}
    ELSE IF cmd.pc = "insert" /\ c \in cmd.cols THEN {cmd.id}
    ELSE IF cmd.pc = "update" /\ cmd.erased /\ c = Head(cmd.todo).col THEN {cmd.id}
    ELSE IF Erasing /\ c \notin cmd.cols THEN {Head(cmd.ids)}
    ELSE {}

\* keys is the inverse of column c, but for the rows of missing, whose values
\* it does not have.
Inverts(keys, rows, c, missing) ==
    /\ DOMAIN keys = {rows[id][c] : id \in DOMAIN rows \ missing}
    /\ \A id \in DOMAIN rows \ missing : keys[rows[id][c]] = id
    /\ \A id \in DOMAIN rows \cap missing : rows[id][c] \notin DOMAIN keys

\* Without a kill the process starts once, over an empty directory.
StartedEmpty ==
    /\ phase # "up" => phase = "down" /\ DOMAIN files = {}
    /\ cmd.pc \in {"attach", "create"} /\ cmd.then = "serve" => DOMAIN dbs = {}

\* Every INDEXED column has its index, but for those of a table being created.
AllAttached ==
    \A d \in Databases, t \in Tables : HasTable(d, t) => \A c \in IndexedColumns(Schema(d, t)) :
        c \notin Attached(d, t) => cmd.pc \in {"attach", "create"} /\ <<d, t, c>> \in cmd.todo

\* The files of a table being created have no keys, and their first page
\* unless it is about to be written.
FreshFiles ==
    cmd.pc \in {"attach", "create"} => \A at \in cmd.todo : HasIndexFile(at) =>
        /\ DOMAIN Keys(at[1], at[2], at[3]) = {}
        /\ Clashes(at[1], at[2], at[3]) => cmd.pc = "create" /\ cmd.at = at

IndexesMatch ==
    \A d \in Databases, t \in Tables : HasTable(d, t) => \A c \in Attached(d, t) :
        /\ ~Clashes(d, t, c)
        /\ Inverts(Keys(d, t, c), Rows(d, t), c, Pending(d, t, c))

\* The key that UPDATE is about to insert is free.
UpdateIsFree ==
    cmd.pc = "update" /\ cmd.erased =>
        Head(cmd.todo).val \in Values \ DOMAIN Keys(cmd.db, cmd.table, Head(cmd.todo).col)

\* DELETE takes the keys of a row that is there, and all of them.
DeleteIsWhole == cmd.pc = "delete" /\ ~Erasing => cmd.cols = Attached(cmd.db, cmd.table)

KInv ==
    /\ StartedEmpty /\ AllAttached /\ FreshFiles
    /\ IndexesMatch /\ UpdateIsFree /\ DeleteIsWhole

-----------------------------------------------------------------------------
(* Maps that invert a column.                                               *)

\* No two rows have one value.
LEMMA InvertsUnique ==
    ASSUME NEW keys, NEW rows, NEW c, NEW missing, Inverts(keys, rows, c, missing),
           \A i, j \in missing : i = j
    PROVE  \A i, j \in DOMAIN rows : rows[i][c] = rows[j][c] => i = j
<1> SUFFICES ASSUME NEW i \in DOMAIN rows, NEW j \in DOMAIN rows, rows[i][c] = rows[j][c] PROVE i = j
  OBVIOUS
<1>1. CASE i \in missing /\ j \in missing
  BY <1>1
<1>2. CASE i \notin missing /\ j \notin missing
  BY <1>2 DEF Inverts
<1>3. CASE (i \in missing) # (j \in missing)
  BY <1>3 DEF Inverts
<1> QED BY <1>1, <1>2, <1>3

\* The key of the row that waits for it is inserted ...
LEMMA InvertsInsert ==
    ASSUME NEW keys, NEW rows, NEW c, NEW id \in DOMAIN rows, Inverts(keys, rows, c, {id})
    PROVE  Inverts(With(keys, rows[id][c], id), rows, c, {})
<1> DEFINE v == rows[id][c]
<1>1. /\ DOMAIN With(keys, v, id) = DOMAIN keys \cup {v} /\ With(keys, v, id)[v] = id
      /\ \A u \in DOMAIN keys \ {v} : With(keys, v, id)[u] = keys[u]
  BY WithProperties
<1>2. v \notin DOMAIN keys
  BY DEF Inverts
<1>3. DOMAIN With(keys, v, id) = {rows[i][c] : i \in DOMAIN rows}
  BY <1>1 DEF Inverts
<1>4. \A i \in DOMAIN rows : With(keys, v, id)[rows[i][c]] = i
  <2> SUFFICES ASSUME NEW i \in DOMAIN rows PROVE With(keys, v, id)[rows[i][c]] = i
    OBVIOUS
  <2>1. CASE i = id
    BY <1>1, <2>1
  <2>2. CASE i # id
    BY <1>1, <1>2, <2>2 DEF Inverts
  <2> QED BY <2>1, <2>2
<1> HIDE DEF v
<1> QED BY <1>3, <1>4 DEF Inverts, v

\* ... and the key of a row is erased.
LEMMA InvertsErase ==
    ASSUME NEW keys, NEW rows, NEW c, NEW id \in DOMAIN rows, Inverts(keys, rows, c, {})
    PROVE  Inverts(Without(keys, rows[id][c]), rows, c, {id})
<1> DEFINE v == rows[id][c]
<1>1. /\ DOMAIN Without(keys, v) = DOMAIN keys \ {v}
      /\ \A u \in DOMAIN keys \ {v} : Without(keys, v)[u] = keys[u]
  BY WithoutProperties
<1>2. \A i \in DOMAIN rows : rows[i][c] = v => i = id
  BY DEF Inverts
<1>3. DOMAIN Without(keys, v) = {rows[i][c] : i \in DOMAIN rows \ {id}}
  BY <1>1, <1>2 DEF Inverts
<1>4. \A i \in DOMAIN rows \ {id} : Without(keys, v)[rows[i][c]] = i
  BY <1>1, <1>2 DEF Inverts
<1>5. \A i \in DOMAIN rows \cap {id} : rows[i][c] \notin DOMAIN Without(keys, v)
  BY <1>1
<1> HIDE DEF v
<1> QED BY <1>3, <1>4, <1>5 DEF Inverts, v

\* A row is inserted, its key later.
LEMMA InvertsNewRow ==
    ASSUME NEW keys, NEW rows, NEW c, NEW id, id \notin DOMAIN rows, NEW row,
           row[c] \notin DOMAIN keys, Inverts(keys, rows, c, {})
    PROVE  Inverts(keys, With(rows, id, row), c, {id})
<1> DEFINE new == With(rows, id, row)
<1>1. /\ DOMAIN new = DOMAIN rows \cup {id} /\ new[id] = row
      /\ \A i \in DOMAIN rows \ {id} : new[i] = rows[i]
  BY DEF With
<1> HIDE DEF new
<1>2. DOMAIN new \ {id} = DOMAIN rows /\ \A i \in DOMAIN rows : new[i] = rows[i]
  BY <1>1
<1>3. {new[i][c] : i \in DOMAIN new \ {id}} = {rows[i][c] : i \in DOMAIN rows}
  BY <1>2
<1>4. Inverts(keys, new, c, {id})
  BY <1>1, <1>2, <1>3 DEF Inverts
<1> QED BY <1>4 DEF new

\* A row takes the value of a free key, and the key is inserted.
LEMMA InvertsStore ==
    ASSUME NEW keys, NEW rows, NEW c, NEW id \in DOMAIN rows, NEW row,
           row[c] \notin DOMAIN keys, Inverts(keys, rows, c, {id}),
           NEW new, DOMAIN new = DOMAIN rows, new[id] = row, \A i \in DOMAIN rows \ {id} : new[i] = rows[i]
    PROVE  Inverts(With(keys, row[c], id), new, c, {})
<1>1. {new[i][c] : i \in DOMAIN new \ {id}} = {rows[i][c] : i \in DOMAIN rows \ {id}}
  OBVIOUS
<1>2. Inverts(keys, new, c, {id})
  BY <1>1 DEF Inverts
<1> QED BY <1>2, InvertsInsert

\* A row keeps its value.
LEMMA InvertsOther ==
    ASSUME NEW keys, NEW rows, NEW c, Inverts(keys, rows, c, {}),
           NEW new, DOMAIN new = DOMAIN rows, \A i \in DOMAIN rows : new[i][c] = rows[i][c]
    PROVE  Inverts(keys, new, c, {})
<1>1. {new[i][c] : i \in DOMAIN new \ {}} = {rows[i][c] : i \in DOMAIN rows \ {}}
  OBVIOUS
<1> QED BY <1>1 DEF Inverts

\* A row whose key is erased goes.
LEMMA InvertsDelete ==
    ASSUME NEW keys, NEW rows, NEW c, NEW id, Inverts(keys, rows, c, {id})
    PROVE  Inverts(keys, Without(rows, id), c, {})
<1> DEFINE new == Without(rows, id)
<1>1. DOMAIN new = DOMAIN rows \ {id} /\ \A i \in DOMAIN rows \ {id} : new[i] = rows[i]
  BY WithoutProperties
<1> HIDE DEF new
<1>2. {new[i][c] : i \in DOMAIN new \ {}} = {rows[i][c] : i \in DOMAIN rows \ {id}}
  BY <1>1
<1>3. Inverts(keys, new, c, {})
  BY <1>1, <1>2 DEF Inverts
<1> QED BY <1>3 DEF new

-----------------------------------------------------------------------------
(* Steps that touch no row and no key of a table that stays.                *)

\* No row waits for a key, or has lost one.
Resting ==
    \/ cmd.pc \notin {"insert", "update", "delete"}
    \/ cmd.pc = "insert" /\ cmd.cols = {}
    \/ cmd.pc = "update" /\ ~cmd.erased
    \/ cmd.pc = "delete" /\ cmd.cols = Attached(cmd.db, cmd.table)

LEMMA NothingPending ==
    ASSUME Resting, NEW d, NEW t, NEW c \in Attached(d, t)
    PROVE  Pending(d, t, c) = {}
BY DEF Resting, Pending, Erasing

\* Tables may go.
TablesAndKeysKept ==
    \A d \in Databases, t \in Tables : HasTable(d, t)' =>
        HasTable(d, t) /\ dbs'[d][t] = dbs[d][t] /\ files'[d].idx = files[d].idx

LEMMA RestingStep ==
    ASSUME KInv, phase' = "up", Resting, Resting', TablesAndKeysKept,
           cmd'.pc \notin {"attach", "create"}, cmd.pc \in {"attach", "create"} => cmd.todo = {}
    PROVE  KInv'
<1>1. StartedEmpty' /\ FreshFiles' /\ UpdateIsFree' /\ DeleteIsWhole'
  BY DEF StartedEmpty, FreshFiles, UpdateIsFree, DeleteIsWhole, Resting
<1>2. ASSUME NEW d \in Databases, NEW t \in Tables, HasTable(d, t)'
      PROVE  /\ HasTable(d, t) /\ Schema(d, t)' = Schema(d, t) /\ Attached(d, t)' = Attached(d, t)
             /\ Rows(d, t)' = Rows(d, t)
             /\ \A c : Keys(d, t, c)' = Keys(d, t, c) /\ Clashes(d, t, c)' = Clashes(d, t, c)
  BY <1>2 DEF TablesAndKeysKept, Schema, Attached, Rows, Keys, IndexFile, Clashes
<1>3. AllAttached'
  BY <1>2 DEF KInv, AllAttached
<1>4. IndexesMatch'
  <2> SUFFICES ASSUME NEW d \in Databases, NEW t \in Tables, HasTable(d, t)', NEW c \in Attached(d, t)'
               PROVE  ~Clashes(d, t, c)' /\ Inverts(Keys(d, t, c)', Rows(d, t)', c, Pending(d, t, c)')
    BY DEF IndexesMatch
  <2>1. Pending(d, t, c)' = {}
    BY DEF Resting, Pending, Erasing
  <2>2. Pending(d, t, c) = {}
    BY <1>2, NothingPending
  <2>3. ~Clashes(d, t, c) /\ Inverts(Keys(d, t, c), Rows(d, t), c, Pending(d, t, c))
    BY <1>2 DEF KInv, IndexesMatch
  <2> QED BY <1>2, <2>1, <2>2, <2>3
<1> QED BY <1>1, <1>3, <1>4 DEF KInv

-----------------------------------------------------------------------------
(* Steps of the command that works on the rows of a table.                  *)

WorksOn(d, t) == cmd.pc \in {"insert", "update", "delete"} /\ cmd.db = d /\ cmd.table = t

\* Only the rows of table t change, and no table comes or goes.
MemoryFrame(d, t) ==
    \A e \in Databases, u \in Tables :
        /\ HasTable(e, u)' <=> HasTable(e, u)
        /\ HasTable(e, u) => /\ Schema(e, u)' = Schema(e, u) /\ Attached(e, u)' = Attached(e, u)
                             /\ e # d \/ u # t => Rows(e, u)' = Rows(e, u)

\* Only the keys of indexes of table t change.
KeysFrame(d, t) ==
    \A e \in Databases, u \in Tables : HasTable(e, u) => \A c \in Attached(e, u) :
        /\ IndexFile(e, u, c)'.kind = IndexFile(e, u, c).kind
        /\ e # d \/ u # t => Keys(e, u, c)' = Keys(e, u, c)

LEMMA WorkStep ==
    ASSUME KInv, phase' = "up", NEW d, NEW t, WorksOn(d, t), WorksOn(d, t)', HasTable(d, t),
           MemoryFrame(d, t), KeysFrame(d, t), UpdateIsFree', DeleteIsWhole',
           \A c \in Attached(d, t) : Inverts(Keys(d, t, c)', Rows(d, t)', c, Pending(d, t, c)')
    PROVE  KInv'
<1>1. StartedEmpty' /\ FreshFiles'
  BY DEF StartedEmpty, FreshFiles, WorksOn
<1>2. AllAttached'
  BY DEF KInv, AllAttached, MemoryFrame, WorksOn
<1>3. IndexesMatch'
  <2> SUFFICES ASSUME NEW e \in Databases, NEW u \in Tables, HasTable(e, u)', NEW c \in Attached(e, u)'
               PROVE  ~Clashes(e, u, c)' /\ Inverts(Keys(e, u, c)', Rows(e, u)', c, Pending(e, u, c)')
    BY DEF IndexesMatch
  <2>1. HasTable(e, u) /\ c \in Attached(e, u)
    BY DEF MemoryFrame
  <2>2. ~Clashes(e, u, c) /\ Inverts(Keys(e, u, c), Rows(e, u), c, Pending(e, u, c))
    BY <2>1 DEF KInv, IndexesMatch
  <2>3. ~Clashes(e, u, c)'
    BY <2>1, <2>2 DEF Clashes, MemoryFrame, KeysFrame
  <2>4. CASE e = d /\ u = t
    BY <2>1, <2>3, <2>4
  <2>5. CASE e # d \/ u # t
    <3>1. Pending(e, u, c) = {} /\ Pending(e, u, c)' = {}
      BY <2>5 DEF Pending, WorksOn
    <3>2. Keys(e, u, c)' = Keys(e, u, c) /\ Rows(e, u)' = Rows(e, u)
      BY <2>1, <2>5 DEF MemoryFrame, KeysFrame
    <3> QED BY <2>2, <2>3, <3>1, <3>2
  <2> QED BY <2>4, <2>5
<1> QED BY <1>1, <1>2, <1>3 DEF KInv

\* What the command works on.
LEMMA AtWork ==
    ASSUME IInv, KInv, NEW d, NEW t, WorksOn(d, t)
    PROVE  /\ phase = "up" /\ HasTable(d, t)
           /\ d \in Databases /\ t \in Tables /\ d \in DOMAIN dbs /\ t \in DOMAIN dbs[d] /\ d \in DOMAIN files
           /\ SoundTable(dbs[d][t])
           /\ \A c \in Attached(d, t) :
                 /\ c \in Columns /\ c \in IndexedColumns(Schema(d, t))
                 /\ <<t, c>> \in DOMAIN files[d].idx
                 /\ ~Clashes(d, t, c) /\ SoundKeys(Keys(d, t, c))
                 /\ Inverts(Keys(d, t, c), Rows(d, t), c, Pending(d, t, c))
<1>1. phase = "up"
  BY Busy DEF WorksOn
<1>2. HasTable(d, t) /\ d \in Databases /\ t \in Tables
  BY DEF IInv, CommandOK, WorksOn, InsertCommand, UpdateCommand, DeleteCommand
<1>3. d \in DOMAIN dbs /\ t \in DOMAIN dbs[d] /\ SoundTable(dbs[d][t])
  BY <1>2 DEF IInv, MemoryOK, HasTable
<1>4. d \in DOMAIN files
  BY <1>1, <1>3 DEF IInv, ProcessOK
<1> SUFFICES ASSUME NEW c \in Attached(d, t)
             PROVE  /\ c \in Columns /\ c \in IndexedColumns(Schema(d, t))
                    /\ <<t, c>> \in DOMAIN files[d].idx
                    /\ ~Clashes(d, t, c) /\ SoundKeys(Keys(d, t, c))
                    /\ Inverts(Keys(d, t, c), Rows(d, t), c, Pending(d, t, c))
  BY <1>1, <1>2, <1>3, <1>4
<1>5. c \in IndexedColumns(Schema(d, t)) /\ c \in Columns
  BY <1>3 DEF SoundTable, IsTable, Attached, Schema, IndexedColumns
<1>6. <<t, c>> \in DOMAIN files[d].idx
  BY <1>3 DEF IInv, ProcessOK, Attached
<1>7. SoundKeys(Keys(d, t, c))
  BY <1>4, <1>6 DEF IInv, DiskOK, SoundDirectory, SoundIndex, Keys, IndexFile
<1> QED BY <1>2, <1>5, <1>6, <1>7 DEF KInv, IndexesMatch

\* No row that fits its table has NULL in an attached column.
LEMMA IndexedValue ==
    ASSUME IInv, KInv, NEW d, NEW t, WorksOn(d, t), NEW row \in Row, Fits(Schema(d, t), row),
           NEW c \in Attached(d, t)
    PROVE  row[c] \in Values
<1>1. /\ c \in Columns /\ Schema(d, t)[c].indexed
      /\ Schema(d, t) \in Schemas
  BY AtWork DEF IndexedColumns, SoundTable, IsTable, IsImage, Schema
<1>2. Schema(d, t)[c].notNull
  BY <1>1, SchemasAssumption DEF IndexedColumns
<1> QED BY <1>1, <1>2 DEF Fits, Row

\* One index file changes its keys.
LEMMA SetKeysFrame ==
    ASSUME IInv, NEW d \in DOMAIN files, NEW t, NEW c, <<t, c>> \in DOMAIN files[d].idx,
           NEW keys, SetKeys(d, t, c, keys)
    PROVE  \A e \in DOMAIN files : \A u, b : <<u, b>> \in DOMAIN files[e].idx =>
               /\ IndexFile(e, u, b)'.kind = IndexFile(e, u, b).kind
               /\ Keys(e, u, b)' = IF e = d /\ u = t /\ b = c THEN keys ELSE Keys(e, u, b)
<1> DEFINE f == <<t, c>>
           index == [files[d].idx[f] EXCEPT !.keys = keys]
           dir == [files[d] EXCEPT !.idx = [files[d].idx EXCEPT ![f] = index]]
<1>1. files' = [files EXCEPT ![d] = dir]
  BY DEF SetKeys
<1>2. SoundDirectory(files[d]) /\ SoundIndex(files[d].idx[f])
  BY DEF IInv, DiskOK, SoundDirectory
<1>3. index.keys = keys /\ index.kind = files[d].idx[f].kind
  BY <1>2 DEF SoundIndex
<1> HIDE DEF index
<1>4. \A g \in DOMAIN files[d].idx : dir.idx[g] = IF g = f THEN index ELSE files[d].idx[g]
  BY <1>2 DEF SoundDirectory
<1> HIDE DEF dir
<1>5. \A e \in DOMAIN files : files'[e] = IF e = d THEN dir ELSE files[e]
  BY <1>1
<1> SUFFICES ASSUME NEW e \in DOMAIN files, NEW u, NEW b, <<u, b>> \in DOMAIN files[e].idx
             PROVE  /\ files'[e].idx[<<u, b>>].kind = files[e].idx[<<u, b>>].kind
                    /\ files'[e].idx[<<u, b>>].keys =
                          IF e = d /\ u = t /\ b = c THEN keys ELSE files[e].idx[<<u, b>>].keys
  BY DEF IndexFile, Keys
<1>6. <<u, b>> = f <=> u = t /\ b = c
  OBVIOUS
<1> HIDE DEF f
<1> QED BY <1>3, <1>4, <1>5, <1>6

\* A key inserted or erased leaves every other index alone, ...
LEMMA KeyAtWork ==
    ASSUME IInv, KInv, NEW d, NEW t, WorksOn(d, t), NEW c \in Attached(d, t),
           NEW keys, SetKeys(d, t, c, keys)
    PROVE  /\ KeysFrame(d, t)
           /\ \A b \in Attached(d, t) : Keys(d, t, b)' = IF b = c THEN keys ELSE Keys(d, t, b)
<1>1. d \in DOMAIN files /\ (\A b \in Attached(d, t) : <<t, b>> \in DOMAIN files[d].idx) /\ phase = "up"
  BY AtWork
<1>2. \A e \in DOMAIN files : \A u, b : <<u, b>> \in DOMAIN files[e].idx =>
         /\ IndexFile(e, u, b)'.kind = IndexFile(e, u, b).kind
         /\ Keys(e, u, b)' = IF e = d /\ u = t /\ b = c THEN keys ELSE Keys(e, u, b)
  <2>1. d \in DOMAIN files /\ <<t, c>> \in DOMAIN files[d].idx
    BY <1>1
  <2> QED BY <2>1, SetKeysFrame DEF SetKeys, Keys, IndexFile
<1>3. \A e \in Databases, u \in Tables : HasTable(e, u) => \A b \in Attached(e, u) :
         e \in DOMAIN files /\ <<u, b>> \in DOMAIN files[e].idx
  BY <1>1 DEF IInv, ProcessOK, HasTable, Attached
<1>4. KeysFrame(d, t)
  BY <1>2, <1>3 DEF KeysFrame
<1> QED BY <1>1, <1>2, <1>4

\* ... and a row that changes every other table.
LEMMA RowAtWork ==
    ASSUME IInv, KInv, NEW d, NEW t, WorksOn(d, t),
           NEW table, table.schema = Schema(d, t), table.indexes = Attached(d, t), SetTable(d, t, table)
    PROVE  MemoryFrame(d, t) /\ Rows(d, t)' = table.rows /\ Attached(d, t)' = Attached(d, t)
<1>1. d \in DOMAIN dbs /\ t \in DOMAIN dbs[d]
  BY AtWork
<1>2. dbs' = [dbs EXCEPT ![d] = [dbs[d] EXCEPT ![t] = table]]
  BY DEF SetTable
<1>3. DOMAIN dbs' = DOMAIN dbs /\ \A e \in DOMAIN dbs : DOMAIN dbs'[e] = DOMAIN dbs[e]
  BY <1>2
<1>4. \A e \in DOMAIN dbs : \A u \in DOMAIN dbs[e] :
         dbs'[e][u] = IF e = d /\ u = t THEN table ELSE dbs[e][u]
  BY <1>1, <1>2
<1>5. MemoryFrame(d, t)
  BY <1>3, <1>4 DEF MemoryFrame, HasTable, Schema, Attached, Rows
<1>6. dbs'[d][t] = table
  BY <1>1, <1>4
<1> QED BY <1>5, <1>6 DEF Rows, Attached

LEMMA MemoryStays == ASSUME dbs' = dbs, NEW d, NEW t PROVE MemoryFrame(d, t)
BY DEF MemoryFrame, HasTable, Schema, Attached, Rows

LEMMA KeysStay == ASSUME files' = files, NEW d, NEW t PROVE KeysFrame(d, t)
BY DEF KeysFrame, IndexFile, Keys

-----------------------------------------------------------------------------
(* INSERT.                                                                  *)

\* The row gets a new id, and no index has its value: Table::validate asked.
LEMMA InsertRowKeys ==
    ASSUME IInv, IInv', KInv, InsertRow, NEW d, NEW t, WorksOn(d, t)
    PROVE  KInv'
<1> DEFINE table == dbs[d][t]
           row == RowOf(table.schema, Head(cmd.rows))
           n == table.nextId
           new == [schema |-> table.schema, rows |-> With(table.rows, n, row),
                   order |-> Append(table.order, n), nextId |-> n + 1, indexes |-> table.indexes]
<1>1. /\ cmd.pc = "insert" /\ cmd.cols = {} /\ Valid(d, t, row, None) /\ SetTable(d, t, new)
      /\ cmd' = [cmd EXCEPT !.rows = Tail(@), !.id = n, !.cols = table.indexes]
      /\ phase' = phase /\ files' = files
  BY DEF InsertRow, Continue, WorksOn
<1>2. /\ phase = "up" /\ HasTable(d, t) /\ SoundTable(table)
      /\ \A c \in Attached(d, t) :
            /\ c \in Columns /\ c \in IndexedColumns(Schema(d, t))
            /\ SoundKeys(Keys(d, t, c))
            /\ Inverts(Keys(d, t, c), Rows(d, t), c, Pending(d, t, c))
  BY AtWork
<1>3. /\ cmd'.pc = "insert" /\ cmd'.db = d /\ cmd'.table = t /\ cmd'.id = n /\ cmd'.cols = Attached(d, t)
  BY <1>1 DEF IInv, CommandOK, InsertCommand, WorksOn, Attached
<1>4. MemoryFrame(d, t) /\ Rows(d, t)' = With(Rows(d, t), n, row) /\ Attached(d, t)' = Attached(d, t)
  BY <1>1, RowAtWork DEF Schema, Attached, Rows
<1>5. n \notin DOMAIN Rows(d, t)
  BY <1>2, RowIdsProperties DEF SoundTable, IsTable, IsImage, Rows
<1>6. ASSUME NEW c \in Attached(d, t)
      PROVE  Inverts(Keys(d, t, c)', Rows(d, t)', c, Pending(d, t, c)')
  <2>1. Pending(d, t, c) = {} /\ Pending(d, t, c)' = {n}
    BY <1>1, <1>3 DEF Pending, WorksOn, Erasing
  <2>2. Free(d, t, c, row[c], None)
    BY <1>1, <1>2 DEF Valid
  <2>3. row[c] \notin DOMAIN Keys(d, t, c)
    BY <1>2, <2>2, NamesAssumption DEF Free, Taken, SoundKeys, RowIds
  <2>4. Keys(d, t, c)' = Keys(d, t, c)
    BY <1>1 DEF Keys, IndexFile
  <2>5. Inverts(Keys(d, t, c), With(Rows(d, t), n, row), c, {n})
    BY <1>2, <1>5, <2>1, <2>3, InvertsNewRow
  <2> QED BY <1>4, <2>1, <2>4, <2>5
<1>7. KeysFrame(d, t)
  BY <1>1, KeysStay
<1>8. UpdateIsFree' /\ DeleteIsWhole' /\ WorksOn(d, t)' /\ phase' = "up"
  BY <1>1, <1>2, <1>3 DEF UpdateIsFree, DeleteIsWhole, WorksOn
<1> HIDE DEF table, row, n, new
<1> QED BY <1>2, <1>4, <1>6, <1>7, <1>8, WorkStep

LEMMA IndexRowKeys ==
    ASSUME IInv, IInv', KInv, IndexRow, NEW d, NEW t, WorksOn(d, t)
    PROVE  KInv'
<1>1. PICK c \in cmd.cols :
        LET v == Rows(cmd.db, cmd.table)[cmd.id][c] IN
        /\ Insertable(cmd.db, cmd.table, c, v)
        /\ SetKeys(cmd.db, cmd.table, c, With(Keys(cmd.db, cmd.table, c), v, cmd.id))
        /\ Continue([cmd EXCEPT !.cols = @ \ {c}])
  BY DEF IndexRow
<1> DEFINE id == cmd.id
           v == Rows(d, t)[id][c]
           keys == With(Keys(d, t, c), v, id)
<1>2. /\ cmd.pc = "insert" /\ phase' = phase /\ dbs' = dbs /\ SetKeys(d, t, c, keys)
      /\ cmd' = [cmd EXCEPT !.cols = @ \ {c}]
  BY <1>1 DEF IndexRow, Continue, WorksOn
<1>3. /\ phase = "up" /\ HasTable(d, t)
      /\ \A b \in Attached(d, t) : Inverts(Keys(d, t, b), Rows(d, t), b, Pending(d, t, b))
  BY AtWork
<1>4. c \in Attached(d, t) /\ id \in DOMAIN Rows(d, t)
  BY <1>2 DEF IInv, CommandOK, InsertCommand, WorksOn
<1>5. cmd'.pc = "insert" /\ cmd'.db = d /\ cmd'.table = t /\ cmd'.id = id /\ cmd'.cols = cmd.cols \ {c}
  BY <1>2 DEF IInv, CommandOK, InsertCommand, WorksOn
<1>6. KeysFrame(d, t) /\ \A b \in Attached(d, t) : Keys(d, t, b)' = IF b = c THEN keys ELSE Keys(d, t, b)
  <2> HIDE DEF keys
  <2> QED BY <1>2, <1>4, KeyAtWork
<1>7. MemoryFrame(d, t) /\ Rows(d, t)' = Rows(d, t)
  BY <1>2, MemoryStays DEF Rows
<1>8. ASSUME NEW b \in Attached(d, t)
      PROVE  Inverts(Keys(d, t, b)', Rows(d, t)', b, Pending(d, t, b)')
  <2>1. CASE b = c
    <3>1. Pending(d, t, b) = {id} /\ Pending(d, t, b)' = {}
      BY <1>2, <1>5, <2>1 DEF Pending, WorksOn, Erasing
    <3>2. Inverts(keys, Rows(d, t), c, {})
      BY <1>3, <1>4, <2>1, <3>1, InvertsInsert
    <3> HIDE DEF keys
    <3> QED BY <1>6, <1>7, <2>1, <3>1, <3>2
  <2>2. CASE b # c
    <3>1. Pending(d, t, b)' = Pending(d, t, b)
      BY <1>2, <1>5, <2>2 DEF Pending, WorksOn, Erasing
    <3>2. Keys(d, t, b)' = Keys(d, t, b)
      BY <1>6, <2>2
    <3> QED BY <1>3, <1>7, <3>1, <3>2
  <2> QED BY <2>1, <2>2
<1>9. UpdateIsFree' /\ DeleteIsWhole' /\ WorksOn(d, t)' /\ phase' = "up"
  BY <1>2, <1>3, <1>5 DEF UpdateIsFree, DeleteIsWhole, WorksOn
<1> HIDE DEF id, v, keys
<1> QED BY <1>3, <1>6, <1>7, <1>8, <1>9, WorkStep

\* A value that fits its table, has no key yet and is indexed has its place.
LEMMA FreeKeyInserts ==
    ASSUME IInv, KInv, Indexable = Values, NEW d, NEW t, WorksOn(d, t), NEW c \in Attached(d, t),
           NEW v \in Values, v \notin DOMAIN Keys(d, t, c)
    PROVE  Insertable(d, t, c, v)
BY AtWork DEF Insertable

LEMMA IndexThrowsNever ==
    ASSUME IInv, KInv, Indexable = Values, NEW d, NEW t, WorksOn(d, t)
    PROVE  ~IndexThrows
<1> SUFFICES ASSUME IndexThrows PROVE FALSE
  OBVIOUS
<1>1. PICK c \in cmd.cols : ~Insertable(cmd.db, cmd.table, c, Rows(cmd.db, cmd.table)[cmd.id][c])
  BY DEF IndexThrows
<1> DEFINE row == Rows(d, t)[cmd.id]
<1>2. cmd.pc = "insert" /\ ~Insertable(d, t, c, row[c])
  BY <1>1 DEF IndexThrows, WorksOn
<1>3. c \in Attached(d, t) /\ cmd.id \in DOMAIN Rows(d, t)
  BY <1>2 DEF IInv, CommandOK, InsertCommand, WorksOn
<1>4. row \in Row /\ Fits(Schema(d, t), row)
  BY <1>3, AtWork DEF SoundTable, IsTable, IsImage, Fitting, Rows, Schema
<1> HIDE DEF row
<1>5. row[c] \in Values
  BY <1>3, <1>4, IndexedValue
<1>6. Pending(d, t, c) = {cmd.id}
  BY <1>2 DEF Pending, WorksOn
<1>7. row[c] \notin DOMAIN Keys(d, t, c)
  BY <1>3, <1>6, AtWork DEF Inverts, row
<1> QED BY <1>2, <1>3, <1>5, <1>7, FreeKeyInserts

-----------------------------------------------------------------------------
(* UPDATE.                                                                  *)

\* The assignment at hand, and the row it makes.
LEMMA AssignmentAtWork ==
    ASSUME IInv, KInv, cmd.pc = "update", cmd.todo # <<>>, NEW d, NEW t, WorksOn(d, t)
    PROVE  LET a == Head(cmd.todo)
               row == Updated(a)
           IN  /\ a.col \in Columns /\ cmd.id \in DOMAIN Rows(d, t) /\ Rows(d, t)[cmd.id] \in Row
               /\ row \in Row /\ row[a.col] = a.val
               /\ \A c \in Columns \ {a.col} : row[c] = Rows(d, t)[cmd.id][c]
<1> DEFINE a == Head(cmd.todo)
           old == Rows(d, t)[cmd.id]
<1>1. a.col \in Columns /\ a.val \in Values \cup {Null} /\ cmd.id \in DOMAIN Rows(d, t)
  BY Assignment DEF WorksOn
<1>2. old \in Row
  BY <1>1, AtWork DEF SoundTable, IsTable, IsImage, Rows
<1>3. Updated(a) = [old EXCEPT ![a.col] = a.val]
  BY DEF Updated, WorksOn
<1> HIDE DEF a, old
<1>4. /\ Updated(a) \in Row /\ Updated(a)[a.col] = a.val
      /\ \A c \in Columns \ {a.col} : Updated(a)[c] = old[c]
  BY <1>1, <1>2, <1>3 DEF Row
<1> QED BY <1>1, <1>2, <1>4 DEF a, old

\* The table with the row stored.
LEMMA StoredRow ==
    ASSUME IInv, KInv, cmd.pc = "update", cmd.todo # <<>>, NEW d, NEW t, WorksOn(d, t),
           Fits(Schema(d, t), Updated(Head(cmd.todo))), StoreUpdated(Head(cmd.todo))
    PROVE  /\ MemoryFrame(d, t) /\ Attached(d, t)' = Attached(d, t)
           /\ DOMAIN Rows(d, t)' = DOMAIN Rows(d, t)
           /\ \A i \in DOMAIN Rows(d, t) :
                 Rows(d, t)'[i] = IF i = cmd.id THEN Updated(Head(cmd.todo)) ELSE Rows(d, t)[i]
<1> DEFINE row == Updated(Head(cmd.todo))
           new == [dbs[d][t] EXCEPT !.rows[cmd.id] = row]
<1>1. SoundTable(dbs[d][t]) /\ cmd.id \in DOMAIN dbs[d][t].rows /\ row \in Row
  BY AtWork, AssignmentAtWork DEF Rows
<1>2. Fits(dbs[d][t].schema, row) /\ SetTable(d, t, new)
  BY DEF Schema, StoreUpdated, WorksOn
<1> HIDE DEF row
<1>3. /\ new.schema = dbs[d][t].schema /\ new.indexes = dbs[d][t].indexes
      /\ DOMAIN new.rows = DOMAIN dbs[d][t].rows
      /\ \A i \in DOMAIN dbs[d][t].rows : new.rows[i] = IF i = cmd.id THEN row ELSE dbs[d][t].rows[i]
  BY <1>1, <1>2, UpdatedTable
<1> HIDE DEF new
<1>4. MemoryFrame(d, t) /\ Rows(d, t)' = new.rows /\ Attached(d, t)' = Attached(d, t)
  BY <1>2, <1>3, RowAtWork DEF Schema, Attached
<1> QED BY <1>3, <1>4 DEF Rows, row

\* A column without an index: no indexed value changes.
LEMMA UpdatePlainKeys ==
    ASSUME IInv, IInv', KInv, UpdatePlain, NEW d, NEW t, WorksOn(d, t)
    PROVE  KInv'
<1> DEFINE a == Head(cmd.todo)
<1>1. /\ cmd.pc = "update" /\ cmd.todo # <<>> /\ Valid(d, t, Updated(a), cmd.id)
      /\ a.col \notin Attached(d, t) /\ StoreUpdated(a)
      /\ cmd' = [cmd EXCEPT !.todo = Tail(@)] /\ phase' = phase /\ files' = files
  BY DEF UpdatePlain, Continue, WorksOn
<1>2. /\ phase = "up" /\ HasTable(d, t)
      /\ \A c \in Attached(d, t) : c \in Columns /\ Inverts(Keys(d, t, c), Rows(d, t), c, Pending(d, t, c))
  BY AtWork
<1>3. ~cmd.erased
  BY <1>1 DEF IInv, CommandOK, UpdateCommand, WorksOn
<1>4. cmd'.pc = "update" /\ cmd'.db = d /\ cmd'.table = t /\ ~cmd'.erased
  BY <1>1, <1>3 DEF IInv, CommandOK, UpdateCommand, WorksOn
<1>5. /\ MemoryFrame(d, t) /\ DOMAIN Rows(d, t)' = DOMAIN Rows(d, t)
      /\ \A i \in DOMAIN Rows(d, t) : Rows(d, t)'[i] = IF i = cmd.id THEN Updated(a) ELSE Rows(d, t)[i]
  BY <1>1, StoredRow DEF Valid
<1>6. KeysFrame(d, t)
  BY <1>1, KeysStay
<1>7. ASSUME NEW c \in Attached(d, t)
      PROVE  Inverts(Keys(d, t, c)', Rows(d, t)', c, Pending(d, t, c)')
  <2>1. Pending(d, t, c) = {} /\ Pending(d, t, c)' = {}
    BY <1>1, <1>3, <1>4 DEF Pending, Erasing
  <2>2. \A i \in DOMAIN Rows(d, t) : Rows(d, t)'[i][c] = Rows(d, t)[i][c]
    <3>1. Updated(a)[c] = Rows(d, t)[cmd.id][c]
      BY <1>1, <1>2, AssignmentAtWork
    <3> HIDE DEF a
    <3> QED BY <1>5, <3>1
  <2>3. Keys(d, t, c)' = Keys(d, t, c)
    BY <1>1 DEF Keys, IndexFile
  <2>4. Inverts(Keys(d, t, c), Rows(d, t), c, {})
    BY <1>2, <2>1
  <2> HIDE DEF a
  <2>5. Inverts(Keys(d, t, c), Rows(d, t)', c, {})
    BY <1>5, <2>2, <2>4, InvertsOther
  <2> QED BY <2>1, <2>3, <2>5
<1>8. UpdateIsFree' /\ DeleteIsWhole' /\ WorksOn(d, t)' /\ phase' = "up"
  BY <1>1, <1>2, <1>4 DEF UpdateIsFree, DeleteIsWhole, WorksOn
<1> HIDE DEF a
<1> QED BY <1>2, <1>5, <1>6, <1>7, <1>8, WorkStep

\* The new key is free once the old one is gone: Table::validate found it for
\* no other row.
LEMMA UpdateErasesKeyKeys ==
    ASSUME IInv, IInv', KInv, UpdateErasesKey, NEW d, NEW t, WorksOn(d, t)
    PROVE  KInv'
<1> DEFINE a == Head(cmd.todo)
           id == cmd.id
           old == Rows(d, t)[id][a.col]
           keys == Without(Keys(d, t, a.col), old)
<1>1. /\ cmd.pc = "update" /\ cmd.todo # <<>> /\ ~cmd.erased /\ Valid(d, t, Updated(a), id)
      /\ a.col \in Attached(d, t) /\ SetKeys(d, t, a.col, keys)
      /\ cmd' = [cmd EXCEPT !.erased = TRUE] /\ phase' = phase /\ dbs' = dbs
  BY DEF UpdateErasesKey, Continue, WorksOn, KeysAfterErase
<1>2. /\ phase = "up" /\ HasTable(d, t)
      /\ \A c \in Attached(d, t) : c \in Columns /\ c \in IndexedColumns(Schema(d, t))
                                   /\ Inverts(Keys(d, t, c), Rows(d, t), c, Pending(d, t, c))
  BY AtWork
<1>3. /\ cmd'.pc = "update" /\ cmd'.db = d /\ cmd'.table = t /\ cmd'.erased
      /\ cmd'.id = id /\ cmd'.todo = cmd.todo
  BY <1>1 DEF IInv, CommandOK, UpdateCommand, WorksOn
<1>4. KeysFrame(d, t) /\ \A b \in Attached(d, t) : Keys(d, t, b)' = IF b = a.col THEN keys ELSE Keys(d, t, b)
  <2> HIDE DEF keys, a
  <2> QED BY <1>1, KeyAtWork
<1>5. MemoryFrame(d, t) /\ Rows(d, t)' = Rows(d, t)
  BY <1>1, MemoryStays DEF Rows
<1>6. \A b \in Attached(d, t) : Pending(d, t, b) = {} /\ Pending(d, t, b)' = IF b = a.col THEN {id} ELSE {}
  BY <1>1, <1>3 DEF Pending, WorksOn, Erasing
<1>7. /\ id \in DOMAIN Rows(d, t) /\ Updated(a) \in Row /\ Updated(a)[a.col] = a.val
  BY <1>1, AssignmentAtWork
<1>8. Inverts(Keys(d, t, a.col), Rows(d, t), a.col, {})
  BY <1>1, <1>2, <1>6
<1>9. Inverts(keys, Rows(d, t), a.col, {id})
  <2> HIDE DEF a
  <2> QED BY <1>7, <1>8, InvertsErase
<1>10. a.val \in Values \ DOMAIN keys
  <2> HIDE DEF a, id
  <2>1. a.val \in Values
    BY <1>1, <1>7, IndexedValue DEF Valid
  <2>2. a.val \in DOMAIN Keys(d, t, a.col) => Keys(d, t, a.col)[a.val] = id
    BY <1>1, <1>2, <1>7 DEF Valid, Free, Taken
  <2>3. a.val \in DOMAIN Keys(d, t, a.col) => a.val = old
    BY <1>7, <1>8, <2>2 DEF Inverts
  <2>4. DOMAIN keys = DOMAIN Keys(d, t, a.col) \ {old}
    BY DEF Without, Restrict
  <2> QED BY <2>1, <2>3, <2>4
<1>11. ASSUME NEW b \in Attached(d, t)
       PROVE  Inverts(Keys(d, t, b)', Rows(d, t)', b, Pending(d, t, b)')
  <2>1. CASE b = a.col
    <3>1. Keys(d, t, b)' = keys /\ Pending(d, t, b)' = {id}
      BY <1>4, <1>6, <2>1
    <3> HIDE DEF keys, a, id
    <3> QED BY <1>5, <1>9, <2>1, <3>1
  <2>2. CASE b # a.col
    <3>1. Keys(d, t, b)' = Keys(d, t, b) /\ Pending(d, t, b)' = {} /\ Pending(d, t, b) = {}
      BY <1>4, <1>6, <2>2
    <3> QED BY <1>2, <1>5, <3>1
  <2> QED BY <2>1, <2>2
<1>12. UpdateIsFree'
  <2>1. files'[d].idx[<<t, a.col>>].keys = keys
    BY <1>1, <1>4 DEF Keys, IndexFile
  <2>2. Head(cmd'.todo) = a /\ cmd'.db = d /\ cmd'.table = t
    BY <1>3
  <2> HIDE DEF keys, a
  <2> QED BY <1>10, <2>1, <2>2 DEF UpdateIsFree, Keys, IndexFile
<1>13. DeleteIsWhole' /\ WorksOn(d, t)' /\ phase' = "up"
  BY <1>1, <1>2, <1>3 DEF DeleteIsWhole, WorksOn
<1> HIDE DEF a, id, old, keys
<1> QED BY <1>2, <1>4, <1>5, <1>11, <1>12, <1>13, WorkStep

LEMMA UpdateInsertsKeyKeys ==
    ASSUME IInv, IInv', KInv, UpdateInsertsKey, NEW d, NEW t, WorksOn(d, t)
    PROVE  KInv'
<1> DEFINE a == Head(cmd.todo)
           id == cmd.id
           keys == With(Keys(d, t, a.col), a.val, id)
<1>1. /\ cmd.pc = "update" /\ cmd.erased /\ SetKeys(d, t, a.col, keys) /\ StoreUpdated(a)
      /\ cmd' = [cmd EXCEPT !.todo = Tail(@), !.erased = FALSE] /\ phase' = phase
  BY DEF UpdateInsertsKey, Continue, WorksOn
<1>2. /\ phase = "up" /\ HasTable(d, t)
      /\ \A c \in Attached(d, t) : c \in Columns /\ Inverts(Keys(d, t, c), Rows(d, t), c, Pending(d, t, c))
  BY AtWork
<1>3. /\ cmd.todo # <<>> /\ a.col \in Attached(d, t) /\ Fits(Schema(d, t), Updated(a))
      /\ cmd'.pc = "update" /\ cmd'.db = d /\ cmd'.table = t /\ ~cmd'.erased
  BY <1>1 DEF IInv, CommandOK, UpdateCommand, WorksOn
<1>4. KeysFrame(d, t) /\ \A b \in Attached(d, t) : Keys(d, t, b)' = IF b = a.col THEN keys ELSE Keys(d, t, b)
  <2> HIDE DEF keys, a
  <2> QED BY <1>1, <1>3, KeyAtWork
<1>5. /\ MemoryFrame(d, t) /\ DOMAIN Rows(d, t)' = DOMAIN Rows(d, t)
      /\ \A i \in DOMAIN Rows(d, t) : Rows(d, t)'[i] = IF i = id THEN Updated(a) ELSE Rows(d, t)[i]
  BY <1>1, <1>3, StoredRow
<1>6. \A b \in Attached(d, t) : Pending(d, t, b) = (IF b = a.col THEN {id} ELSE {}) /\ Pending(d, t, b)' = {}
  BY <1>1, <1>3 DEF Pending, WorksOn, Erasing
<1>7. /\ id \in DOMAIN Rows(d, t) /\ Updated(a)[a.col] = a.val
      /\ \A c \in Columns \ {a.col} : Updated(a)[c] = Rows(d, t)[id][c]
  BY <1>1, <1>3, AssignmentAtWork
<1>8. a.val \notin DOMAIN Keys(d, t, a.col)
  BY <1>1 DEF KInv, UpdateIsFree, WorksOn
<1>9. ASSUME NEW b \in Attached(d, t)
      PROVE  Inverts(Keys(d, t, b)', Rows(d, t)', b, Pending(d, t, b)')
  <2>1. Inverts(Keys(d, t, b), Rows(d, t), b, Pending(d, t, b)) /\ b \in Columns
    BY <1>2
  <2>2. CASE b = a.col
    <3>1. Keys(d, t, b)' = keys /\ Pending(d, t, b)' = {} /\ Pending(d, t, b) = {id}
      BY <1>4, <1>6, <2>2
    <3>2. Inverts(Keys(d, t, a.col), Rows(d, t), a.col, {id})
      BY <2>1, <2>2, <3>1
    <3>3. /\ \A i \in DOMAIN Rows(d, t) \ {id} : Rows(d, t)'[i] = Rows(d, t)[i]
          /\ Rows(d, t)'[id] = Updated(a)
      <4> HIDE DEF a, id
      <4> QED BY <1>5, <1>7
    <3> HIDE DEF a, id
    <3>4. Inverts(With(Keys(d, t, a.col), Updated(a)[a.col], id), Rows(d, t)', a.col, {})
      BY <1>5, <1>7, <1>8, <3>2, <3>3, InvertsStore
    <3>5. Inverts(keys, Rows(d, t)', b, {})
      BY <1>7, <2>2, <3>4
    <3> HIDE DEF keys
    <3> QED BY <3>1, <3>5
  <2>3. CASE b # a.col
    <3>1. Keys(d, t, b)' = Keys(d, t, b) /\ Pending(d, t, b)' = {} /\ Pending(d, t, b) = {}
      BY <1>4, <1>6, <2>3
    <3>2. \A i \in DOMAIN Rows(d, t) : Rows(d, t)'[i][b] = Rows(d, t)[i][b]
      <4>1. Updated(a)[b] = Rows(d, t)[id][b]
        BY <1>7, <2>1, <2>3
      <4> HIDE DEF a, id
      <4> QED BY <1>5, <4>1
    <3> HIDE DEF a, id, keys
    <3>3. Inverts(Keys(d, t, b), Rows(d, t)', b, {})
      BY <1>5, <2>1, <3>1, <3>2, InvertsOther
    <3> QED BY <3>1, <3>3
  <2> QED BY <2>2, <2>3
<1>10. UpdateIsFree' /\ DeleteIsWhole' /\ WorksOn(d, t)' /\ phase' = "up"
  BY <1>1, <1>2, <1>3 DEF UpdateIsFree, DeleteIsWhole, WorksOn
<1> HIDE DEF a, id, keys
<1> QED BY <1>2, <1>4, <1>5, <1>9, <1>10, WorkStep

LEMMA UpdateThrowsNever ==
    ASSUME IInv, KInv, Indexable = Values, NEW d, NEW t, WorksOn(d, t)
    PROVE  ~UpdateThrows
<1> SUFFICES ASSUME UpdateThrows PROVE FALSE
  OBVIOUS
<1> DEFINE a == Head(cmd.todo)
<1>1. cmd.pc = "update" /\ cmd.erased /\ ~Insertable(d, t, a.col, a.val)
  BY DEF UpdateThrows, WorksOn
<1>2. a.col \in Attached(d, t)
  BY <1>1 DEF IInv, CommandOK, UpdateCommand, WorksOn
<1>3. a.val \in Values \ DOMAIN Keys(d, t, a.col)
  BY <1>1 DEF KInv, UpdateIsFree, WorksOn
<1> HIDE DEF a
<1> QED BY <1>1, <1>2, <1>3, FreeKeyInserts

-----------------------------------------------------------------------------
(* DELETE.                                                                  *)

LEMMA DeleteKeyKeys ==
    ASSUME IInv, IInv', KInv, DeleteKey, NEW d, NEW t, WorksOn(d, t)
    PROVE  KInv'
<1> DEFINE id == Head(cmd.ids)
<1>1. PICK c \in cmd.cols :
        /\ SetKeys(d, t, c, Without(Keys(d, t, c), Rows(d, t)[id][c]))
        /\ Continue([cmd EXCEPT !.cols = @ \ {c}])
  BY DEF DeleteKey, WorksOn, KeysAfterErase
<1> DEFINE keys == Without(Keys(d, t, c), Rows(d, t)[id][c])
<1>2. /\ Erasing /\ phase' = phase /\ dbs' = dbs /\ SetKeys(d, t, c, keys)
      /\ cmd' = [cmd EXCEPT !.cols = @ \ {c}]
  BY <1>1 DEF DeleteKey, Continue
<1>3. /\ phase = "up" /\ HasTable(d, t)
      /\ \A b \in Attached(d, t) : Inverts(Keys(d, t, b), Rows(d, t), b, Pending(d, t, b))
  BY AtWork
<1>4. /\ cmd.pc = "delete" /\ c \in Attached(d, t) /\ id \in DOMAIN Rows(d, t)
      /\ cmd'.pc = "delete" /\ cmd'.db = d /\ cmd'.table = t /\ cmd'.ids = cmd.ids /\ cmd'.cols = cmd.cols \ {c}
  BY <1>2 DEF IInv, CommandOK, DeleteCommand, WorksOn, Erasing
<1>5. Erasing'
  BY <1>2, <1>4 DEF Erasing, Rows, WorksOn
<1>6. KeysFrame(d, t) /\ \A b \in Attached(d, t) : Keys(d, t, b)' = IF b = c THEN keys ELSE Keys(d, t, b)
  <2> HIDE DEF keys
  <2> QED BY <1>2, <1>4, KeyAtWork
<1>7. MemoryFrame(d, t) /\ Rows(d, t)' = Rows(d, t)
  BY <1>2, MemoryStays DEF Rows
<1>8. ASSUME NEW b \in Attached(d, t)
      PROVE  Inverts(Keys(d, t, b)', Rows(d, t)', b, Pending(d, t, b)')
  <2>1. CASE b = c
    <3>1. Pending(d, t, b) = {} /\ Pending(d, t, b)' = {id}
      BY <1>2, <1>4, <1>5, <2>1 DEF Pending, WorksOn
    <3>2. Inverts(keys, Rows(d, t), c, {id})
      BY <1>3, <1>4, <2>1, <3>1, InvertsErase
    <3> HIDE DEF keys, id
    <3> QED BY <1>6, <1>7, <2>1, <3>1, <3>2
  <2>2. CASE b # c
    <3>1. Pending(d, t, b)' = Pending(d, t, b)
      BY <1>2, <1>4, <1>5, <2>2 DEF Pending, WorksOn
    <3>2. Keys(d, t, b)' = Keys(d, t, b)
      BY <1>6, <2>2
    <3> QED BY <1>3, <1>7, <3>1, <3>2
  <2> QED BY <2>1, <2>2
<1>9. UpdateIsFree' /\ DeleteIsWhole' /\ WorksOn(d, t)' /\ phase' = "up"
  BY <1>2, <1>3, <1>4, <1>5 DEF UpdateIsFree, DeleteIsWhole, WorksOn
<1> HIDE DEF id, keys
<1> QED BY <1>3, <1>6, <1>7, <1>8, <1>9, WorkStep

LEMMA DeleteRowKeys ==
    ASSUME IInv, IInv', KInv, DeleteRow, NEW d, NEW t, WorksOn(d, t)
    PROVE  KInv'
<1> DEFINE table == dbs[d][t]
           id == Head(cmd.ids)
           new == [schema |-> table.schema, rows |-> Without(table.rows, id),
                   order |-> Erased(table.order, id), nextId |-> table.nextId, indexes |-> table.indexes]
<1>1. /\ Erasing /\ cmd.cols = {} /\ phase' = phase /\ files' = files /\ SetTable(d, t, new)
      /\ cmd' = [cmd EXCEPT !.ids = Tail(@), !.cols = table.indexes]
  BY DEF DeleteRow, Continue, WorksOn
<1>2. /\ phase = "up" /\ HasTable(d, t)
      /\ \A b \in Attached(d, t) : Inverts(Keys(d, t, b), Rows(d, t), b, Pending(d, t, b))
  BY AtWork
<1>3. /\ cmd.pc = "delete"
      /\ cmd'.pc = "delete" /\ cmd'.db = d /\ cmd'.table = t /\ cmd'.cols = Attached(d, t)
  BY <1>1 DEF IInv, CommandOK, DeleteCommand, WorksOn, Erasing, Attached
<1>4. MemoryFrame(d, t) /\ Rows(d, t)' = Without(Rows(d, t), id) /\ Attached(d, t)' = Attached(d, t)
  BY <1>1, RowAtWork DEF Schema, Attached, Rows
<1>5. KeysFrame(d, t)
  BY <1>1, KeysStay
<1>6. ASSUME NEW b \in Attached(d, t)
      PROVE  Inverts(Keys(d, t, b)', Rows(d, t)', b, Pending(d, t, b)')
  <2>1. Pending(d, t, b) = {id} /\ Pending(d, t, b)' = {}
    BY <1>1, <1>3 DEF Pending, WorksOn, Erasing
  <2>2. Keys(d, t, b)' = Keys(d, t, b)
    BY <1>1 DEF Keys, IndexFile
  <2> HIDE DEF id
  <2>3. Inverts(Keys(d, t, b), Without(Rows(d, t), id), b, {})
    BY <1>2, <2>1, InvertsDelete
  <2> QED BY <1>4, <2>1, <2>2, <2>3
<1>7. DeleteIsWhole'
  BY <1>3, <1>4 DEF DeleteIsWhole, Attached
<1>8. UpdateIsFree' /\ WorksOn(d, t)' /\ phase' = "up"
  BY <1>1, <1>2, <1>3 DEF UpdateIsFree, WorksOn
<1> HIDE DEF table, id, new
<1> QED BY <1>2, <1>4, <1>5, <1>6, <1>7, <1>8, WorkStep

-----------------------------------------------------------------------------
(* Commands that begin and end, and save_all.                               *)

\* No table, index or file changes.
LEMMA QuietKeys ==
    ASSUME KInv, phase' = "up", Resting, Resting', UNCHANGED <<dbs, files>>,
           cmd'.pc \notin {"attach", "create"}, cmd.pc \in {"attach", "create"} => cmd.todo = {}
    PROVE  KInv'
<1>1. TablesAndKeysKept
  BY DEF TablesAndKeysKept, HasTable
<1> QED BY <1>1, RestingStep

LEMMA FinishKeys ==
    ASSUME IInv, KInv, phase' = phase, phase = "up", Resting, UNCHANGED <<dbs, files>>,
           NEW answer, Finish(answer), cmd.pc \in {"attach", "create"} => cmd.todo = {}
    PROVE  KInv'
<1>1. cmd'.pc = "idle"
  BY DEF Finish, Idle
<1> QED BY <1>1, QuietKeys DEF Resting

LEMMA SaveKeys ==
    ASSUME IInv, KInv, phase' = phase, phase = "up", Resting, UNCHANGED <<dbs, files>>,
           Continue(Saving(DOMAIN dbs)), cmd.pc \in {"attach", "create"} => cmd.todo = {}
    PROVE  KInv'
<1>1. cmd'.pc = "save"
  BY DEF Continue, Saving
<1> QED BY <1>1, QuietKeys DEF Resting

\* An UPDATE between two assignments, and a DELETE between two rows.
LEMMA UpdateRests == ASSUME IInv, cmd.pc = "update", cmd.todo = <<>> \/ ~cmd.erased PROVE Resting
BY DEF IInv, CommandOK, UpdateCommand, Resting

LEMMA DeleteRests == ASSUME KInv, cmd.pc = "delete", ~Erasing PROVE Resting
BY DEF KInv, DeleteIsWhole, Resting

LEMMA ServingRests == Serving => Resting /\ phase = "up" /\ cmd.pc = "idle"
BY ServingUp DEF Resting

\* Every answer that is no "ok" after save_all leaves the indexes as they are.
LEMMA AnswersKeys ==
    ASSUME IInv, KInv,
           \/ Refuse \/ Serve \/ InsertRejected \/ UpdateRejected \/ EraseThrows \/ Saved
           \/ \E d : UseDatabase(d)
           \/ \E x, t, w : Select(x, t, w) \/ ReadThrows(x, t, w)
    PROVE  KInv'
<1>1. CASE Refuse
  BY <1>1, ServingRests, FinishKeys DEF Refuse
<1>2. CASE Serve
  BY <1>2, Busy, FinishKeys DEF Serve, Resting
<1>3. CASE InsertRejected
  BY <1>3, Busy, FinishKeys DEF InsertRejected, Resting
<1>4. CASE UpdateRejected
  BY <1>4, Busy, UpdateRests, FinishKeys DEF UpdateRejected
<1>5. CASE EraseThrows
  BY <1>5, Busy, DeleteRests, FinishKeys DEF EraseThrows
<1>6. CASE Saved
  BY <1>6, Busy, FinishKeys DEF Saved, Resting
<1>7. ASSUME NEW d, UseDatabase(d) PROVE KInv'
  BY <1>7, ServingRests, FinishKeys DEF UseDatabase
<1>8. ASSUME NEW x, NEW t, NEW w, Select(x, t, w) \/ ReadThrows(x, t, w) PROVE KInv'
  BY <1>8, ServingRests, FinishKeys DEF Select, ReadThrows
<1> QED BY <1>1, <1>2, <1>3, <1>4, <1>5, <1>6, <1>7, <1>8

\* A command that has done its work goes on to save_all.
LEMMA DoneKeys ==
    ASSUME IInv, KInv, TableCreated \/ RowsInserted \/ RowsUpdated \/ RowsDeleted
    PROVE  KInv'
<1>1. CASE TableCreated
  BY <1>1, Busy, SaveKeys DEF TableCreated, Resting
<1>2. CASE RowsInserted
  BY <1>2, Busy, SaveKeys DEF RowsInserted, Resting
<1>3. CASE RowsUpdated
  BY <1>3, Busy, UpdateRests, SaveKeys DEF RowsUpdated
<1>4. CASE RowsDeleted
  BY <1>4, Busy, DeleteRests, SaveKeys DEF RowsDeleted, Erasing
<1> QED BY <1>1, <1>2, <1>3, <1>4

LEMMA BeginKeys ==
    ASSUME IInv, KInv,
           \E x, t : \/ \E rows : BeginInsert(x, t, rows)
                     \/ \E w : BeginDelete(x, t, w)
                     \/ \E w, sets : BeginUpdate(x, t, w, sets)
    PROVE  KInv'
<1> PICK x, t : \/ \E rows : BeginInsert(x, t, rows)
                \/ \E w : BeginDelete(x, t, w)
                \/ \E w, sets : BeginUpdate(x, t, w, sets)
  OBVIOUS
<1>1. ASSUME NEW rows, BeginInsert(x, t, rows) PROVE KInv'
  <2>1. /\ Serving /\ UNCHANGED <<phase, dbs, files>> /\ cmd'.pc = "insert" /\ cmd'.cols = {}
    BY <1>1 DEF BeginInsert, Continue
  <2> QED BY <2>1, ServingRests, QuietKeys DEF Resting
<1>2. ASSUME NEW w, BeginDelete(x, t, w) PROVE KInv'
  <2>1. /\ Serving /\ UNCHANGED <<phase, dbs, files>> /\ cmd'.pc = "delete"
        /\ cmd'.cols = dbs[cmd'.db][cmd'.table].indexes
    BY <1>2 DEF BeginDelete, Continue, Attached
  <2> QED BY <2>1, ServingRests, QuietKeys DEF Resting, Attached
<1>3. ASSUME NEW w, NEW sets, BeginUpdate(x, t, w, sets) PROVE KInv'
  <2>1. Serving /\ UNCHANGED <<phase, dbs, files>> /\ cmd'.pc = "update" /\ ~cmd'.erased
    BY <1>3 DEF BeginUpdate, Continue
  <2> QED BY <2>1, ServingRests, QuietKeys DEF Resting
<1> QED BY <1>1, <1>2, <1>3

LEMMA MeetRowKeys == ASSUME IInv, KInv, MeetRow PROVE KInv'
<1> DEFINE id == Head(cmd.ids)
           todo == IF id \in ScanIds(cmd.db, cmd.table, cmd.where) THEN cmd.sets ELSE <<>>
<1>1. /\ cmd.pc = "update" /\ cmd.todo = <<>> /\ UNCHANGED <<phase, dbs, files>>
      /\ cmd' = [cmd EXCEPT !.ids = Tail(@), !.id = id, !.todo = todo]
  BY DEF MeetRow, Continue
<1>2. ~cmd.erased /\ cmd \in UpdateCommands /\ phase = "up"
  BY <1>1, Updating DEF UpdateCommand
<1> HIDE DEF id, todo
<1>3. cmd'.pc = "update" /\ ~cmd'.erased
  BY <1>1, <1>2 DEF UpdateCommands
<1> QED BY <1>1, <1>2, <1>3, QuietKeys DEF Resting

\* save_all writes table files only.
LEMMA SavingKeys == ASSUME IInv, KInv, SaveDatabase \/ RemoveStale \/ SaveTable PROVE KInv'
<1>1. /\ cmd.pc = "save" /\ phase' = phase /\ dbs' = dbs /\ phase = "up" /\ DOMAIN files = DOMAIN dbs
      /\ SaveCommand /\ cmd \in SaveCommands
  BY SavingInProgress DEF SaveDatabase, RemoveStale, SaveTable
<1>2. cmd'.pc = "save"
  BY <1>1 DEF SaveDatabase, RemoveStale, SaveTable, Continue, SaveCommands
<1>3. \A d \in DOMAIN dbs : files'[d].idx = files[d].idx
  <2>1. CASE SaveDatabase
    <3>1. PICK d \in cmd.left : MakeDirectory(d)
      BY <2>1 DEF SaveDatabase
    <3>2. files' = files
      BY <1>1, <3>1 DEF MakeDirectory, SaveCommand
    <3> QED BY <3>2
  <2>2. ASSUME NEW d, NEW dat, files' = [files EXCEPT ![d].dat = dat]
        PROVE  \A e \in DOMAIN dbs : files'[e].idx = files[e].idx
    <3>1. \A e \in DOMAIN files : DOMAIN files[e] = {"dat", "idx"}
      BY DEF IInv, DiskOK, SoundDirectory
    <3> QED BY <1>1, <2>2, <3>1
  <2> QED BY <2>1, <2>2 DEF RemoveStale, SaveTable
<1>4. TablesAndKeysKept
  BY <1>1, <1>3 DEF TablesAndKeysKept, HasTable
<1> QED BY <1>1, <1>2, <1>4, RestingStep DEF Resting

-----------------------------------------------------------------------------
(* Databases and tables.                                                    *)

LEMMA CreateDatabaseKeys == ASSUME IInv, KInv, NEW d \in Databases, CreateDatabase(d) PROVE KInv'
<1>1. /\ Serving /\ d \notin DOMAIN dbs /\ dbs' = With(dbs, d, <<>>) /\ MakeDirectory(d)
      /\ cmd'.pc = "save" /\ phase' = phase
  BY DEF CreateDatabase, Continue, Saving
<1>2. phase = "up" /\ cmd.pc = "idle" /\ DOMAIN files = DOMAIN dbs
  BY <1>1, IdleFiles
<1>3. \A e \in DOMAIN dbs : files'[e] = files[e]
  BY <1>1, <1>2 DEF MakeDirectory, With
<1>4. \A e \in Databases, u \in Tables : HasTable(e, u)' => HasTable(e, u) /\ dbs'[e] = dbs[e]
  BY <1>1 DEF With, HasTable
<1>5. TablesAndKeysKept
  BY <1>3, <1>4 DEF TablesAndKeysKept, HasTable
<1> QED BY <1>1, <1>2, <1>5, RestingStep DEF Resting

LEMMA DropDatabaseKeys == ASSUME IInv, KInv, NEW d \in Databases, DropDatabase(d) PROVE KInv'
<1>1. /\ Serving /\ dbs' = Without(dbs, d) /\ cmd'.pc = "remove" /\ phase' = phase /\ files' = files
  BY DEF DropDatabase, Continue
<1>2. TablesAndKeysKept
  BY <1>1 DEF TablesAndKeysKept, HasTable, Without, Restrict
<1> QED BY <1>1, <1>2, ServingRests, RestingStep DEF Resting

\* The index files go with the database.
LEMMA RemoveKeys == ASSUME IInv, KInv, RemoveFile \/ RemoveDirectory PROVE KInv'
<1>1. /\ cmd.pc = "remove" /\ cmd'.pc \in {"remove", "save"} /\ phase' = phase /\ dbs' = dbs
  BY DEF RemoveFile, RemoveDirectory, Continue, Saving
<1>2. phase = "up" /\ cmd.db \notin DOMAIN dbs /\ DOMAIN dbs \subseteq DOMAIN files
  BY <1>1, Busy DEF IInv, CommandOK, RemoveCommand, ProcessOK
<1>3. \A e \in DOMAIN dbs : files'[e] = files[e]
  <2>1. CASE RemoveFile
    BY <1>2, <2>1 DEF RemoveFile
  <2>2. CASE RemoveDirectory
    BY <1>2, <2>2 DEF RemoveDirectory, Without, Restrict
  <2> QED BY <2>1, <2>2
<1>4. TablesAndKeysKept
  BY <1>1, <1>3 DEF TablesAndKeysKept, HasTable
<1> QED BY <1>1, <1>2, <1>4, RestingStep DEF Resting

LEMMA DropTableKeys == ASSUME IInv, KInv, NEW x, NEW t, DropTable(x, t) PROVE KInv'
<1> DEFINE d == Resolved(x)
<1>1. /\ Serving /\ HasTable(d, t) /\ dbs' = [dbs EXCEPT ![d] = Without(dbs[d], t)]
      /\ cmd'.pc = "save" /\ phase' = phase /\ files' = files
  BY DEF DropTable, Continue, Saving
<1> HIDE DEF d
<1>2. /\ DOMAIN dbs' = DOMAIN dbs
      /\ \A e \in DOMAIN dbs : dbs'[e] = IF e = d THEN Without(dbs[d], t) ELSE dbs[e]
  BY <1>1
<1>3. TablesAndKeysKept
  BY <1>1, <1>2 DEF TablesAndKeysKept, HasTable, Without, Restrict
<1> QED BY <1>1, <1>3, ServingRests, RestingStep DEF Resting

\* A table whose name was never used has no index file yet.
LEMMA CreateTableKeys ==
    ASSUME IInv, KInv, ReuseNames = FALSE, NEW x, NEW t \in Tables, NEW schema \in Schemas, CreateTable(x, t, schema)
    PROVE  KInv'
<1> PICK d : d = Resolved(x)
  OBVIOUS
<1> DEFINE todo == {<<d, t, c>> : c \in IndexedColumns(schema)}
<1>1. /\ Serving /\ d \in DOMAIN dbs /\ ~HasTable(d, t)
      /\ \A c \in Columns : <<t, c>> \notin DOMAIN files[d].idx
      /\ dbs' = [dbs EXCEPT ![d] = With(dbs[d], t, EmptyTable(schema))]
      /\ cmd' = Attaching(todo, "save") /\ phase' = phase /\ files' = files
  BY DEF CreateTable, Continue
<1>2. phase = "up" /\ cmd.pc = "idle"
  BY <1>1, ServingUp
<1>3. cmd'.pc = "attach" /\ cmd'.todo = todo /\ cmd'.then = "save"
  BY <1>1 DEF Attaching
<1>4. /\ DOMAIN dbs' = DOMAIN dbs
      /\ \A e \in DOMAIN dbs : dbs'[e] = IF e = d THEN With(dbs[d], t, EmptyTable(schema)) ELSE dbs[e]
  BY <1>1
<1>5. dbs'[d][t] = EmptyTable(schema)
  BY <1>1, <1>4 DEF With
<1>6. \A e \in Databases, u \in Tables : HasTable(e, u)' => \/ e = d /\ u = t
                                                            \/ HasTable(e, u) /\ dbs'[e][u] = dbs[e][u]
  BY <1>4 DEF HasTable, With
<1>7. StartedEmpty' /\ UpdateIsFree' /\ DeleteIsWhole'
  BY <1>1, <1>2, <1>3 DEF StartedEmpty, UpdateIsFree, DeleteIsWhole
<1>8. AllAttached'
  <2> SUFFICES ASSUME NEW e \in Databases, NEW u \in Tables, HasTable(e, u)',
                      NEW c \in IndexedColumns(Schema(e, u))', c \notin Attached(e, u)'
               PROVE  <<e, u, c>> \in todo
    BY <1>3 DEF AllAttached
  <2>1. CASE e = d /\ u = t
    BY <1>5, <2>1 DEF Schema, IndexedColumns, EmptyTable
  <2>2. CASE HasTable(e, u) /\ dbs'[e][u] = dbs[e][u]
    BY <1>2, <2>2 DEF KInv, AllAttached, Schema, Attached, IndexedColumns
  <2> QED BY <1>6, <2>1, <2>2
<1>9. FreshFiles'
  <2>1. \A c \in IndexedColumns(schema) : c \in Columns
    BY DEF IndexedColumns
  <2>2. \A at \in todo : <<at[2], at[3]>> \notin DOMAIN files[at[1]].idx
    BY <1>1, <2>1
  <2> HIDE DEF todo
  <2> QED BY <1>1, <1>3, <2>2 DEF FreshFiles, HasIndexFile
<1>10. IndexesMatch'
  <2> SUFFICES ASSUME NEW e \in Databases, NEW u \in Tables, HasTable(e, u)', NEW c \in Attached(e, u)'
               PROVE  ~Clashes(e, u, c)' /\ Inverts(Keys(e, u, c)', Rows(e, u)', c, Pending(e, u, c)')
    BY DEF IndexesMatch
  <2>1. ~(e = d /\ u = t)
    BY <1>5 DEF Attached, EmptyTable
  <2>2. HasTable(e, u) /\ dbs'[e][u] = dbs[e][u] /\ c \in Attached(e, u)
    BY <1>6, <2>1 DEF Attached
  <2>3. Pending(e, u, c)' = {} /\ Pending(e, u, c) = {}
    BY <1>2, <1>3 DEF Pending, Erasing
  <2>4. ~Clashes(e, u, c) /\ Inverts(Keys(e, u, c), Rows(e, u), c, Pending(e, u, c))
    BY <2>2 DEF KInv, IndexesMatch
  <2>5. Rows(e, u)' = Rows(e, u) /\ Keys(e, u, c)' = Keys(e, u, c) /\ (Clashes(e, u, c)' <=> Clashes(e, u, c))
    BY <1>1, <2>2 DEF Rows, Keys, IndexFile, Clashes, Schema
  <2> QED BY <2>3, <2>4, <2>5
<1> QED BY <1>7, <1>8, <1>9, <1>10 DEF KInv

-----------------------------------------------------------------------------
(* attach_indexes_for_table.                                                *)

\* The table being created is empty, and no file was there when it began.
LEMMA CreatingTable ==
    ASSUME IInv, KInv, cmd.pc \in {"attach", "create"}
    PROVE  /\ phase = "up" /\ AttachCommand /\ cmd \in AttachCommands /\ cmd.ids = <<>>
           /\ \A at \in cmd.todo : at \in Places /\ IsIndexed(at) /\ cmd.then = "save"
<1>1. phase = "up" /\ AttachCommand /\ cmd \in AttachCommands
  BY AttachingCommand
<1>2. cmd.then = "save" \/ DOMAIN dbs = {}
  BY <1>1 DEF KInv, StartedEmpty, AttachCommand
<1>3. \A at \in Places : IsIndexed(at) => cmd.then = "save"
  BY <1>2 DEF IsIndexed, HasTable
<1>4. cmd.ids = <<>>
  BY <1>1, <1>3 DEF AttachCommand
<1>5. \A at \in cmd.todo : at \in Places /\ IsIndexed(at)
  BY <1>1 DEF AttachCommand
<1> QED BY <1>1, <1>3, <1>4, <1>5

LEMMA RebuildNever == ASSUME IInv, KInv PROVE ~RebuildRow /\ ~RebuildThrows
BY CreatingTable DEF RebuildRow, RebuildThrows

\* A file without its first page is not met: its creation comes first.
LEMMA OpenThrowsNever == ASSUME IInv, KInv PROVE ~OpenThrows
<1> SUFFICES ASSUME OpenThrows PROVE FALSE
  OBVIOUS
<1>1. PICK at \in Waiting(TRUE) : IndexFile(at[1], at[2], at[3]) = Torn
  BY DEF OpenThrows
<1>2. cmd.pc = "attach" /\ at \in cmd.todo /\ HasIndexFile(at)
  BY DEF OpenThrows, Waiting, HasIndexFile
<1>3. /\ at[1] \in DOMAIN dbs /\ at[2] \in DOMAIN dbs[at[1]]
      /\ at[3] \in Columns /\ IsIndexed(at)
  BY <1>2, CreatingTable, PlaceToIndex
<1>4. Schema(at[1], at[2])[at[3]].type # "none"
  <2>1. Schema(at[1], at[2]) \in Schemas
    BY <1>3 DEF IInv, MemoryOK, SoundTable, IsTable, IsImage, Schema
  <2> QED BY <1>3, <2>1, SchemasAssumption DEF Definition
<1>5. Clashes(at[1], at[2], at[3])
  BY <1>1, <1>4 DEF Clashes, Torn
<1> QED BY <1>2, <1>5 DEF KInv, FreshFiles

\* The table that is being created stays as it is while a file is made for it.
LEMMA MakingFileKeys ==
    ASSUME IInv, KInv, cmd.pc \in {"attach", "create"}, cmd'.pc \in {"attach", "create"},
           cmd'.todo = cmd.todo, cmd'.then = cmd.then, UNCHANGED <<phase, dbs>>, FreshFiles',
           \A d \in DOMAIN dbs : \A t \in DOMAIN dbs[d] : \A c \in dbs[d][t].indexes :
               /\ files'[d].idx[<<t, c>>].keys = files[d].idx[<<t, c>>].keys
               /\ \/ files'[d].idx[<<t, c>>].kind = files[d].idx[<<t, c>>].kind
                  \/ files'[d].idx[<<t, c>>].kind = dbs[d][t].schema[c].type
    PROVE  KInv'
<1>1. StartedEmpty' /\ AllAttached'
  BY CreatingTable DEF KInv, StartedEmpty, AllAttached, HasTable, Schema, Attached
<1>2. UpdateIsFree' /\ DeleteIsWhole'
  BY DEF UpdateIsFree, DeleteIsWhole
<1>3. IndexesMatch'
  <2> SUFFICES ASSUME NEW d \in Databases, NEW t \in Tables, HasTable(d, t)', NEW c \in Attached(d, t)'
               PROVE  ~Clashes(d, t, c)' /\ Inverts(Keys(d, t, c)', Rows(d, t)', c, Pending(d, t, c)')
    BY DEF IndexesMatch
  <2>1. HasTable(d, t) /\ c \in Attached(d, t) /\ Rows(d, t)' = Rows(d, t)
    BY DEF HasTable, Attached, Rows
  <2>2. ~Clashes(d, t, c) /\ Inverts(Keys(d, t, c), Rows(d, t), c, Pending(d, t, c))
    BY <2>1 DEF KInv, IndexesMatch
  <2>3. Pending(d, t, c) = {} /\ Pending(d, t, c)' = {}
    BY DEF Pending, Erasing
  <2>4. Keys(d, t, c)' = Keys(d, t, c) /\ ~Clashes(d, t, c)'
    BY <2>1, <2>2 DEF Keys, IndexFile, Clashes, Schema, HasTable, Attached
  <2> QED BY <2>1, <2>2, <2>3, <2>4
<1> QED BY <1>1, <1>2, <1>3 DEF KInv

\* One index file is made, or changed.
LEMMA IndexFileFrame ==
    ASSUME IInv, NEW d \in DOMAIN files, NEW f, NEW idx, DOMAIN idx = DOMAIN files[d].idx \cup {f},
           \A g \in DOMAIN files[d].idx \ {f} : idx[g] = files[d].idx[g],
           files' = [files EXCEPT ![d].idx = idx]
    PROVE  \A e \in DOMAIN files :
               /\ DOMAIN files'[e].idx = IF e = d THEN DOMAIN files[d].idx \cup {f} ELSE DOMAIN files[e].idx
               /\ \A g \in DOMAIN files'[e].idx :
                     files'[e].idx[g] = IF e = d /\ g = f THEN idx[f] ELSE files[e].idx[g]
<1>1. DOMAIN files[d] = {"dat", "idx"}
  BY DEF IInv, DiskOK, SoundDirectory
<1> DEFINE dir == [files[d] EXCEPT !.idx = idx]
<1>2. files' = [files EXCEPT ![d] = dir] /\ dir.idx = idx
  BY <1>1
<1> HIDE DEF dir
<1>3. \A e \in DOMAIN files : files'[e] = IF e = d THEN dir ELSE files[e]
  BY <1>2
<1> QED BY <1>2, <1>3

LEMMA CreateIndexFileKeys == ASSUME IInv, KInv, CreateIndexFile PROVE KInv'
<1>1. PICK at \in Waiting(FALSE) :
        /\ files' = [files EXCEPT ![at[1]].idx = With(@, <<at[2], at[3]>>, Torn)]
        /\ Continue([cmd EXCEPT !.pc = "create", !.at = at])
  BY DEF CreateIndexFile
<1> DEFINE f == <<at[2], at[3]>>
           idx == With(files[at[1]].idx, f, Torn)
<1>2. cmd.pc = "attach" /\ UNCHANGED <<phase, dbs>> /\ cmd' = [cmd EXCEPT !.pc = "create", !.at = at]
  BY <1>1 DEF CreateIndexFile, Continue
<1>3. /\ phase = "up" /\ cmd \in AttachCommands /\ \A b \in cmd.todo : b \in Places /\ IsIndexed(b)
  BY <1>2, CreatingTable
<1>4. cmd'.pc = "create" /\ cmd'.todo = cmd.todo /\ cmd'.then = cmd.then /\ cmd'.at = at
  BY <1>2, <1>3 DEF AttachCommands
<1>5. at \in cmd.todo /\ f \notin DOMAIN files[at[1]].idx
  BY DEF Waiting
<1>6. at[1] \in DOMAIN files
  BY <1>2, <1>3, <1>5, PlaceToIndex
<1>7. /\ DOMAIN idx = DOMAIN files[at[1]].idx \cup {f} /\ idx[f] = Torn
      /\ \A g \in DOMAIN files[at[1]].idx \ {f} : idx[g] = files[at[1]].idx[g]
      /\ files' = [files EXCEPT ![at[1]].idx = idx]
  BY <1>1 DEF With
<1> HIDE DEF idx, f
<1>8. \A e \in DOMAIN files :
         /\ DOMAIN files'[e].idx = IF e = at[1] THEN DOMAIN files[at[1]].idx \cup {f} ELSE DOMAIN files[e].idx
         /\ \A g \in DOMAIN files'[e].idx :
               files'[e].idx[g] = IF e = at[1] /\ g = f THEN Torn ELSE files[e].idx[g]
  BY <1>6, <1>7, IndexFileFrame
<1>9. FreshFiles'
  <2> SUFFICES ASSUME NEW b \in cmd.todo, HasIndexFile(b)'
               PROVE  /\ DOMAIN files'[b[1]].idx[<<b[2], b[3]>>].keys = {}
                      /\ \/ files'[b[1]].idx[<<b[2], b[3]>>].kind = dbs[b[1]][b[2]].schema[b[3]].type
                         \/ b = at
    BY <1>2, <1>4 DEF FreshFiles, Keys, IndexFile, Clashes, Schema
  <2>1. b[1] \in DOMAIN files /\ b = <<b[1], b[2], b[3]>> /\ at = <<at[1], at[2], at[3]>>
    BY <1>2, <1>3, <1>5, PlaceToIndex
  <2>2. CASE b[1] = at[1] /\ <<b[2], b[3]>> = f
    <3>1. b = at
      BY <2>1, <2>2 DEF f
    <3>2. files'[b[1]].idx[<<b[2], b[3]>>] = Torn
      BY <1>8, <2>1, <2>2 DEF HasIndexFile
    <3> QED BY <3>1, <3>2 DEF Torn
  <2>3. CASE ~(b[1] = at[1] /\ <<b[2], b[3]>> = f)
    <3>1. HasIndexFile(b) /\ files'[b[1]].idx[<<b[2], b[3]>>] = files[b[1]].idx[<<b[2], b[3]>>]
      BY <1>8, <2>1, <2>3 DEF HasIndexFile
    <3>2. DOMAIN Keys(b[1], b[2], b[3]) = {} /\ ~Clashes(b[1], b[2], b[3])
      BY <1>2, <3>1 DEF KInv, FreshFiles
    <3> QED BY <3>1, <3>2 DEF Keys, IndexFile, Clashes, Schema
  <2> QED BY <2>2, <2>3
<1>10. \A d \in DOMAIN dbs : \A t \in DOMAIN dbs[d] : \A c \in dbs[d][t].indexes :
          files'[d].idx[<<t, c>>] = files[d].idx[<<t, c>>]
  <2>1. \A d \in DOMAIN dbs : d \in DOMAIN files
              /\ \A t \in DOMAIN dbs[d] : \A c \in dbs[d][t].indexes : <<t, c>> \in DOMAIN files[d].idx
    BY <1>3 DEF IInv, ProcessOK
  <2>2. \A d \in DOMAIN files : \A g \in DOMAIN files[d].idx : files'[d].idx[g] = files[d].idx[g]
    BY <1>5, <1>8
  <2> QED BY <2>1, <2>2
<1> QED BY <1>2, <1>4, <1>9, <1>10, MakingFileKeys

LEMMA WriteFirstPageKeys == ASSUME IInv, KInv, WriteFirstPage PROVE KInv'
<1> PICK at : at = cmd.at
  OBVIOUS
<1> DEFINE f == <<at[2], at[3]>>
           type == dbs[at[1]][at[2]].schema[at[3]].type
           index == [files[at[1]].idx[f] EXCEPT !.kind = type]
           idx == [files[at[1]].idx EXCEPT ![f] = index]
<1>1. /\ cmd.pc = "create" /\ files' = [files EXCEPT ![at[1]].idx = idx]
      /\ cmd' = [cmd EXCEPT !.pc = "attach"] /\ UNCHANGED <<phase, dbs>>
  BY DEF WriteFirstPage, Continue, Schema
<1>2. /\ phase = "up" /\ cmd \in AttachCommands /\ AttachCommand /\ \A b \in cmd.todo : b \in Places /\ IsIndexed(b)
  BY <1>1, CreatingTable
<1>3. cmd'.pc = "attach" /\ cmd'.todo = cmd.todo /\ cmd'.then = cmd.then
  BY <1>1, <1>2 DEF AttachCommands
<1>4. at \in cmd.todo /\ f \in DOMAIN files[at[1]].idx
  BY <1>1, <1>2 DEF AttachCommand, HasIndexFile
<1>5. at[1] \in DOMAIN files
  BY <1>1, <1>2, <1>4, PlaceToIndex
<1>6. index.keys = files[at[1]].idx[f].keys /\ index.kind = type
  <2>1. DOMAIN files[at[1]].idx[f] = {"kind", "keys"}
    BY <1>4, <1>5 DEF IInv, DiskOK, SoundDirectory, SoundIndex
  <2> QED BY <2>1
<1> HIDE DEF index
<1>7. /\ DOMAIN idx = DOMAIN files[at[1]].idx \cup {f} /\ idx[f] = index
      /\ \A g \in DOMAIN files[at[1]].idx \ {f} : idx[g] = files[at[1]].idx[g]
  BY <1>4
<1> HIDE DEF idx, f
<1>8. \A e \in DOMAIN files :
         /\ DOMAIN files'[e].idx = IF e = at[1] THEN DOMAIN files[at[1]].idx \cup {f} ELSE DOMAIN files[e].idx
         /\ \A g \in DOMAIN files'[e].idx :
               files'[e].idx[g] = IF e = at[1] /\ g = f THEN index ELSE files[e].idx[g]
  BY <1>1, <1>5, <1>7, IndexFileFrame
<1>9. ASSUME NEW d \in DOMAIN files, NEW t, NEW c, <<t, c>> \in DOMAIN files[d].idx
      PROVE  /\ files'[d].idx[<<t, c>>].keys = files[d].idx[<<t, c>>].keys
             /\ \/ d = at[1] /\ t = at[2] /\ c = at[3] /\ files'[d].idx[<<t, c>>].kind = dbs[d][t].schema[c].type
                \/ ~(d = at[1] /\ t = at[2] /\ c = at[3]) /\ files'[d].idx[<<t, c>>].kind = files[d].idx[<<t, c>>].kind
  <2>1. <<t, c>> = f <=> t = at[2] /\ c = at[3]
    BY DEF f
  <2>2. <<t, c>> \in DOMAIN files'[d].idx
    BY <1>8, <1>9
  <2> QED BY <1>6, <1>8, <1>9, <2>1, <2>2
<1>10. FreshFiles'
  <2> SUFFICES ASSUME NEW b \in cmd.todo, HasIndexFile(b)'
               PROVE  /\ DOMAIN files'[b[1]].idx[<<b[2], b[3]>>].keys = {}
                      /\ files'[b[1]].idx[<<b[2], b[3]>>].kind = dbs[b[1]][b[2]].schema[b[3]].type
    BY <1>1, <1>3 DEF FreshFiles, Keys, IndexFile, Clashes, Schema
  <2>1. b[1] \in DOMAIN files /\ b = <<b[1], b[2], b[3]>> /\ at = <<at[1], at[2], at[3]>>
    BY <1>1, <1>2, <1>4, PlaceToIndex
  <2>2. HasIndexFile(b)
    BY <1>4, <1>8, <2>1 DEF HasIndexFile
  <2>3. /\ DOMAIN files[b[1]].idx[<<b[2], b[3]>>].keys = {}
        /\ files[b[1]].idx[<<b[2], b[3]>>].kind = dbs[b[1]][b[2]].schema[b[3]].type \/ b = at
    BY <1>1, <2>2 DEF KInv, FreshFiles, Keys, IndexFile, Clashes, Schema
  <2>4. /\ files'[b[1]].idx[<<b[2], b[3]>>].keys = files[b[1]].idx[<<b[2], b[3]>>].keys
        /\ \/ files'[b[1]].idx[<<b[2], b[3]>>].kind = dbs[b[1]][b[2]].schema[b[3]].type
           \/ b # at /\ files'[b[1]].idx[<<b[2], b[3]>>].kind = files[b[1]].idx[<<b[2], b[3]>>].kind
    <3>1. <<b[2], b[3]>> \in DOMAIN files[b[1]].idx
      BY <2>2 DEF HasIndexFile
    <3>2. b[1] = at[1] /\ b[2] = at[2] /\ b[3] = at[3] <=> b = at
      BY <2>1
    <3> QED BY <1>9, <2>1, <3>1, <3>2
  <2> QED BY <2>3, <2>4
<1>11. \A d \in DOMAIN dbs : d \in DOMAIN files
           /\ \A t \in DOMAIN dbs[d] : \A c \in dbs[d][t].indexes : <<t, c>> \in DOMAIN files[d].idx
  BY <1>2 DEF IInv, ProcessOK
<1> HIDE DEF type
<1> QED BY <1>1, <1>3, <1>9, <1>10, <1>11, MakingFileKeys

\* The index that is attached has no keys, and its table no rows.
LEMMA OpenIndexKeys == ASSUME IInv, IInv', KInv, OpenIndex PROVE KInv'
<1>1. PICK at \in Waiting(TRUE) :
        /\ dbs' = [dbs EXCEPT ![at[1]][at[2]].indexes = @ \cup {at[3]}]
        /\ Continue([cmd EXCEPT !.todo = @ \ {at}, !.at = at, !.ids = dbs[at[1]][at[2]].order])
  BY DEF OpenIndex
<1> DEFINE e == at[1]
           u == at[2]
           b == at[3]
           new == [dbs[e][u] EXCEPT !.indexes = @ \cup {b}]
<1>2. /\ cmd.pc = "attach" /\ UNCHANGED <<phase, files>>
      /\ dbs' = [dbs EXCEPT ![e] = [dbs[e] EXCEPT ![u] = new]]
      /\ cmd' = [cmd EXCEPT !.todo = @ \ {at}, !.at = at, !.ids = dbs[at[1]][at[2]].order]
  BY <1>1 DEF OpenIndex, Continue
<1>3. /\ phase = "up" /\ cmd \in AttachCommands /\ AttachCommand
      /\ \A x \in cmd.todo : x \in Places /\ IsIndexed(x) /\ cmd.then = "save"
  BY <1>2, CreatingTable
<1>4. at \in cmd.todo /\ HasIndexFile(at)
  BY DEF Waiting, HasIndexFile
<1>5. /\ e \in DOMAIN dbs /\ u \in DOMAIN dbs[e] /\ at = <<e, u, b>> /\ SoundTable(dbs[e][u])
  BY <1>2, <1>3, <1>4, PlaceToIndex
<1>6. cmd'.pc = "attach" /\ cmd'.todo = cmd.todo \ {at} /\ cmd'.then = "save"
  BY <1>2, <1>3, <1>4 DEF AttachCommands
<1>7. /\ new.schema = dbs[e][u].schema /\ new.rows = dbs[e][u].rows
      /\ new.indexes = dbs[e][u].indexes \cup {b}
  BY <1>5 DEF SoundTable
<1>8. DOMAIN dbs[e][u].rows = {}
  <2>1. dbs[e][u].order = <<>>
    BY <1>3, <1>4 DEF AttachCommand
  <2> HIDE DEF e, u
  <2> QED BY <1>5, <2>1 DEF SoundTable, Ordered, Ids
<1>9. DOMAIN files[e].idx[<<u, b>>].keys = {} /\ files[e].idx[<<u, b>>].kind = dbs[e][u].schema[b].type
  BY <1>2, <1>4 DEF KInv, FreshFiles, Keys, IndexFile, Clashes, Schema
<1> HIDE DEF e, u, b, new
<1>10. /\ DOMAIN dbs' = DOMAIN dbs /\ \A d \in DOMAIN dbs : DOMAIN dbs'[d] = DOMAIN dbs[d]
       /\ \A d \in DOMAIN dbs : \A t \in DOMAIN dbs[d] :
             dbs'[d][t] = IF d = e /\ t = u THEN new ELSE dbs[d][t]
  BY <1>2, <1>5
<1>11. ASSUME NEW d, NEW t, HasTable(d, t)'
       PROVE  /\ HasTable(d, t) /\ Schema(d, t)' = Schema(d, t) /\ Rows(d, t)' = Rows(d, t)
              /\ \A c : c \in Attached(d, t)' <=> c \in Attached(d, t) \/ <<d, t, c>> = at
  <2>1. \A c : <<d, t, c>> = at <=> d = e /\ t = u /\ c = b
    BY <1>5
  <2> QED BY <1>7, <1>10, <1>11, <2>1 DEF HasTable, Schema, Rows, Attached
<1>12. StartedEmpty' /\ UpdateIsFree' /\ DeleteIsWhole'
  BY <1>2, <1>3, <1>6 DEF StartedEmpty, UpdateIsFree, DeleteIsWhole
<1>13. AllAttached'
  BY <1>6, <1>11 DEF KInv, AllAttached
<1>14. FreshFiles'
  <2> SUFFICES ASSUME NEW x \in cmd.todo, HasIndexFile(x)
               PROVE  DOMAIN Keys(x[1], x[2], x[3])' = {} /\ ~Clashes(x[1], x[2], x[3])'
    BY <1>2, <1>6 DEF FreshFiles, HasIndexFile
  <2>1. DOMAIN Keys(x[1], x[2], x[3]) = {} /\ ~Clashes(x[1], x[2], x[3])
    BY <1>2 DEF KInv, FreshFiles
  <2>2. HasTable(x[1], x[2])'
    BY <1>3, <1>10 DEF IsIndexed, HasTable
  <2> QED BY <1>2, <1>11, <2>1, <2>2 DEF Keys, Clashes, IndexFile
<1>15. IndexesMatch'
  <2> SUFFICES ASSUME NEW d \in Databases, NEW t \in Tables, HasTable(d, t)', NEW c \in Attached(d, t)'
               PROVE  ~Clashes(d, t, c)' /\ Inverts(Keys(d, t, c)', Rows(d, t)', c, Pending(d, t, c)')
    BY DEF IndexesMatch
  <2>1. /\ HasTable(d, t) /\ Rows(d, t)' = Rows(d, t) /\ Keys(d, t, c)' = Keys(d, t, c)
        /\ Clashes(d, t, c)' <=> Clashes(d, t, c)
    BY <1>2, <1>11 DEF Keys, IndexFile, Clashes
  <2>2. Pending(d, t, c)' = {} /\ Pending(d, t, c) = {}
    BY <1>2, <1>6 DEF Pending, Erasing
  <2>3. CASE c \in Attached(d, t)
    BY <2>1, <2>2, <2>3 DEF KInv, IndexesMatch
  <2>4. CASE <<d, t, c>> = at
    <3>1. d = e /\ t = u /\ c = b
      BY <1>5, <2>4
    <3>2. DOMAIN Keys(d, t, c) = {} /\ DOMAIN Rows(d, t) = {} /\ ~Clashes(d, t, c)
      BY <1>8, <1>9, <3>1 DEF Keys, IndexFile, Rows, Clashes, Schema
    <3>3. Inverts(Keys(d, t, c), Rows(d, t), c, {})
      BY <3>2 DEF Inverts
    <3> QED BY <2>1, <2>2, <3>2, <3>3
  <2> QED BY <1>11, <2>3, <2>4
<1> QED BY <1>12, <1>13, <1>14, <1>15 DEF KInv

-----------------------------------------------------------------------------
(* The start, and all steps together.                                       *)

\* There is nothing to load.
LEMMA StartKeys == ASSUME IInv, KInv, Start PROVE KInv'
<1>1. DOMAIN files = {}
  BY DEF Start, KInv, StartedEmpty
<1>2. /\ phase' = "up" /\ DOMAIN dbs' = {} /\ cmd'.pc = "attach"
      /\ \A at \in cmd'.todo : HasFile(at[1], at[2])
  BY <1>1 DEF Start, Attaching
<1>3. cmd'.todo = {}
  BY <1>1, <1>2 DEF HasFile
<1>4. \A d, t : ~HasTable(d, t)'
  BY <1>2 DEF HasTable
<1>5. StartedEmpty' /\ AllAttached' /\ FreshFiles' /\ IndexesMatch' /\ UpdateIsFree' /\ DeleteIsWhole'
  BY <1>2, <1>3, <1>4 DEF StartedEmpty, AllAttached, FreshFiles, IndexesMatch, UpdateIsFree, DeleteIsWhole
<1> QED BY <1>5 DEF KInv

LEMMA StutteringKeys == ASSUME KInv, UNCHANGED vars PROVE KInv'
<1> USE DEF vars, KInv
<1>1. StartedEmpty' /\ UpdateIsFree' /\ DeleteIsWhole'
  BY DEF StartedEmpty, UpdateIsFree, DeleteIsWhole, Keys, IndexFile, Erasing, Rows, Attached
<1>2. AllAttached' /\ FreshFiles'
  BY DEF AllAttached, FreshFiles, HasTable, Schema, Attached, HasIndexFile, Keys, IndexFile, Clashes
<1>3. IndexesMatch'
  <2> SUFFICES ASSUME NEW d \in Databases, NEW t \in Tables, HasTable(d, t)', NEW c \in Attached(d, t)'
               PROVE  ~Clashes(d, t, c)' /\ Inverts(Keys(d, t, c)', Rows(d, t)', c, Pending(d, t, c)')
    BY DEF IndexesMatch
  <2>1. HasTable(d, t) /\ c \in Attached(d, t)
    BY DEF HasTable, Attached
  <2>2. /\ Rows(d, t)' = Rows(d, t) /\ Keys(d, t, c)' = Keys(d, t, c)
        /\ Clashes(d, t, c)' <=> Clashes(d, t, c)
        /\ Pending(d, t, c)' = Pending(d, t, c)
    BY DEF Keys, IndexFile, Clashes, Schema, Rows, Pending, Erasing
  <2> QED BY <2>1, <2>2 DEF IndexesMatch
<1> QED BY <1>1, <1>2, <1>3

LEMMA InitKInv == Init => KInv
<1> SUFFICES ASSUME Init PROVE KInv
  OBVIOUS
<1>1. DOMAIN dbs = {} /\ DOMAIN files = {} /\ phase = "down" /\ cmd.pc = "idle"
  BY DEF Init, Idle
<1>2. \A d, t : ~HasTable(d, t)
  BY <1>1 DEF HasTable
<1> QED BY <1>1, <1>2 DEF KInv, StartedEmpty, AllAttached, FreshFiles, IndexesMatch, UpdateIsFree, DeleteIsWhole

\* Every literal fits an index page, and no table gets the name of another
\* that was dropped.
OrdinaryUse == Indexable = Values /\ ReuseNames = FALSE

LEMMA RunKInv == ASSUME OrdinaryUse PROVE IInv /\ IInv' /\ KInv /\ [Run]_vars => KInv'
<1> SUFFICES ASSUME IInv, IInv', KInv, [Run]_vars PROVE KInv'
  OBVIOUS
<1> USE DEF OrdinaryUse
<1>1. CASE Start
  BY <1>1, StartKeys
<1>2. CASE Serve
  BY <1>2, AnswersKeys
<1>3. CASE Catalogue
  <2>1. CASE Refuse \/ \E d \in Databases : UseDatabase(d)
    BY <2>1, AnswersKeys
  <2>2. CASE \E d \in Databases : CreateDatabase(d) \/ DropDatabase(d)
    BY <2>2, CreateDatabaseKeys, DropDatabaseKeys
  <2>3. CASE \E x \in Databases \cup {None}, t \in Tables :
                DropTable(x, t) \/ \E schema \in Schemas : CreateTable(x, t, schema)
    BY <2>3, DropTableKeys, CreateTableKeys
  <2>4. CASE RemoveFile \/ RemoveDirectory
    BY <2>4, RemoveKeys
  <2>5. CASE CreateIndexFile \/ WriteFirstPage \/ OpenIndex
    BY <2>5, CreateIndexFileKeys, WriteFirstPageKeys, OpenIndexKeys
  <2>6. CASE OpenThrows \/ RebuildRow \/ RebuildThrows
    BY <2>6, OpenThrowsNever, RebuildNever
  <2>7. CASE TableCreated
    BY <2>7, DoneKeys
  <2> QED BY <1>3, <2>1, <2>2, <2>3, <2>4, <2>5, <2>6, <2>7 DEF Catalogue
<1>4. CASE RowCommands
  <2>1. CASE \E x \in Databases \cup {None}, t \in Tables :
               \/ \E rows \in RowLists : BeginInsert(x, t, rows)
               \/ \E w \in Wheres : Select(x, t, w) \/ ReadThrows(x, t, w) \/ BeginDelete(x, t, w)
               \/ \E w \in Wheres, sets \in SetLists : BeginUpdate(x, t, w, sets)
    <3> PICK x \in Databases \cup {None}, t \in Tables :
               \/ \E rows \in RowLists : BeginInsert(x, t, rows)
               \/ \E w \in Wheres : Select(x, t, w) \/ ReadThrows(x, t, w) \/ BeginDelete(x, t, w)
               \/ \E w \in Wheres, sets \in SetLists : BeginUpdate(x, t, w, sets)
      BY <2>1
    <3>1. CASE \E w : Select(x, t, w) \/ ReadThrows(x, t, w)
      BY <3>1, AnswersKeys
    <3>2. CASE \/ \E rows : BeginInsert(x, t, rows)
               \/ \E w : BeginDelete(x, t, w)
               \/ \E w, sets : BeginUpdate(x, t, w, sets)
      BY <3>2, BeginKeys
    <3> QED BY <3>1, <3>2
  <2>2. CASE \/ InsertRow \/ IndexRow \/ IndexThrows \/ UpdatePlain \/ UpdateErasesKey
             \/ UpdateInsertsKey \/ UpdateThrows \/ DeleteKey \/ DeleteRow
    <3>1. cmd.pc \in {"insert", "update", "delete"}
      BY <2>2 DEF InsertRow, IndexRow, IndexThrows, UpdatePlain, UpdateErasesKey, UpdateInsertsKey,
                  UpdateThrows, DeleteKey, DeleteRow, Erasing
    <3>2. PICK d, t : d = cmd.db /\ t = cmd.table
      OBVIOUS
    <3>3. WorksOn(d, t)
      BY <3>1, <3>2 DEF WorksOn
    <3>4. ~IndexThrows /\ ~UpdateThrows
      BY <3>3, IndexThrowsNever, UpdateThrowsNever
    <3>5. CASE InsertRow \/ IndexRow
      BY <3>3, <3>5, InsertRowKeys, IndexRowKeys
    <3>6. CASE UpdatePlain \/ UpdateErasesKey \/ UpdateInsertsKey
      BY <3>3, <3>6, UpdatePlainKeys, UpdateErasesKeyKeys, UpdateInsertsKeyKeys
    <3>7. CASE DeleteKey \/ DeleteRow
      BY <3>3, <3>7, DeleteKeyKeys, DeleteRowKeys
    <3> QED BY <2>2, <3>4, <3>5, <3>6, <3>7
  <2>3. CASE InsertRejected \/ UpdateRejected \/ EraseThrows
    BY <2>3, AnswersKeys
  <2>4. CASE RowsInserted \/ RowsUpdated \/ RowsDeleted
    BY <2>4, DoneKeys
  <2>5. CASE MeetRow
    BY <2>5, MeetRowKeys
  <2> QED BY <1>4, <2>1, <2>2, <2>3, <2>4, <2>5 DEF RowCommands
<1>5. CASE Saves
  BY <1>5, SavingKeys, AnswersKeys DEF Saves
<1>6. CASE UNCHANGED vars
  BY <1>6, StutteringKeys
<1> QED BY <1>1, <1>2, <1>3, <1>4, <1>5, <1>6 DEF Run

-----------------------------------------------------------------------------
(* What holds as long as the process runs.                                  *)

LEMMA SpecIsCrashSpec == Spec => CrashSpec
<1>1. [Run]_vars => [Next]_vars
  BY DEF Next
<1> QED BY <1>1, PTL DEF Spec, CrashSpec

LEMMA KeysInvariance == ASSUME OrdinaryUse PROVE Spec => [](IInv /\ KInv)
<1>1. Init => KInv
  BY InitKInv
<1>2. IInv /\ IInv' /\ KInv /\ [Run]_vars => KInv'
  BY RunKInv
<1> QED BY <1>1, <1>2, SpecIsCrashSpec, Invariance, PTL DEF Spec

LEMMA KInvUnique == IInv /\ KInv => UniqueKeys
<1> SUFFICES ASSUME IInv, KInv,
                    NEW d \in Databases, NEW t \in Tables, HasTable(d, t), NEW c \in IndexedColumns(Schema(d, t))
             PROVE  \A i, j \in DOMAIN Rows(d, t) : Rows(d, t)[i][c] = Rows(d, t)[j][c] => i = j
  BY DEF UniqueKeys
<1>1. CASE c \in Attached(d, t)
  <2>1. Inverts(Keys(d, t, c), Rows(d, t), c, Pending(d, t, c))
    BY <1>1 DEF KInv, IndexesMatch
  <2>2. \A i, j \in Pending(d, t, c) : i = j
    BY DEF Pending
  <2> QED BY <2>1, <2>2, InvertsUnique
<1>2. CASE c \notin Attached(d, t)
  <2>1. cmd.pc \in {"attach", "create"} /\ <<d, t, c>> \in cmd.todo
    BY <1>2 DEF KInv, AllAttached
  <2>2. dbs[d][t].order = <<>>
    BY <2>1, CreatingTable DEF AttachCommand
  <2>3. SoundTable(dbs[d][t])
    BY DEF IInv, MemoryOK, HasTable
  <2>4. DOMAIN Rows(d, t) = {}
    BY <2>2, <2>3 DEF SoundTable, Ordered, Ids, Rows
  <2> QED BY <2>4
<1> QED BY <1>1, <1>2

LEMMA KInvMatches == KInv => IndexMatchesRows
<1> SUFFICES ASSUME KInv, Serving,
                    NEW d \in Databases, NEW t \in Tables, HasTable(d, t), NEW c \in Attached(d, t)
             PROVE  /\ DOMAIN Keys(d, t, c) = {Rows(d, t)[id][c] : id \in DOMAIN Rows(d, t)}
                    /\ \A id \in DOMAIN Rows(d, t) : Keys(d, t, c)[Rows(d, t)[id][c]] = id
  BY DEF IndexMatchesRows
<1>1. Inverts(Keys(d, t, c), Rows(d, t), c, {})
  BY ServingRests, NothingPending DEF KInv, IndexesMatch
<1> QED BY <1>1 DEF Inverts

\* Where Value::compare compares a text with a value of a column, the condition
\* sees the text as the index does.
LEMMA ResolveIsParse ==
    ASSUME NEW w \in Wheres, NEW o \in {w.left, w.right, w.right2}, o.is = "text",
           NEW row, NEW type \in {"int", "str"}, Kind[Resolve(o, row)] = type
    PROVE  Resolve(o, row) = Parse(o, type)
<1>1. Kind[o.str] = "str" /\ (o.number # None => Kind[o.number] = "int") /\ (o.whole => o.number # None)
  BY TextsAssumption
<1>2. Resolve(o, row) = IF o.whole THEN o.number ELSE o.str
  BY DEF Resolve
<1>3. Parse(o, type) = IF type = "int" THEN o.number ELSE o.str
  BY DEF Parse
<1> QED BY <1>1, <1>2, <1>3

LEMMA KInvTransparent == IInv /\ KInv => IndexIsTransparent
<1> SUFFICES ASSUME IInv, KInv, Serving, NEW d \in Databases, NEW t \in Tables, HasTable(d, t), NEW w \in Wheres,
                    Probes(d, t, w), Readable(d, t, w), w.right2.is # "column"
             PROVE  ProbeIds(d, t, w) = ScanIds(d, t, w)
  BY DEF IndexIsTransparent
<1> DEFINE c == w.left.name
           type == Schema(d, t)[c].type
           keys == Keys(d, t, c)
           rows == Rows(d, t)
<1>1. /\ w.op \in {"EQ", "BETWEEN"} /\ w.left.is = "column" /\ w.right.is # "column" /\ c \in Attached(d, t)
  BY DEF Probes
<1>2. SoundTable(dbs[d][t])
  BY DEF IInv, MemoryOK, HasTable
<1>3. c \in Columns /\ Schema(d, t) \in Schemas /\ Schema(d, t)[c].indexed
  BY <1>1, <1>2 DEF SoundTable, IsTable, IsImage, Attached, Schema, IndexedColumns
<1>4. type \in {"int", "str"} /\ Schema(d, t)[c].notNull
  BY <1>3, SchemasAssumption DEF Definition
<1>5. Inverts(keys, rows, c, {})
  BY <1>1, ServingRests, NothingPending DEF KInv, IndexesMatch
<1>6. \A id \in DOMAIN rows : rows[id][c] \in Values /\ Kind[rows[id][c]] = type
  BY <1>2, <1>3, <1>4 DEF SoundTable, IsTable, IsImage, Fitting, Fits, Row, Rows, Schema
<1>7. w.right.is \in {"column", "null", "text"} /\ w.right2.is \in {"column", "null", "text"}
  BY CommandsAssumption DEF Where, Operand
<1>8. /\ Parse(w.right, type) \notin {Null, None}
      /\ w.op = "BETWEEN" => Parse(w.right2, type) \notin {Null, None}
  BY <1>1 DEF Readable
<1>9. w.right.is = "text" /\ (w.op = "BETWEEN" => w.right2.is = "text")
  BY <1>1, <1>7, <1>8 DEF Parse
<1>10. ASSUME NEW id \in ScanIds(d, t, w)
       PROVE  id \in {keys[v] : v \in FoundKeys(d, t, w)}
  <2> DEFINE v == rows[id][c]
             r == Resolve(w.right, rows[id])
             r2 == Resolve(w.right2, rows[id])
  <2>1. id \in DOMAIN rows /\ Holds(w, rows[id])
    BY DEF ScanIds
  <2>2. v \in DOMAIN keys /\ keys[v] = id /\ v \in Values /\ Kind[v] = type
    BY <1>5, <1>6, <2>1 DEF Inverts
  <2>3. Resolve(w.left, rows[id]) = v
    BY <1>1 DEF Resolve
  <2> HIDE DEF v, keys, c, type, rows
  <2>4. CASE w.op = "EQ"
    <3>1. Compares(v, r) /\ v = r
      BY <2>1, <2>3, <2>4 DEF Holds
    <3>2. v = Parse(w.right, type)
      BY <1>4, <1>9, <2>2, <3>1, ResolveIsParse DEF Compares
    <3>3. v \in FoundKeys(d, t, w)
      BY <2>2, <2>4, <3>2 DEF FoundKeys, keys, c, type
    <3> QED BY <2>2, <3>3
  <2>5. CASE w.op = "BETWEEN"
    <3>1. Compares(v, r) /\ Compares(v, r2) /\ r <= v /\ v < r2
      BY <2>1, <2>3, <2>5 DEF Holds
    <3>2. r = Parse(w.right, type) /\ r2 = Parse(w.right2, type)
      BY <1>4, <1>9, <2>2, <2>5, <3>1, ResolveIsParse DEF Compares
    <3>3. r2 \in Values \cup {None} /\ r2 # None
      <4>1. w.right2 \in Operand
        BY CommandsAssumption DEF Where
      <4>2. r2 \in Values \cup {Null, None}
        BY <1>9, <2>5, <4>1 DEF Operand, Resolve
      <4> QED BY <1>8, <2>5, <3>1, <3>2, <4>2
    <3>4. v <= r2
      BY <2>2, <3>1, <3>3, KindAssumption
    <3>5. v \in FoundKeys(d, t, w)
      BY <2>2, <2>5, <3>1, <3>2, <3>4 DEF FoundKeys, keys, c, type
    <3> QED BY <2>2, <3>5
  <2> QED BY <1>1, <2>4, <2>5
<1> QED BY <1>10 DEF ProbeIds

\* A change of rows that keeps them to their schema and their keys unique is
\* legal.
LEMMA KeyedStoreStep ==
    ASSUME RowsFitSchema', UniqueKeys', TypedStore!Next \/ UNCHANGED TypedStore!vars
    PROVE  Store!Next \/ UNCHANGED Store!vars
<1>1. CASE UNCHANGED TypedStore!vars
  BY <1>1 DEF TypedStore!vars, Store!vars
<1>2. CASE TypedStore!Stop \/ TypedStore!Start
  BY <1>2 DEF TypedStore!Stop, TypedStore!Start, Store!Next, Store!Stop, Store!Start
<1>3. ASSUME NEW n \in Names,
             TypedStore!Create(n) \/ TypedStore!Drop(n) \/ TypedStore!Save(n) \/ TypedStore!Discard(n)
      PROVE  Store!Next
  <2>1. CASE TypedStore!Create(n)
    <3>1. Store!Create(n)
      BY <2>1 DEF TypedStore!Create, Store!Create
    <3> QED BY <3>1 DEF Store!Next, Names
  <2>2. CASE TypedStore!Drop(n)
    <3>1. Store!Drop(n)
      BY <2>2 DEF TypedStore!Drop, Store!Drop, TypedStore!Restrict, Store!Restrict
    <3> QED BY <3>1 DEF Store!Next, Names
  <2>3. CASE TypedStore!Save(n)
    <3>1. Store!Save(n)
      BY <2>3 DEF TypedStore!Save, Store!Save
    <3> QED BY <3>1 DEF Store!Next, Names
  <2>4. CASE TypedStore!Discard(n)
    <3>1. Store!Discard(n)
      BY <2>4 DEF TypedStore!Discard, Store!Discard, TypedStore!Restrict, Store!Restrict
    <3> QED BY <3>1 DEF Store!Next, Names
  <2> QED BY <1>3, <2>1, <2>2, <2>3, <2>4
<1>4. ASSUME NEW n \in Names, NEW id \in RowIds, TypedStore!ChangeRow(n, id)
      PROVE  Store!Next
  <2>1. /\ n \in DOMAIN MemoryStore /\ phase = "up"
        /\ MemoryStore' = [MemoryStore EXCEPT ![n].rows = MemoryStore'[n].rows]
        /\ UNCHANGED <<phase = "up", SavedStore>>
        /\ TypedStore!DiffersAt(id, MemoryStore[n].rows, MemoryStore'[n].rows)
    BY <1>4 DEF TypedStore!ChangeRow
  <2>2. n \in DOMAIN MemoryStore'
    BY <2>1
  <2>3. HasTable(n[1], n[2])' /\ MemoryStore'[n] = [schema |-> Schema(n[1], n[2])', rows |-> Rows(n[1], n[2])']
    BY <2>2 DEF MemoryStore
  <2>4. MemoryStore'[n].schema = MemoryStore[n].schema
    BY <2>1, MemoryStoreTables
  <2>5. /\ \A i \in DOMAIN Rows(n[1], n[2])' : Fits(Schema(n[1], n[2])', Rows(n[1], n[2])'[i])
        /\ \A c \in IndexedColumns(Schema(n[1], n[2])') : \A i, j \in DOMAIN Rows(n[1], n[2])' :
              Rows(n[1], n[2])'[i][c] = Rows(n[1], n[2])'[j][c] => i = j
    BY <2>3 DEF RowsFitSchema, UniqueKeys, Names
  <2>6. LegalRows(MemoryStore[n].schema, MemoryStore'[n].rows)
    BY <2>3, <2>4, <2>5 DEF LegalRows
  <2>7. Store!ChangeRow(n, id)
    BY <2>1, <2>6 DEF Store!ChangeRow, TypedStore!DiffersAt, Store!DiffersAt
  <2> QED BY <1>4, <2>7 DEF Store!Next, Names
<1> QED BY <1>1, <1>2, <1>3, <1>4 DEF TypedStore!Next, Names

\* Table::validate asks an index, or nobody: no two rows get one value in an
\* INDEXED column all the same, in no interleaving of the steps of INSERT and
\* UPDATE, the ones that fail included (Table::insert, update, erase).
THEOREM KeysAreUnique == ASSUME OrdinaryUse PROVE Spec => []UniqueKeys
BY KeysInvariance, KInvUnique, PTL

\* Every command, answered "ok" or "error", leaves each index the inverse of
\* its column (notify_indexes_insert, notify_indexes_update, Table::erase).
THEOREM IndexesFollowRows == ASSUME OrdinaryUse PROVE Spec => []IndexMatchesRows
BY KeysInvariance, KInvMatches, PTL

\* SELECT, UPDATE and DELETE meet the same rows through an index as by a scan
\* (collect_candidate_rows against evaluate_simple_condition).
THEOREM IndexesAreTransparent == ASSUME OrdinaryUse PROVE Spec => []IndexIsTransparent
BY KeysInvariance, KInvTransparent, PTL

\* The engine implements a set of tables whose rows keep to their schema and
\* have unique keys, changed one row at a time and saved one table at a time
\* (DbmsQueryEngine::execute, save_all).
THEOREM EngineIsKeyedStore == ASSUME OrdinaryUse PROVE Spec => ImplementsStore
<1>1. IInv /\ KInv => RowsFitSchema /\ UniqueKeys
  BY IInvRows, KInvUnique
<1>2. RowsFitSchema' /\ UniqueKeys' /\ [TypedStore!Next]_TypedStore!vars => [Store!Next]_Store!vars
  BY KeyedStoreStep
<1>3. TypedStore!Init => Store!Init
  BY DEF TypedStore!Init, Store!Init
<1> QED BY <1>1, <1>2, <1>3, KeysInvariance, SpecIsCrashSpec, EngineIsTableStore, PTL
        DEF ImplementsTypedStore, TypedStore!Spec, ImplementsStore, Store!Spec

=============================================================================

---------------------------- MODULE StorageEngine ----------------------------
(***************************************************************************)
(* DbmsQueryEngine (executor/src/query_engine.cpp) over the storage it     *)
(* keeps: Dbms, Database and Table in memory, one .dat file per table and  *)
(* one index file per INDEXED column on disk.                              *)
(*                                                                         *)
(* execute() holds one mutex, so commands never overlap; what interleaves  *)
(* with a command is the end of the process.  A step is therefore one      *)
(* effect on the disk with the memory changes around it: an index file     *)
(* created or given its first page, a key inserted or erased (the index    *)
(* writes through), a table file replaced by rename, a file removed.  An   *)
(* exception ends the command where it is thrown, with the memory changes  *)
(* made so far and without save_all().                                     *)
(*                                                                         *)
(* Abstracted: SQL text, conditions with AND or OR (WhereCondition) and    *)
(* LIKE, the layout of the files, the string pool, JSON.                   *)
(* A column name that does not exist and a row with too many values throw  *)
(* where a mistyped value throws, before any change.  The index is the     *)
(* map from keys to row ids that index/index.h promises; the tree behind   *)
(* it is another module's subject.  System calls do not fail, and what was *)
(* written survives the process (a kill, not a power cut).                 *)
(***************************************************************************)
EXTENDS Integers, Sequences, FiniteSets, FiniteSetsExt, Functions

CONSTANTS
    Databases, Tables, Columns,  \* the names commands use
    Values,      \* literals that are not NULL
    Kind,        \* "int" or "str", of each value
    Indexable,   \* the values an index page can hold (strings up to 256 bytes)
    Schemas,     \* the column lists of CREATE TABLE
    RowLists,    \* the VALUES lists of INSERT
    Wheres,      \* the conditions of SELECT, UPDATE and DELETE
    SetLists,    \* the assignments of UPDATE
    MaxRowId,    \* bound: INSERT stops being issued at this row id
    ReuseNames,  \* whether a dropped table's name is used again
    Null, None   \* SQL NULL, and no value at all

Definition ==
    [type : {"int", "str"}, notNull : BOOLEAN, indexed : BOOLEAN,
     default : Values \cup {Null, None}]

Given == UNION {[S -> Values \cup {Null}] : S \in SUBSET Columns}

\* An operand of a condition: a column, NULL or another text.  str is the
\* string it spells, number what stoll reads from its start (None: nothing),
\* whole whether stoll reads all of it.
Operand ==
    [is : {"column", "null", "text"}, name : Columns \cup {None},
     str : Values, number : Values \cup {None}, whole : BOOLEAN]

\* A simple condition; "NONE" stands for a command without WHERE.
Where ==
    [op : {"NONE", "EQ", "NEQ", "LT", "GT", "LTE", "GTE", "BETWEEN"},
     left : Operand, right : Operand, right2 : Operand]

ASSUME NamesAssumption ==
    /\ None \notin Databases \cup Tables \cup Values \cup (1..MaxRowId)
    /\ Null \notin Values \cup {None}

\* Literals of one kind are ordered as their numbers here.
ASSUME KindAssumption ==
    Values \subseteq Int /\ Kind \in [Values -> {"int", "str"}] /\ Indexable \subseteq Values

\* build_schema: INDEXED implies NOT NULL.
ASSUME SchemasAssumption ==
    /\ Schemas \subseteq [Columns -> Definition]
    /\ \A s \in Schemas : \A c \in Columns : s[c].indexed => s[c].notNull

ASSUME CommandsAssumption ==
    /\ RowLists \subseteq Seq([byColumns : BOOLEAN, given : Given])
    /\ Wheres \subseteq Where
    /\ SetLists \subseteq Seq([col : Columns, val : Values \cup {Null}])

\* A text is a string, and what stoll reads from it an integer.
ASSUME TextsAssumption ==
    \A w \in Wheres : \A o \in {w.left, w.right, w.right2} :
        /\ Kind[o.str] = "str"
        /\ o.number # None => Kind[o.number] = "int"
        /\ o.whole => o.number # None

ASSUME BoundsAssumption == MaxRowId \in Nat /\ ReuseNames \in BOOLEAN

VARIABLES
    phase,      \* the process: "down", "up" (constructing or serving), "failed"
    dbs,        \* databases_, with their tables_
    active,     \* active_
    files,      \* the data directory
    cmd,        \* where execute() is, or the constructor
    reply,      \* the last answer: "none", "ok", "error"
    committed   \* (history) the tables as of the last "ok" or the last load

vars == <<phase, dbs, active, files, cmd, reply, committed>>

-----------------------------------------------------------------------------
(* Tables in memory and on disk.                                            *)

\* The map f with x bound to v, whatever it was bound to before.
With(f, x, v) == [y \in DOMAIN f \cup {x} |-> IF y = x THEN v ELSE f[y]]

Without(f, x) == Restrict(f, DOMAIN f \ {x})

Rows(d, t) == dbs[d][t].rows

Schema(d, t) == dbs[d][t].schema

\* A mistake for IndexedColumns: NOT NULL or not, every column has an index.
EveryColumn(schema) == Columns

IndexedColumns(schema) == {c \in Columns : schema[c].indexed}

IndexFile(d, t, c) == files[d].idx[<<t, c>>]

\* A file that was created and never got its first page.
Torn == [kind |-> "none", keys |-> <<>>]

\* indexes_: the columns whose index is attached.
Attached(d, t) == dbs[d][t].indexes

\* The index a table has attached to a column, as a map from key to row id.
Keys(d, t, c) == IndexFile(d, t, c).keys

\* What Table::save writes: next_id_ and indexes_ are not in it.
Image(table) == [schema |-> table.schema, rows |-> table.rows, order |-> table.order]

Images == [d \in DOMAIN dbs |-> [t \in DOMAIN dbs[d] |-> Image(dbs[d][t])]]

Ids(order) == {order[k] : k \in 1..Len(order)}

\* order_.erase(find(id)): without the first entry that is id.
Erased(order, id) ==
    LET at == Min({k \in 1..Len(order) : order[k] = id})
    IN SubSeq(order, 1, at - 1) \o SubSeq(order, at + 1, Len(order))

\* Two mistakes for Loaded: ids start at 0, and the first row is skipped.
LoadedFromZero(image) ==
    [schema |-> image.schema, rows |-> image.rows, order |-> image.order,
     nextId |-> IF image.order = <<>> THEN 0 ELSE Max(Ids(image.order)) + 1, indexes |-> {}]

LoadedWithoutFirst(image) ==
    [schema |-> image.schema,
     rows   |-> Without(image.rows, 1),
     order  |-> IF 1 \in DOMAIN image.rows THEN Erased(image.order, 1) ELSE image.order,
     nextId |-> IF image.order = <<>> THEN 1 ELSE Max(Ids(image.order)) + 1, indexes |-> {}]

\* Table::load: next_id_ is one more than the largest id in the file.
Loaded(image) ==
    [schema |-> image.schema, rows |-> image.rows, order |-> image.order,
     nextId |-> IF image.order = <<>> THEN 1 ELSE Max(Ids(image.order)) + 1, indexes |-> {}]

EmptyTable(schema) ==
    [schema |-> schema, rows |-> <<>>, order |-> <<>>, nextId |-> 1, indexes |-> {}]

EmptyDir == [dat |-> <<>>, idx |-> <<>>]

\* insert_row fills a missing column from its DEFAULT; materialize, which an
\* INSERT with a column list goes through, leaves it NULL.
RowOf(schema, r) ==
    [c \in Columns |->
        CASE c \in DOMAIN r.given -> r.given[c]
          [] c \notin DOMAIN r.given /\ ~r.byColumns /\ schema[c].default # None -> schema[c].default
          [] OTHER -> Null]

\* Table::validate, the part that looks at the row alone.
Fits(schema, row) ==
    \A c \in Columns :
        IF row[c] = Null THEN ~schema[c].notNull ELSE Kind[row[c]] = schema[c].type

\* BStarPlusIndex keeps the kind its file was made with: any other key throws.
Clashes(d, t, c) == IndexFile(d, t, c).kind # Schema(d, t)[c].type

\* A mistake for Taken: nothing is looked up.
TakenByNobody(d, t, c, v, id) == FALSE

\* value_exists_in_column: some row but id has v in column c, as the index
\* says, or without one the rows.
Taken(d, t, c, v, id) ==
    IF c \in Attached(d, t)
    THEN v \in DOMAIN Keys(d, t, c) /\ Keys(d, t, c)[v] # id
    ELSE \E i \in DOMAIN Rows(d, t) \ {id} : Rows(d, t)[i][c] = v

\* The index of c answers, and has v for no row but id.
Free(d, t, c, v, id) == (c \in Attached(d, t) => ~Clashes(d, t, c)) /\ ~Taken(d, t, c, v, id)

\* A mistake for Valid: only the keys are looked at.
ValidKeys(d, t, row, id) == \A c \in IndexedColumns(Schema(d, t)) : Free(d, t, c, row[c], id)

\* Table::validate of a row that is to become row id (None for a new row).
Valid(d, t, row, id) ==
    /\ Fits(Schema(d, t), row)
    /\ \A c \in IndexedColumns(Schema(d, t)) : Free(d, t, c, row[c], id)

-----------------------------------------------------------------------------
(* Reading: the rows a condition selects.                                   *)

\* resolve_operand: a text that is a number becomes one, quoted or not, and
\* whatever it is compared with.
Resolve(o, row) ==
    CASE o.is = "column" -> row[o.name]
      [] o.is = "null" -> Null
      [] OTHER -> IF o.whole THEN o.number ELSE o.str

\* Value::compare: NULL and values of two kinds do not compare.
Compares(a, b) == a # Null /\ b # Null /\ Kind[a] = Kind[b]

\* evaluate_simple_condition; BETWEEN leaves the upper bound out.
Holds(w, row) ==
    LET l == Resolve(w.left, row)
        r == Resolve(w.right, row)
        r2 == Resolve(w.right2, row)
    IN CASE w.op = "NONE" -> TRUE
         [] w.op = "BETWEEN" -> Compares(l, r) /\ Compares(l, r2) /\ r <= l /\ l < r2
         [] w.op = "EQ" -> Compares(l, r) /\ l = r
         [] w.op = "NEQ" -> Compares(l, r) /\ l # r
         [] w.op = "LT" -> Compares(l, r) /\ l < r
         [] w.op = "GT" -> Compares(l, r) /\ l > r
         [] w.op = "LTE" -> Compares(l, r) /\ l <= r
         [] w.op = "GTE" -> Compares(l, r) /\ l >= r

ScanIds(d, t, w) == {id \in DOMAIN Rows(d, t) : Holds(w, Rows(d, t)[id])}

\* parse_literal_for_column: a text becomes what the column holds, the name of
\* a column included; None where stoll throws.
Parse(o, type) ==
    CASE o.is = "null" -> Null
      [] o.is # "null" /\ type = "int" -> o.number
      [] OTHER -> o.str

\* collect_candidate_rows uses the index: right2 may be a column and still be
\* parsed as a text.
Probes(d, t, w) ==
    /\ w.op \in {"EQ", "BETWEEN"}
    /\ w.left.is = "column" /\ w.right.is # "column"
    /\ w.left.name \in Attached(d, t)

\* A mistake for FoundKeys: a range leaves its lower bound out.
FoundKeysAbove(d, t, w) ==
    LET type == Schema(d, t)[w.left.name].type
        b == Parse(w.right, type)
    IN {v \in DOMAIN Keys(d, t, w.left.name) :
            IF w.op = "EQ" THEN v = b ELSE b < v /\ v <= Parse(w.right2, type)}

\* find, or range_search over a closed range.
FoundKeys(d, t, w) ==
    LET type == Schema(d, t)[w.left.name].type
        b == Parse(w.right, type)
    IN {v \in DOMAIN Keys(d, t, w.left.name) :
            IF w.op = "EQ" THEN v = b ELSE b <= v /\ v <= Parse(w.right2, type)}

\* The loops over the candidates skip an id without a row and test the
\* condition again.
ProbeIds(d, t, w) ==
    {Keys(d, t, w.left.name)[v] : v \in FoundKeys(d, t, w)} \cap ScanIds(d, t, w)

Sorted(S) ==
    CHOOSE s \in [1..Cardinality(S) -> S] :
        \A i, j \in 1..Cardinality(S) : i < j => s[i] < s[j]

\* The entries of s that are in S, in their order.
Selected(s, S) ==
    LET at == Sorted({k \in 1..Len(s) : s[k] \in S}) IN [i \in 1..Len(at) |-> s[at[i]]]

\* collect_candidate_rows: the rows of the keys found, or all of the table's.
\* A key that a dropped table left may name a row twice, or one not there.
Candidates(d, t, w) ==
    IF Probes(d, t, w)
    THEN LET keys == Sorted(FoundKeys(d, t, w))
         IN [i \in 1..Len(keys) |-> Keys(d, t, w.left.name)[keys[i]]]
    ELSE dbs[d][t].order

-----------------------------------------------------------------------------
(* The command in progress: what is left of it.                             *)

Idle == [pc |-> "idle"]

Saving(names) == [pc |-> "save", left |-> names, db |-> None, tables |-> {}]

Attaching(todo, then) == [pc |-> "attach", todo |-> todo, then |-> then, at |-> None, ids |-> <<>>]

Serving == phase = "up" /\ cmd = Idle

Finish(answer) == cmd' = Idle /\ reply' = answer

Continue(c) == cmd' = c /\ UNCHANGED reply

SetTable(d, t, table) == dbs' = [dbs EXCEPT ![d][t] = table]

SetKeys(d, t, c, keys) == files' = [files EXCEPT ![d].idx[<<t, c>>].keys = keys]

\* BStarPlusIndex::insert throws for the kind, for a key that is there, for its length.
Insertable(d, t, c, v) ==
    v \in Indexable \ DOMAIN Keys(d, t, c) /\ ~Clashes(d, t, c)

\* What a throwing BStarPlusIndex::insert leaves.  A key too long for a page
\* fails in the middle of a split: what had moved to the new page is gone.
KeysAfterThrow(d, t, c, v) ==
    IF Clashes(d, t, c) \/ v \in DOMAIN Keys(d, t, c)
    THEN {Keys(d, t, c)}
    ELSE {Restrict(Keys(d, t, c), S) : S \in SUBSET DOMAIN Keys(d, t, c)}

KeysAfterErase(d, t, c, v) == Without(Keys(d, t, c), v)

\* create_directories: one that is there stays as it is.
MakeDirectory(d) == files' = IF d \in DOMAIN files THEN files ELSE With(files, d, EmptyDir)

Init ==
    /\ phase = "down"
    /\ dbs = <<>>
    /\ active = None
    /\ files = <<>>
    /\ cmd = Idle
    /\ reply = "none"
    /\ committed = <<>>

-----------------------------------------------------------------------------
(* Databases and tables.                                                    *)

\* resolve_database: the name given, or the active database.
Resolved(x) == IF x = None THEN active ELSE x

HasTable(d, t) == d \in DOMAIN dbs /\ t \in DOMAIN dbs[d]

\* The command names what it must not find, or does not name what it must.
Refuse ==
    /\ Serving
    /\ \/ DOMAIN dbs # {}                                    \* CREATE DATABASE
       \/ DOMAIN dbs # Databases                             \* DROP DATABASE, USE
       \/ \E x \in Databases \cup {None}, t \in Tables :     \* the others
              Resolved(x) \notin DOMAIN dbs \/ HasTable(Resolved(x), t)
       \/ \E x \in Databases \cup {None}, t \in Tables : ~HasTable(Resolved(x), t)
    /\ Finish("error")
    /\ UNCHANGED <<phase, dbs, active, files, committed>>

CreateDatabase(d) ==
    /\ Serving /\ d \notin DOMAIN dbs
    /\ dbs' = With(dbs, d, <<>>)
    /\ MakeDirectory(d)
    /\ Continue(Saving(DOMAIN dbs \cup {d}))
    /\ UNCHANGED <<phase, active, committed>>

\* A mistake for DropDatabase: the active database stays selected.
DropDatabaseKeepActive(d) ==
    /\ Serving /\ d \in DOMAIN dbs
    /\ dbs' = Without(dbs, d)
    /\ Continue([pc |-> "remove", db |-> d])
    /\ UNCHANGED <<phase, active, files, committed>>

DropDatabase(d) ==
    /\ Serving /\ d \in DOMAIN dbs
    /\ dbs' = Without(dbs, d)
    /\ active' = IF active = d THEN None ELSE active
    /\ Continue([pc |-> "remove", db |-> d])
    /\ UNCHANGED <<phase, files, committed>>

\* remove_all takes the files one by one, then the directory.
RemoveFile ==
    /\ cmd.pc = "remove"
    /\ \/ \E t \in DOMAIN files[cmd.db].dat :
             files' = [files EXCEPT ![cmd.db].dat = Without(@, t)]
       \/ \E f \in DOMAIN files[cmd.db].idx :
             files' = [files EXCEPT ![cmd.db].idx = Without(@, f)]
    /\ UNCHANGED <<phase, dbs, active, cmd, reply, committed>>

RemoveDirectory ==
    /\ cmd.pc = "remove"
    /\ files[cmd.db] = EmptyDir
    /\ files' = Without(files, cmd.db)
    /\ Continue(Saving(DOMAIN dbs))
    /\ UNCHANGED <<phase, dbs, active, committed>>

UseDatabase(d) ==
    /\ Serving /\ d \in DOMAIN dbs
    /\ active' = d
    /\ Finish("ok")
    /\ UNCHANGED <<phase, dbs, files, committed>>

\* CREATE TABLE, up to the first index it opens.
CreateTable(x, t, schema) ==
    LET d == Resolved(x) IN
    /\ Serving /\ d \in DOMAIN dbs /\ ~HasTable(d, t)
    /\ ReuseNames \/ \A c \in Columns : <<t, c>> \notin DOMAIN files[d].idx
    /\ dbs' = [dbs EXCEPT ![d] = With(@, t, EmptyTable(schema))]
    /\ Continue(Attaching({<<d, t, c>> : c \in IndexedColumns(schema)}, "save"))
    /\ UNCHANGED <<phase, active, files, committed>>

\* DROP TABLE: the .dat file goes with save_all, the index files stay.
DropTable(x, t) ==
    LET d == Resolved(x) IN
    /\ Serving /\ HasTable(d, t)
    /\ dbs' = [dbs EXCEPT ![d] = Without(@, t)]
    /\ Continue(Saving(DOMAIN dbs))
    /\ UNCHANGED <<phase, active, files, committed>>

-----------------------------------------------------------------------------
(* attach_indexes_for_table, of a new table and of every loaded one.        *)

\* The columns left to attach whose index file is there, or is not.
Waiting(there) == {at \in cmd.todo : there <=> <<at[2], at[3]>> \in DOMAIN files[at[1]].idx}

\* make_index_for_column creates a file that is missing ...
CreateIndexFile ==
    /\ cmd.pc = "attach" /\ cmd.ids = <<>>
    /\ \E at \in Waiting(FALSE) :
        /\ files' = [files EXCEPT ![at[1]].idx = With(@, <<at[2], at[3]>>, Torn)]
        /\ Continue([cmd EXCEPT !.pc = "create", !.at = at])
    /\ UNCHANGED <<phase, dbs, active, committed>>

\* ... and then writes its first page, ...
WriteFirstPage ==
    /\ cmd.pc = "create"
    /\ LET d == cmd.at[1]  t == cmd.at[2]  c == cmd.at[3] IN
       files' = [files EXCEPT ![d].idx[<<t, c>>].kind = Schema(d, t)[c].type]
    /\ Continue([cmd EXCEPT !.pc = "attach"])
    /\ UNCHANGED <<phase, dbs, active, committed>>

\* ... and opens a file that is there as it is.
OpenIndex ==
    /\ cmd.pc = "attach" /\ cmd.ids = <<>>
    /\ \E at \in Waiting(TRUE) :
        LET d == at[1]  t == at[2]  c == at[3] IN
        /\ IndexFile(d, t, c) # Torn
        /\ dbs' = [dbs EXCEPT ![d][t].indexes = @ \cup {c}]
        /\ Continue([cmd EXCEPT !.todo = @ \ {at}, !.at = at, !.ids = dbs[d][t].order])
    /\ UNCHANGED <<phase, active, files, committed>>

\* A file without a first page: CREATE TABLE is answered with an error, its
\* table staying in memory without this index and those after it; a server
\* that starts ends.
OpenThrows ==
    /\ cmd.pc = "attach" /\ cmd.ids = <<>>
    /\ \E at \in Waiting(TRUE) : IndexFile(at[1], at[2], at[3]) = Torn
    /\ IF cmd.then = "save"
       THEN Finish("error") /\ UNCHANGED <<phase, dbs>>
       ELSE Finish("none") /\ phase' = "failed" /\ dbs' = <<>>
    /\ UNCHANGED <<active, files, committed>>

\* attach_index with rebuild: every row's key is inserted again.
RebuildRow ==
    /\ cmd.pc = "attach" /\ cmd.ids # <<>>
    /\ LET d == cmd.at[1]  t == cmd.at[2]  c == cmd.at[3]  id == Head(cmd.ids)
           v == Rows(d, t)[id][c] IN
       /\ Insertable(d, t, c, v)
       /\ SetKeys(d, t, c, With(Keys(d, t, c), v, id))
    /\ Continue([cmd EXCEPT !.ids = Tail(@)])
    /\ UNCHANGED <<phase, dbs, active, committed>>

\* The key is there: the exception leaves the constructor, and main() with it.
\* (A table just created has no rows, so this is always the constructor.)
RebuildThrows ==
    /\ cmd.pc = "attach" /\ cmd.ids # <<>>
    /\ LET d == cmd.at[1]  t == cmd.at[2]  c == cmd.at[3]
           v == Rows(d, t)[Head(cmd.ids)][c] IN
       /\ ~Insertable(d, t, c, v)
       /\ \E keys \in KeysAfterThrow(d, t, c, v) : SetKeys(d, t, c, keys)
    /\ phase' = "failed"
    /\ dbs' = <<>>
    /\ Finish("none")
    /\ UNCHANGED <<active, committed>>

TableCreated ==
    /\ cmd.pc = "attach" /\ cmd.ids = <<>> /\ cmd.todo = {} /\ cmd.then = "save"
    /\ Continue(Saving(DOMAIN dbs))
    /\ UNCHANGED <<phase, dbs, active, files, committed>>

-----------------------------------------------------------------------------
(* Rows.                                                                    *)

\* A read through the index throws for a bound that is NULL or no number, and
\* for an index of another kind.
Readable(d, t, w) ==
    Probes(d, t, w) =>
        /\ ~Clashes(d, t, w.left.name)
        /\ \A o \in IF w.op = "EQ" THEN {w.right} ELSE {w.right, w.right2} :
               Parse(o, Schema(d, t)[w.left.name].type) \notin {Null, None}

ReadThrows(x, t, w) ==
    LET d == Resolved(x) IN
    /\ Serving /\ HasTable(d, t) /\ ~Readable(d, t, w)
    /\ Finish("error")
    /\ UNCHANGED <<phase, dbs, active, files, committed>>

Select(x, t, w) ==
    LET d == Resolved(x) IN
    /\ Serving /\ HasTable(d, t) /\ Readable(d, t, w)
    /\ Finish("ok")
    /\ UNCHANGED <<phase, dbs, active, files, committed>>

BeginInsert(x, t, rows) ==
    LET d == Resolved(x) IN
    /\ Serving /\ HasTable(d, t)
    /\ dbs[d][t].nextId + Len(rows) <= MaxRowId + 1
    /\ Continue([pc |-> "insert", db |-> d, table |-> t, rows |-> rows, id |-> None, cols |-> {}])
    /\ UNCHANGED <<phase, dbs, active, files, committed>>

\* Table::insert up to notify_indexes_insert: the row is in the table before
\* its keys are in the indexes.
InsertRow ==
    /\ cmd.pc = "insert" /\ cmd.cols = {} /\ cmd.rows # <<>>
    /\ LET table == dbs[cmd.db][cmd.table]
           row == RowOf(table.schema, Head(cmd.rows)) IN
       /\ Valid(cmd.db, cmd.table, row, None)
       /\ SetTable(cmd.db, cmd.table,
              [schema |-> table.schema,
               rows   |-> With(table.rows, table.nextId, row),
               order  |-> Append(table.order, table.nextId),
               nextId |-> table.nextId + 1,
               indexes |-> table.indexes])
       /\ Continue([cmd EXCEPT !.rows = Tail(@), !.id = table.nextId,
                               !.cols = table.indexes])
    /\ UNCHANGED <<phase, active, files, committed>>

InsertRejected ==
    /\ cmd.pc = "insert" /\ cmd.cols = {} /\ cmd.rows # <<>>
    /\ ~Valid(cmd.db, cmd.table, RowOf(Schema(cmd.db, cmd.table), Head(cmd.rows)), None)
    /\ Finish("error")
    /\ UNCHANGED <<phase, dbs, active, files, committed>>

IndexRow ==
    /\ cmd.pc = "insert"
    /\ \E c \in cmd.cols :
        LET v == Rows(cmd.db, cmd.table)[cmd.id][c] IN
        /\ Insertable(cmd.db, cmd.table, c, v)
        /\ SetKeys(cmd.db, cmd.table, c, With(Keys(cmd.db, cmd.table, c), v, cmd.id))
        /\ Continue([cmd EXCEPT !.cols = @ \ {c}])
    /\ UNCHANGED <<phase, dbs, active, committed>>

IndexThrows ==
    /\ cmd.pc = "insert"
    /\ \E c \in cmd.cols :
        LET v == Rows(cmd.db, cmd.table)[cmd.id][c] IN
        /\ ~Insertable(cmd.db, cmd.table, c, v)
        /\ \E keys \in KeysAfterThrow(cmd.db, cmd.table, c, v) : SetKeys(cmd.db, cmd.table, c, keys)
    /\ Finish("error")
    /\ UNCHANGED <<phase, dbs, active, committed>>

RowsInserted ==
    /\ cmd.pc = "insert" /\ cmd.cols = {} /\ cmd.rows = <<>>
    /\ Continue(Saving(DOMAIN dbs))
    /\ UNCHANGED <<phase, dbs, active, files, committed>>

BeginUpdate(x, t, w, sets) ==
    LET d == Resolved(x) IN
    /\ Serving /\ HasTable(d, t) /\ Readable(d, t, w)
    /\ Continue([pc |-> "update", db |-> d, table |-> t, where |-> w, sets |-> sets,
                 ids |-> Candidates(d, t, w), id |-> None, todo |-> <<>>, erased |-> FALSE])
    /\ UNCHANGED <<phase, dbs, active, files, committed>>

\* The loop comes to a candidate, and only now tests its condition.
MeetRow ==
    /\ cmd.pc = "update" /\ cmd.todo = <<>> /\ cmd.ids # <<>>
    /\ LET id == Head(cmd.ids) IN
       Continue([cmd EXCEPT !.ids = Tail(@), !.id = id,
                            !.todo = IF id \in ScanIds(cmd.db, cmd.table, cmd.where) THEN cmd.sets ELSE <<>>])
    /\ UNCHANGED <<phase, dbs, active, files, committed>>

\* The row Table::update validates and then stores.
Updated(a) == [Rows(cmd.db, cmd.table)[cmd.id] EXCEPT ![a.col] = a.val]

StoreUpdated(a) ==
    SetTable(cmd.db, cmd.table, [dbs[cmd.db][cmd.table] EXCEPT !.rows[cmd.id] = Updated(a)])

UpdatePlain ==
    /\ cmd.pc = "update" /\ cmd.todo # <<>>
    /\ LET a == Head(cmd.todo) IN
       /\ Valid(cmd.db, cmd.table, Updated(a), cmd.id)
       /\ a.col \notin Attached(cmd.db, cmd.table)
       /\ StoreUpdated(a)
    /\ Continue([cmd EXCEPT !.todo = Tail(@)])
    /\ UNCHANGED <<phase, active, files, committed>>

\* A mistake for UpdateErasesKey: the old key stays.
UpdateKeepsKey ==
    /\ cmd.pc = "update" /\ cmd.todo # <<>> /\ ~cmd.erased
    /\ Valid(cmd.db, cmd.table, Updated(Head(cmd.todo)), cmd.id)
    /\ Head(cmd.todo).col \in Attached(cmd.db, cmd.table)
    /\ Continue([cmd EXCEPT !.erased = TRUE])
    /\ UNCHANGED <<phase, dbs, active, files, committed>>

\* notify_indexes_update: the old key first ...
UpdateErasesKey ==
    /\ cmd.pc = "update" /\ cmd.todo # <<>> /\ ~cmd.erased
    /\ LET a == Head(cmd.todo)
           old == Rows(cmd.db, cmd.table)[cmd.id][a.col] IN
       /\ Valid(cmd.db, cmd.table, Updated(a), cmd.id)
       /\ a.col \in Attached(cmd.db, cmd.table)
       /\ SetKeys(cmd.db, cmd.table, a.col, KeysAfterErase(cmd.db, cmd.table, a.col, old))
    /\ Continue([cmd EXCEPT !.erased = TRUE])
    /\ UNCHANGED <<phase, dbs, active, committed>>

\* ... then the new one, then the row.
UpdateInsertsKey ==
    /\ cmd.pc = "update" /\ cmd.erased
    /\ LET a == Head(cmd.todo) IN
       /\ Insertable(cmd.db, cmd.table, a.col, a.val)
       /\ SetKeys(cmd.db, cmd.table, a.col, With(Keys(cmd.db, cmd.table, a.col), a.val, cmd.id))
       /\ StoreUpdated(a)
    /\ Continue([cmd EXCEPT !.todo = Tail(@), !.erased = FALSE])
    /\ UNCHANGED <<phase, active, committed>>

UpdateThrows ==
    /\ cmd.pc = "update" /\ cmd.erased
    /\ LET a == Head(cmd.todo) IN
       /\ ~Insertable(cmd.db, cmd.table, a.col, a.val)
       /\ \E keys \in KeysAfterThrow(cmd.db, cmd.table, a.col, a.val) :
              SetKeys(cmd.db, cmd.table, a.col, keys)
    /\ Finish("error")
    /\ UNCHANGED <<phase, dbs, active, committed>>

UpdateRejected ==
    /\ cmd.pc = "update" /\ cmd.todo # <<>> /\ ~cmd.erased
    /\ ~Valid(cmd.db, cmd.table, Updated(Head(cmd.todo)), cmd.id)
    /\ Finish("error")
    /\ UNCHANGED <<phase, dbs, active, files, committed>>

RowsUpdated ==
    /\ cmd.pc = "update" /\ cmd.todo = <<>> /\ cmd.ids = <<>>
    /\ Continue(Saving(DOMAIN dbs))
    /\ UNCHANGED <<phase, dbs, active, files, committed>>

BeginDelete(x, t, w) ==
    LET d == Resolved(x) IN
    /\ Serving /\ HasTable(d, t) /\ Readable(d, t, w)
    /\ Continue([pc |-> "delete", db |-> d, table |-> t, cols |-> Attached(d, t),
                 ids |-> Selected(Candidates(d, t, w), ScanIds(d, t, w))])
    /\ UNCHANGED <<phase, dbs, active, files, committed>>

\* The next row to erase is there.
Erasing == cmd.pc = "delete" /\ cmd.ids # <<>> /\ Head(cmd.ids) \in DOMAIN Rows(cmd.db, cmd.table)

\* Table::erase: the row's keys in every index ...
DeleteKey ==
    /\ Erasing
    /\ \E c \in cmd.cols :
        /\ SetKeys(cmd.db, cmd.table, c,
               KeysAfterErase(cmd.db, cmd.table, c, Rows(cmd.db, cmd.table)[Head(cmd.ids)][c]))
        /\ Continue([cmd EXCEPT !.cols = @ \ {c}])
    /\ UNCHANGED <<phase, dbs, active, committed>>

\* A mistake for DeleteRow: order_ keeps the id.
DeleteRowKeepOrder ==
    /\ Erasing /\ cmd.cols = {}
    /\ dbs' = [dbs EXCEPT ![cmd.db][cmd.table].rows = Without(@, Head(cmd.ids))]
    /\ Continue([cmd EXCEPT !.ids = Tail(@), !.cols = Attached(cmd.db, cmd.table)])
    /\ UNCHANGED <<phase, active, files, committed>>

\* ... then the row.
DeleteRow ==
    /\ Erasing /\ cmd.cols = {}
    /\ LET table == dbs[cmd.db][cmd.table]  id == Head(cmd.ids) IN
       /\ SetTable(cmd.db, cmd.table,
              [schema |-> table.schema,
               rows   |-> Without(table.rows, id),
               order  |-> Erased(table.order, id),
               nextId |-> table.nextId,
               indexes |-> table.indexes])
       /\ Continue([cmd EXCEPT !.ids = Tail(@), !.cols = table.indexes])
    /\ UNCHANGED <<phase, active, files, committed>>

\* A row that was listed twice is not there the second time.
EraseThrows ==
    /\ cmd.pc = "delete" /\ cmd.ids # <<>> /\ ~Erasing
    /\ Finish("error")
    /\ UNCHANGED <<phase, dbs, active, files, committed>>

RowsDeleted ==
    /\ cmd.pc = "delete" /\ cmd.ids = <<>>
    /\ Continue(Saving(DOMAIN dbs))
    /\ UNCHANGED <<phase, dbs, active, files, committed>>

-----------------------------------------------------------------------------
(* save_all: every table of every database, whatever the command touched.   *)

\* A mistake for Stale: every file is removed before the tables are written.
StaleAll(d) ==
    IF d = None \/ cmd.tables # DOMAIN dbs[d] THEN {} ELSE DOMAIN files[d].dat

Stale(d) == IF d = None THEN {} ELSE DOMAIN files[d].dat \ DOMAIN dbs[d]

SaveDatabase ==
    /\ cmd.pc = "save" /\ cmd.tables = {} /\ Stale(cmd.db) = {}
    /\ \E d \in cmd.left :
        /\ MakeDirectory(d)
        /\ Continue([cmd EXCEPT !.left = @ \ {d}, !.db = d, !.tables = DOMAIN dbs[d]])
    /\ UNCHANGED <<phase, dbs, active, committed>>

\* save_to: first the .dat files without a table ...
RemoveStale ==
    /\ cmd.pc = "save"
    /\ \E t \in Stale(cmd.db) :
           files' = [files EXCEPT ![cmd.db].dat = Without(@, t)]
    /\ UNCHANGED <<phase, dbs, active, cmd, reply, committed>>

\* A mistake for SaveTable: the loop never gets past a table.
SaveTableAgain ==
    /\ cmd.pc = "save" /\ Stale(cmd.db) = {}
    /\ \E t \in cmd.tables :
        /\ files' = [files EXCEPT ![cmd.db].dat = With(@, t, Image(dbs[cmd.db][t]))]
    /\ UNCHANGED <<phase, dbs, active, cmd, reply, committed>>

\* ... then each table, by Table::save: the old file or the new one.
SaveTable ==
    /\ cmd.pc = "save" /\ Stale(cmd.db) = {}
    /\ \E t \in cmd.tables :
        /\ files' = [files EXCEPT ![cmd.db].dat = With(@, t, Image(dbs[cmd.db][t]))]
        /\ Continue([cmd EXCEPT !.tables = @ \ {t}])
    /\ UNCHANGED <<phase, dbs, active, committed>>

Saved ==
    /\ cmd.pc = "save" /\ cmd.left = {} /\ cmd.tables = {} /\ Stale(cmd.db) = {}
    /\ committed' = Images
    /\ Finish("ok")
    /\ UNCHANGED <<phase, dbs, active, files>>

-----------------------------------------------------------------------------
(* The process.                                                             *)

HasFile(d, t) == d \in DOMAIN files /\ t \in DOMAIN files[d].dat

\* The constructor: load_all, then the indexes.
Start ==
    /\ phase \in {"down", "failed"}
    /\ phase' = "up"
    /\ dbs' = [d \in DOMAIN files |->
                  [t \in DOMAIN files[d].dat |-> Loaded(files[d].dat[t])]]
    /\ cmd' = Attaching({at \in Databases \X Tables \X Columns :
                             HasFile(at[1], at[2]) /\ at[3] \in IndexedColumns(files[at[1]].dat[at[2]].schema)}, "serve")
    /\ committed' = [d \in DOMAIN files |-> files[d].dat]
    /\ UNCHANGED <<active, files, reply>>

Serve ==
    /\ cmd.pc = "attach" /\ cmd.ids = <<>> /\ cmd.todo = {} /\ cmd.then = "serve"
    /\ Finish("none")
    /\ UNCHANGED <<phase, dbs, active, files, committed>>

Crash ==
    /\ phase = "up"
    /\ phase' = "down"
    /\ dbs' = <<>>
    /\ active' = None
    /\ Finish("none")
    /\ UNCHANGED <<files, committed>>

Catalogue ==
    \/ Refuse
    \/ \E d \in Databases : CreateDatabase(d) \/ DropDatabase(d) \/ UseDatabase(d)
    \/ \E x \in Databases \cup {None}, t \in Tables :
          DropTable(x, t) \/ \E schema \in Schemas : CreateTable(x, t, schema)
    \/ RemoveFile \/ RemoveDirectory
    \/ CreateIndexFile \/ WriteFirstPage \/ OpenIndex \/ OpenThrows
    \/ RebuildRow \/ RebuildThrows \/ TableCreated

RowCommands ==
    \/ \E x \in Databases \cup {None}, t \in Tables :
          \/ \E rows \in RowLists : BeginInsert(x, t, rows)
          \/ \E w \in Wheres : Select(x, t, w) \/ ReadThrows(x, t, w) \/ BeginDelete(x, t, w)
          \/ \E w \in Wheres, sets \in SetLists : BeginUpdate(x, t, w, sets)
    \/ InsertRow \/ InsertRejected \/ IndexRow \/ IndexThrows \/ RowsInserted
    \/ MeetRow \/ UpdatePlain \/ UpdateErasesKey \/ UpdateInsertsKey
    \/ UpdateThrows \/ UpdateRejected \/ RowsUpdated
    \/ DeleteKey \/ DeleteRow \/ EraseThrows \/ RowsDeleted

Saves == SaveDatabase \/ RemoveStale \/ SaveTable \/ Saved

Run == Start \/ Serve \/ Catalogue \/ RowCommands \/ Saves

Spec == Init /\ [][Run]_vars

Next == Run \/ Crash

CrashSpec == Init /\ [][Next]_vars

\* The process ends between two commands only.
StopSpec == Init /\ [][Run \/ (cmd = Idle /\ Crash)]_vars

-----------------------------------------------------------------------------
(* Types.                                                                   *)

Row == [Columns -> Values \cup {Null}]

RowIds == 1..MaxRowId

PartialFunctions(S, T) == UNION {[D -> T] : D \in SUBSET S}

IsImage(image) ==
    /\ image.schema \in Schemas
    /\ DOMAIN image.rows \subseteq RowIds
    /\ \A id \in DOMAIN image.rows : image.rows[id] \in Row
    /\ image.order \in Seq(RowIds)

IsTable(table) ==
    /\ IsImage(table)
    /\ table.nextId \in 1..(MaxRowId + 1)
    /\ table.indexes \subseteq IndexedColumns(table.schema)

IsIndex(index) ==
    /\ index.kind \in {"int", "str", "none"}
    /\ DOMAIN index.keys \subseteq Values
    /\ \A v \in DOMAIN index.keys : index.keys[v] \in RowIds

IsDirectory(dir) ==
    /\ DOMAIN dir.dat \subseteq Tables
    /\ \A t \in DOMAIN dir.dat : IsImage(dir.dat[t])
    /\ DOMAIN dir.idx \subseteq Tables \X Columns
    /\ \A f \in DOMAIN dir.idx : IsIndex(dir.idx[f])

\* Memory, files and the command in progress keep their shape; a command
\* only works on a table that is there.
TypeOK ==
    /\ phase \in {"down", "up", "failed"}
    /\ DOMAIN dbs \subseteq Databases
    /\ \A d \in DOMAIN dbs : DOMAIN dbs[d] \subseteq Tables /\ \A t \in DOMAIN dbs[d] : IsTable(dbs[d][t])
    /\ active \in Databases \cup {None}
    /\ DOMAIN files \subseteq Databases
    /\ \A d \in DOMAIN files : IsDirectory(files[d])
    /\ cmd.pc \in {"idle", "remove", "attach", "create", "insert", "update", "delete", "save"}
    /\ cmd.pc \in {"insert", "update", "delete"} => HasTable(cmd.db, cmd.table)
    /\ reply \in {"none", "ok", "error"}

-----------------------------------------------------------------------------
(* Tables and their indexes.                                                *)

\* rows_, order_ and next_id_ agree: order_ lists every row once, and an id
\* that a later INSERT takes is new (Table::insert, erase and load).
RowsInOrder ==
    \A d \in Databases, t \in Tables : HasTable(d, t) =>
        LET table == dbs[d][t] IN
        /\ Ids(table.order) = DOMAIN table.rows
        /\ Len(table.order) = Cardinality(DOMAIN table.rows)
        /\ \A id \in DOMAIN table.rows : id < table.nextId

\* No row holds NULL in a NOT NULL column or a value of another type, whatever
\* INSERT, UPDATE and DEFAULT supplied it (Table::validate).
RowsFitSchema ==
    \A d \in Databases, t \in Tables : HasTable(d, t) =>
        \A id \in DOMAIN Rows(d, t) : Fits(Schema(d, t), Rows(d, t)[id])

\* No two rows have one value in an INDEXED column, though no code compares
\* the rows: Table::validate asks the index (index/index.h:15, a unique key).
UniqueKeys ==
    \A d \in Databases, t \in Tables : HasTable(d, t) => \A c \in IndexedColumns(Schema(d, t)) :
        \A i, j \in DOMAIN Rows(d, t) :
            Rows(d, t)[i][c] = Rows(d, t)[j][c] => i = j

\* Between commands, failed ones included, each index is the inverse of its
\* column: INSERT, UPDATE and DELETE leave no key behind and forget none.
IndexMatchesRows ==
    Serving => \A d \in Databases, t \in Tables : HasTable(d, t) => \A c \in Attached(d, t) :
        /\ DOMAIN Keys(d, t, c) = {Rows(d, t)[id][c] : id \in DOMAIN Rows(d, t)}
        /\ \A id \in DOMAIN Rows(d, t) : Keys(d, t, c)[Rows(d, t)[id][c]] = id

\* SELECT, UPDATE and DELETE meet the same rows through an index as without
\* it, though the index gets its bounds from parse_literal_for_column and each
\* row is tested with those of resolve_operand.  (Not so where the read throws,
\* and where the upper bound of BETWEEN is a column.)
IndexIsTransparent ==
    Serving => \A d \in Databases, t \in Tables : HasTable(d, t) => \A w \in Wheres :
        Probes(d, t, w) /\ Readable(d, t, w) /\ w.right2.is # "column" =>
            ProbeIds(d, t, w) = ScanIds(d, t, w)

\* value_exists_in_column asks the index as "a fast path of the check"
\* (storage/src/table.cpp:73) for the scan below it: the answers are the same.
FastPathAgrees ==
    Serving => \A d \in Databases, t \in Tables : HasTable(d, t) => \A c \in IndexedColumns(Schema(d, t)) :
        \A v \in Values :
            Taken(d, t, c, v, None) <=> \E id \in DOMAIN Rows(d, t) : Rows(d, t)[id][c] = v

-----------------------------------------------------------------------------
(* Memory and disk.                                                         *)

\* While a command runs, a crash finds each table as the last command that
\* was answered "ok" (or the last load) left it, or as memory has it now:
\* never in between, and never gone while both have it.
FilesOldOrNew ==
    phase = "up" => \A d \in Databases, t \in Tables :
        LET old == d \in DOMAIN committed /\ t \in DOMAIN committed[d] IN
        /\ HasFile(d, t) => \/ old /\ files[d].dat[t] = committed[d][t]
                            \/ HasTable(d, t) /\ files[d].dat[t] = Image(dbs[d][t])
        /\ ~HasFile(d, t) => ~old \/ ~HasTable(d, t)

\* The active database is loaded: active_db() never throws for a database that
\* was dropped after USE (Dbms::drop_database).
ActiveIsLoaded == active # None => active \in DOMAIN dbs

\* The constructor fails only over an INDEXED column, of a table with rows or
\* of one whose index file a kill left without its first page: other data is
\* always restored (attach_indexes_for_loaded_data).
FailsOnlyOnIndexedRows ==
    phase = "failed" => \E d \in Databases, t \in Tables, c \in Columns :
        /\ HasFile(d, t)
        /\ files[d].dat[t].schema[c].indexed
        /\ \/ files[d].dat[t].rows # <<>>
           \/ <<t, c>> \in DOMAIN files[d].idx /\ IndexFile(d, t, c) = Torn

\* storage/src/dbms.cpp:74: the databases are restored when the server starts.
ServerStarts == phase # "failed"

-----------------------------------------------------------------------------
(* What the engine implements.                                              *)

LegalRows(schema, rows) ==
    /\ \A id \in DOMAIN rows : Fits(schema, rows[id])
    /\ \A c \in IndexedColumns(schema) : \A i, j \in DOMAIN rows :
           rows[i][c] = rows[j][c] => i = j

MemoryStore ==
    [n \in {n \in Databases \X Tables : HasTable(n[1], n[2])} |-> [schema |-> Schema(n[1], n[2]), rows |-> Rows(n[1], n[2])]]

SavedStore ==
    [n \in {n \in Databases \X Tables : HasFile(n[1], n[2])} |->
        [schema |-> files[n[1]].dat[n[2]].schema, rows |-> files[n[1]].dat[n[2]].rows]]

Store == INSTANCE TableStore WITH
    Names  <- Databases \X Tables,
    RowIds <- RowIds,
    Legal  <- LegalRows,
    up     <- phase = "up",
    store  <- MemoryStore,
    saved  <- SavedStore

\* Memory changes row by row within what the schema allows, index or not;
\* disk changes table by table to what memory holds; a start restores it.
ImplementsStore == Store!Spec

\* A crash may leave keys in an index that no saved row has, and two rows may
\* then get one value; with crashes the schema is all that restrains the rows.
TypedRows(schema, rows) == \A id \in DOMAIN rows : Fits(schema, rows[id])

TypedStore == INSTANCE TableStore WITH
    Names  <- Databases \X Tables,
    RowIds <- RowIds,
    Legal  <- TypedRows,
    up     <- phase = "up",
    store  <- MemoryStore,
    saved  <- SavedStore

\* The same with crashes and index files that no longer fit their tables:
\* whatever a command was doing, a start restores what was last saved.
ImplementsTypedStore == TypedStore!Spec

\* The steps of the command in progress.
Step ==
    \/ RemoveFile \/ RemoveDirectory
    \/ CreateIndexFile \/ WriteFirstPage \/ OpenIndex \/ OpenThrows
    \/ RebuildRow \/ RebuildThrows \/ TableCreated \/ Serve
    \/ InsertRow \/ InsertRejected \/ IndexRow \/ IndexThrows \/ RowsInserted
    \/ MeetRow \/ UpdatePlain \/ UpdateErasesKey \/ UpdateInsertsKey
    \/ UpdateThrows \/ UpdateRejected \/ RowsUpdated
    \/ DeleteKey \/ DeleteRow \/ EraseThrows \/ RowsDeleted
    \/ Saves

\* execute() runs on: it waits for nothing once it has the mutex.
FairSpec == Spec /\ WF_vars(Step)

\* execute() returns, and frees the mutex every other query waits for: none of
\* its loops over rows, keys, files and databases is endless or stuck.
EveryCommandAnswered == (cmd.pc # "idle") ~> (cmd.pc = "idle")

=============================================================================

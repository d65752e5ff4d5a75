------------------------- MODULE StorageEngineProofs -------------------------
(***************************************************************************)
(* Every step of CrashSpec keeps the invariant of StorageEngineInvariant,  *)
(* one lemma per action, and what follows for every behaviour.             *)
(***************************************************************************)
EXTENDS StorageEngineInvariant

-----------------------------------------------------------------------------
(* Steps that end a command, and those that begin its save_all.             *)

LEMMA FinishStep ==
    ASSUME IInv, phase = "up", cmd.pc \notin {"remove", "save"},
           NEW answer \in Answers, Finish(answer),
           active' = active \/ active' \in DOMAIN dbs, UNCHANGED <<phase, dbs, files, committed>>
    PROVE  IInv'
<1>1. CommandOK' /\ cmd'.pc = "idle" /\ reply' \in Answers
  BY FinishOK
<1>2. SameFiles /\ DiskOK'
  BY DEF SameFiles, IInv, DiskOK
<1> QED BY <1>1, <1>2, QuietStep

LEMMA SaveStep ==
    ASSUME IInv, phase = "up", cmd.pc \notin {"remove", "save"},
           Continue(Saving(DOMAIN dbs)), UNCHANGED <<phase, dbs, active, files, committed>>
    PROVE  IInv'
<1>1. cmd' = Saving(DOMAIN dbs) /\ reply' = reply /\ reply \in Answers
  BY DEF Continue, IInv, ProcessOK, Answers
<1>2. CommandOK' /\ cmd'.pc = "save"
  BY <1>1, SavingOK
<1>3. SameFiles /\ DiskOK'
  BY DEF SameFiles, IInv, DiskOK
<1> QED BY <1>1, <1>2, <1>3, QuietStep

\* A command begins only while none is in progress.
LEMMA ServingUp == Serving => phase = "up" /\ cmd.pc = "idle" /\ cmd = Idle
BY DEF Serving, Idle

LEMMA RefuseStep == ASSUME IInv, Refuse PROVE IInv'
BY ServingUp, FinishStep DEF Refuse, Answers

LEMMA UseDatabaseStep == ASSUME IInv, NEW d, UseDatabase(d) PROVE IInv'
BY ServingUp, FinishStep DEF UseDatabase, Answers

LEMMA SelectStep == ASSUME IInv, NEW x, NEW t, NEW w, Select(x, t, w) PROVE IInv'
BY ServingUp, FinishStep DEF Select, Answers

LEMMA ReadThrowsStep == ASSUME IInv, NEW x, NEW t, NEW w, ReadThrows(x, t, w) PROVE IInv'
BY ServingUp, FinishStep DEF ReadThrows, Answers

LEMMA ServeStep == ASSUME IInv, Serve PROVE IInv'
BY Busy, FinishStep DEF Serve, Answers

LEMMA InsertRejectedStep == ASSUME IInv, InsertRejected PROVE IInv'
BY Busy, FinishStep DEF InsertRejected, Answers

LEMMA UpdateRejectedStep == ASSUME IInv, UpdateRejected PROVE IInv'
BY Busy, FinishStep DEF UpdateRejected, Answers

LEMMA EraseThrowsStep == ASSUME IInv, EraseThrows PROVE IInv'
BY Busy, FinishStep DEF EraseThrows, Answers

LEMMA TableCreatedStep == ASSUME IInv, TableCreated PROVE IInv'
BY Busy, SaveStep DEF TableCreated

LEMMA RowsInsertedStep == ASSUME IInv, RowsInserted PROVE IInv'
BY Busy, SaveStep DEF RowsInserted

LEMMA RowsUpdatedStep == ASSUME IInv, RowsUpdated PROVE IInv'
BY Busy, SaveStep DEF RowsUpdated

LEMMA RowsDeletedStep == ASSUME IInv, RowsDeleted PROVE IInv'
BY Busy, SaveStep DEF RowsDeleted

-----------------------------------------------------------------------------
(* INSERT.                                                                  *)

LEMMA InsertRowStep ==
    ASSUME IInv, InsertRow
    PROVE  IInv'
<1> DEFINE d == cmd.db
           t == cmd.table
           table == dbs[d][t]
           row == RowOf(table.schema, Head(cmd.rows))
           new == [schema |-> table.schema, rows |-> With(table.rows, table.nextId, row),
                   order |-> Append(table.order, table.nextId), nextId |-> table.nextId + 1,
                   indexes |-> table.indexes]
<1>1. /\ cmd.pc = "insert" /\ cmd.cols = {} /\ cmd.rows # <<>>
      /\ Valid(d, t, row, None) /\ SetTable(d, t, new)
      /\ cmd' = [cmd EXCEPT !.rows = Tail(@), !.id = table.nextId, !.cols = table.indexes]
      /\ UNCHANGED <<phase, active, files, committed, reply>>
  BY DEF InsertRow, Continue
<1>2. InsertCommand /\ phase = "up" /\ reply \in Answers
  BY <1>1, Busy DEF IInv, CommandOK
<1>3. /\ d \in DOMAIN dbs /\ t \in DOMAIN dbs[d] /\ SoundTable(table)
      /\ d \in DOMAIN files /\ \A c \in table.indexes : <<t, c>> \in DOMAIN files[d].idx
      /\ table.indexes \subseteq Columns
  BY <1>2, TableAtHand DEF InsertCommand, Attached
<1>4. /\ Head(cmd.rows) \in [byColumns : BOOLEAN, given : Given]
      /\ Tail(cmd.rows) \in Seq([byColumns : BOOLEAN, given : Given])
      /\ Len(Tail(cmd.rows)) = Len(cmd.rows) - 1 /\ Len(cmd.rows) \in Nat \ {0}
  BY <1>1, <1>2, HeadTailProperties, EmptySeq DEF InsertCommand
<1>5. table.schema \in Schemas /\ table.nextId \in 1..(MaxRowId + 1)
  BY <1>3 DEF SoundTable, IsTable, IsImage
<1>6. row \in Row /\ Fits(table.schema, row)
  BY <1>1, <1>4, <1>5, RowOfType DEF Valid, Schema
<1>7. table.nextId <= MaxRowId /\ table.nextId + 1 + Len(Tail(cmd.rows)) <= MaxRowId + 1
      /\ table.nextId \in RowIds
  BY <1>2, <1>4, <1>5, BoundsAssumption DEF InsertCommand, RowIds
<1> HIDE DEF row
<1>8. SoundTable(new)
  BY <1>3, <1>6, <1>7, InsertedTable
<1>9. new.indexes = table.indexes /\ new.nextId = table.nextId + 1 /\ table.nextId \in DOMAIN new.rows
  BY DEF With
<1> HIDE DEF new
<1>10. DOMAIN dbs' = DOMAIN dbs /\ DOMAIN dbs'[d] = DOMAIN dbs[d] /\ dbs'[d][t] = new
  BY <1>1, <1>3, <1>8, SetTableEffect DEF IInv
<1>11. CommandOK' /\ cmd'.pc = "insert"
  <2> HIDE DEF table
  <2>1. /\ cmd' \in [pc : {"insert"}, db : Databases, table : Tables,
                     rows : Seq([byColumns : BOOLEAN, given : Given]),
                     id : RowIds \cup {None}, cols : SUBSET Columns]
        /\ cmd'.pc = "insert" /\ cmd'.db = d /\ cmd'.table = t /\ cmd'.rows = Tail(cmd.rows)
        /\ cmd'.id = table.nextId /\ cmd'.cols = table.indexes
    BY <1>1, <1>2, <1>3, <1>4, <1>7 DEF InsertCommand
  <2> HIDE DEF d, t
  <2>2. InsertCommand'
    BY <1>3, <1>7, <1>9, <1>10, <2>1 DEF InsertCommand, HasTable, Attached, Rows
  <2> QED BY <2>1, <2>2 DEF CommandOK
<1>12. SameFiles /\ DiskOK'
  BY <1>1 DEF SameFiles, IInv, DiskOK
<1> HIDE DEF d, t, table
<1> QED BY <1>1, <1>2, <1>3, <1>8, <1>9, <1>11, <1>12, TableStep

LEMMA BeginInsertStep ==
    ASSUME IInv, NEW x, NEW t, NEW rows \in RowLists, BeginInsert(x, t, rows)
    PROVE  IInv'
<1> DEFINE d == Resolved(x)
<1>1. /\ HasTable(d, t) /\ dbs[d][t].nextId + Len(rows) <= MaxRowId + 1
      /\ cmd' = [pc |-> "insert", db |-> d, table |-> t, rows |-> rows, id |-> None, cols |-> {}]
      /\ phase = "up" /\ cmd.pc = "idle" /\ UNCHANGED <<phase, dbs, active, files, committed, reply>>
  BY ServingUp DEF BeginInsert, Continue
<1>2. d \in Databases /\ t \in Tables
  BY <1>1, TableAtHand
<1>3. rows \in Seq([byColumns : BOOLEAN, given : Given])
  BY CommandsAssumption
<1> HIDE DEF d
<1>4. /\ cmd' \in [pc : {"insert"}, db : Databases, table : Tables,
                   rows : Seq([byColumns : BOOLEAN, given : Given]),
                   id : RowIds \cup {None}, cols : SUBSET Columns]
      /\ cmd'.pc = "insert" /\ cmd'.db = d /\ cmd'.table = t /\ cmd'.rows = rows /\ cmd'.cols = {}
  BY <1>1, <1>2, <1>3
<1>5. CommandOK'
  BY <1>1, <1>4 DEF CommandOK, InsertCommand, HasTable
<1>6. SameFiles /\ DiskOK' /\ reply' \in Answers
  BY <1>1 DEF SameFiles, IInv, DiskOK, ProcessOK, Answers
<1> QED BY <1>1, <1>4, <1>5, <1>6, QuietStep

\* What the two steps of a row's keys need to know of the row.
LEMMA RowBeingIndexed ==
    ASSUME IInv, cmd.pc = "insert", NEW c \in cmd.cols
    PROVE  /\ InsertCommand /\ phase = "up" /\ reply \in Answers
           /\ cmd.db \in DOMAIN files /\ <<cmd.table, c>> \in DOMAIN files[cmd.db].idx
           /\ Rows(cmd.db, cmd.table)[cmd.id] \in Row /\ c \in Columns /\ cmd.id \in RowIds
<1>1. InsertCommand /\ phase = "up" /\ reply \in Answers
  BY Busy DEF IInv, CommandOK
<1>2. /\ cmd.id \in DOMAIN Rows(cmd.db, cmd.table) /\ c \in Attached(cmd.db, cmd.table)
      /\ HasTable(cmd.db, cmd.table)
  BY <1>1 DEF InsertCommand
<1>3. /\ cmd.db \in DOMAIN files /\ <<cmd.table, c>> \in DOMAIN files[cmd.db].idx /\ c \in Columns
      /\ SoundTable(dbs[cmd.db][cmd.table])
  BY <1>1, <1>2, TableAtHand
<1>4. Rows(cmd.db, cmd.table)[cmd.id] \in Row /\ cmd.id \in RowIds
  BY <1>2, <1>3 DEF SoundTable, IsTable, IsImage, Rows
<1> QED BY <1>1, <1>3, <1>4

LEMMA IndexRowStep == ASSUME IInv, IndexRow PROVE IInv'
<1>1. PICK c \in cmd.cols :
        LET v == Rows(cmd.db, cmd.table)[cmd.id][c] IN
        /\ Insertable(cmd.db, cmd.table, c, v)
        /\ SetKeys(cmd.db, cmd.table, c, With(Keys(cmd.db, cmd.table, c), v, cmd.id))
        /\ Continue([cmd EXCEPT !.cols = @ \ {c}])
  BY DEF IndexRow
<1> DEFINE v == Rows(cmd.db, cmd.table)[cmd.id][c]
           keys == With(Keys(cmd.db, cmd.table, c), v, cmd.id)
<1>2. cmd.pc = "insert" /\ UNCHANGED <<phase, dbs, active, committed>>
  BY DEF IndexRow
<1>3. /\ InsertCommand /\ phase = "up" /\ reply \in Answers
      /\ cmd.db \in DOMAIN files /\ <<cmd.table, c>> \in DOMAIN files[cmd.db].idx /\ cmd.id \in RowIds
  BY <1>2, RowBeingIndexed
<1>4. v \in Values
  BY <1>1, KindAssumption DEF Insertable
<1>5. SoundKeys(keys)
  BY <1>3, <1>4, KeysSound, KeysAfterInsertSound DEF IInv
<1> HIDE DEF v, keys
<1>6. DiskOK' /\ SameFiles
  BY <1>1, <1>3, <1>5, SetKeysEffect DEF IInv, v, keys
<1>7. cmd' = [cmd EXCEPT !.cols = cmd.cols \ {c}] /\ reply' = reply
  BY <1>1 DEF Continue
<1>8. CommandOK' /\ cmd'.pc = "insert"
  <2>1. /\ cmd' \in [pc : {"insert"}, db : Databases, table : Tables,
                     rows : Seq([byColumns : BOOLEAN, given : Given]),
                     id : RowIds \cup {None}, cols : SUBSET Columns]
        /\ cmd'.pc = "insert" /\ cmd'.db = cmd.db /\ cmd'.table = cmd.table /\ cmd'.rows = cmd.rows
        /\ cmd'.id = cmd.id /\ cmd'.cols = cmd.cols \ {c}
    BY <1>3, <1>7 DEF InsertCommand
  <2>2. InsertCommand'
    BY <1>2, <1>3, <2>1 DEF InsertCommand, HasTable, Attached, Rows
  <2> QED BY <2>1, <2>2 DEF CommandOK
<1> QED BY <1>2, <1>3, <1>6, <1>7, <1>8, QuietStep

\* A command that ends with an exception of an index.
LEMMA ThrowStep ==
    ASSUME IInv, phase = "up", cmd.pc \notin {"remove", "save"},
           NEW d \in DOMAIN files, NEW t, NEW c, <<t, c>> \in DOMAIN files[d].idx,
           NEW v, \E keys \in KeysAfterThrow(d, t, c, v) : SetKeys(d, t, c, keys),
           Finish("error"), UNCHANGED <<phase, dbs, active, committed>>
    PROVE  IInv'
<1>1. PICK keys \in KeysAfterThrow(d, t, c, v) : SetKeys(d, t, c, keys)
  OBVIOUS
<1>2. SoundKeys(keys)
  BY KeysAfterThrowSound DEF IInv
<1>3. DiskOK' /\ SameFiles
  BY <1>1, <1>2, SetKeysEffect DEF IInv
<1>4. CommandOK' /\ cmd'.pc = "idle" /\ reply' \in Answers
  BY FinishOK DEF Answers
<1> QED BY <1>3, <1>4, QuietStep

LEMMA IndexThrowsStep == ASSUME IInv, IndexThrows PROVE IInv'
<1>1. PICK c \in cmd.cols :
         LET v == Rows(cmd.db, cmd.table)[cmd.id][c] IN
         \E keys \in KeysAfterThrow(cmd.db, cmd.table, c, v) : SetKeys(cmd.db, cmd.table, c, keys)
  BY DEF IndexThrows
<1>2. cmd.pc = "insert" /\ Finish("error") /\ UNCHANGED <<phase, dbs, active, committed>>
  BY DEF IndexThrows
<1>3. phase = "up" /\ cmd.db \in DOMAIN files /\ <<cmd.table, c>> \in DOMAIN files[cmd.db].idx
  BY <1>2, RowBeingIndexed
<1> QED BY <1>1, <1>2, <1>3, ThrowStep

-----------------------------------------------------------------------------
(* UPDATE.                                                                  *)

\* The rows a command may meet: the table's, or those an index names.
LEMMA CandidatesAreIds ==
    ASSUME IInv, phase = "up", NEW d, NEW t, HasTable(d, t), NEW w
    PROVE  Candidates(d, t, w) \in Seq(RowIds)
<1>1. /\ d \in DOMAIN files /\ SoundTable(dbs[d][t])
      /\ \A c \in Attached(d, t) : <<t, c>> \in DOMAIN files[d].idx
  BY TableAtHand
<1>2. CASE ~Probes(d, t, w)
  BY <1>1, <1>2 DEF Candidates, SoundTable, IsTable, IsImage
<1>3. CASE Probes(d, t, w)
  <2> DEFINE c == w.left.name
             found == FoundKeys(d, t, w)
             keys == Sorted(found)
  <2>1. SoundKeys(Keys(d, t, c))
    BY <1>1, <1>3, KeysSound DEF Probes, IInv
  <2>2. found \subseteq DOMAIN Keys(d, t, c)
    BY DEF FoundKeys
  <2>3. IsFiniteSet(found) /\ found \in SUBSET Int
    BY <2>1, <2>2, FS_Subset, KindAssumption DEF SoundKeys
  <2> HIDE DEF found
  <2>4. Cardinality(found) \in Nat /\ keys \in [1..Cardinality(found) -> found] /\ Len(keys) = Cardinality(found)
    BY <2>3, SortedProperties
  <2> HIDE DEF keys
  <2>5. \A i \in 1..Len(keys) : Keys(d, t, c)[keys[i]] \in RowIds
    BY <2>1, <2>2, <2>4 DEF SoundKeys
  <2> DEFINE ids == [i \in 1..Len(keys) |-> Keys(d, t, c)[keys[i]]]
  <2>6. ids \in [1..Len(keys) -> RowIds]
    BY <2>5
  <2>7. ids \in Seq(RowIds)
    BY <2>4, <2>6, SeqDef
  <2> QED BY <1>3, <2>7 DEF Candidates, keys, found
<1> QED BY <1>2, <1>3

UpdateCommands ==
    [pc : {"update"}, db : Databases, table : Tables, where : Wheres, sets : SetLists, ids : Seq(RowIds),
     id : RowIds \cup {None}, todo : Seq([col : Columns, val : Values \cup {Null}]), erased : BOOLEAN]

LEMMA BeginUpdateStep ==
    ASSUME IInv, NEW x, NEW t, NEW w \in Wheres, NEW sets \in SetLists, BeginUpdate(x, t, w, sets)
    PROVE  IInv'
<1> DEFINE d == Resolved(x)
           ids == Candidates(d, t, w)
<1>1. /\ HasTable(d, t)
      /\ cmd' = [pc |-> "update", db |-> d, table |-> t, where |-> w, sets |-> sets,
                 ids |-> ids, id |-> None, todo |-> <<>>, erased |-> FALSE]
      /\ phase = "up" /\ cmd.pc = "idle" /\ UNCHANGED <<phase, dbs, active, files, committed, reply>>
  BY ServingUp DEF BeginUpdate, Continue
<1>2. d \in Databases /\ t \in Tables /\ ids \in Seq(RowIds)
  BY <1>1, TableAtHand, CandidatesAreIds
<1> HIDE DEF d, ids
<1>3. /\ cmd' \in UpdateCommands
      /\ cmd'.pc = "update" /\ cmd'.db = d /\ cmd'.table = t /\ cmd'.todo = <<>> /\ cmd'.erased = FALSE
  BY <1>1, <1>2 DEF UpdateCommands
<1>4. CommandOK'
  BY <1>1, <1>3 DEF CommandOK, UpdateCommand, UpdateCommands, HasTable
<1>5. SameFiles /\ DiskOK' /\ reply' \in Answers
  BY <1>1 DEF SameFiles, IInv, DiskOK, ProcessOK, Answers
<1> QED BY <1>1, <1>3, <1>4, <1>5, QuietStep

\* The table of an UPDATE in progress.
LEMMA Updating ==
    ASSUME IInv, cmd.pc = "update"
    PROVE  /\ UpdateCommand /\ cmd \in UpdateCommands /\ phase = "up" /\ reply \in Answers
           /\ cmd.db \in DOMAIN files /\ cmd.db \in DOMAIN dbs /\ cmd.table \in DOMAIN dbs[cmd.db]
           /\ SoundTable(dbs[cmd.db][cmd.table])
           /\ \A c \in Attached(cmd.db, cmd.table) : <<cmd.table, c>> \in DOMAIN files[cmd.db].idx
<1>1. UpdateCommand /\ phase = "up" /\ reply \in Answers
  BY Busy DEF IInv, CommandOK
<1>2. cmd \in UpdateCommands /\ HasTable(cmd.db, cmd.table)
  BY <1>1 DEF UpdateCommand, UpdateCommands
<1> QED BY <1>1, <1>2, TableAtHand

LEMMA MeetRowStep == ASSUME IInv, MeetRow PROVE IInv'
<1> DEFINE id == Head(cmd.ids)
           todo == IF id \in ScanIds(cmd.db, cmd.table, cmd.where) THEN cmd.sets ELSE <<>>
<1>1. /\ cmd.pc = "update" /\ cmd.todo = <<>> /\ cmd.ids # <<>>
      /\ cmd' = [cmd EXCEPT !.ids = Tail(cmd.ids), !.id = id, !.todo = todo]
      /\ UNCHANGED <<phase, dbs, active, files, committed, reply>>
  BY DEF MeetRow, Continue
<1>2. UpdateCommand /\ cmd \in UpdateCommands /\ phase = "up" /\ reply \in Answers
  BY <1>1, Updating
<1>3. cmd.ids \in Seq(RowIds) /\ cmd.sets \in SetLists
  BY <1>2 DEF UpdateCommands
<1>4. id \in RowIds /\ Tail(cmd.ids) \in Seq(RowIds)
  BY <1>1, <1>3, HeadTailProperties
<1>5. todo \in Seq([col : Columns, val : Values \cup {Null}])
  <2>1. cmd.sets \in Seq([col : Columns, val : Values \cup {Null}])
    BY <1>3, CommandsAssumption
  <2> QED BY <2>1, EmptySeq
<1>6. todo # <<>> => id \in DOMAIN Rows(cmd.db, cmd.table)
  BY DEF ScanIds
<1>7. ~cmd.erased
  BY <1>1, <1>2 DEF UpdateCommand
<1> HIDE DEF id, todo
<1>8. /\ cmd' \in UpdateCommands
      /\ cmd'.pc = "update" /\ cmd'.db = cmd.db /\ cmd'.table = cmd.table
      /\ cmd'.id = id /\ cmd'.todo = todo /\ cmd'.erased = cmd.erased
  BY <1>1, <1>2, <1>4, <1>5 DEF UpdateCommands
<1>9. UpdateCommand'
  BY <1>1, <1>2, <1>6, <1>7, <1>8 DEF UpdateCommand, UpdateCommands, HasTable, Rows
<1>10. CommandOK'
  BY <1>8, <1>9 DEF CommandOK
<1>11. SameFiles /\ DiskOK'
  BY <1>1 DEF SameFiles, IInv, DiskOK
<1> QED BY <1>1, <1>2, <1>8, <1>10, <1>11, QuietStep

\* The assignment at hand.
LEMMA Assignment ==
    ASSUME IInv, cmd.pc = "update", cmd.todo # <<>>
    PROVE  /\ Head(cmd.todo) \in [col : Columns, val : Values \cup {Null}]
           /\ Tail(cmd.todo) \in Seq([col : Columns, val : Values \cup {Null}])
           /\ cmd.id \in DOMAIN Rows(cmd.db, cmd.table) /\ cmd.id \in RowIds
           /\ Updated(Head(cmd.todo)) \in Row
<1>1. UpdateCommand /\ cmd.todo \in Seq([col : Columns, val : Values \cup {Null}])
  BY Updating DEF UpdateCommands
<1>2. /\ Head(cmd.todo) \in [col : Columns, val : Values \cup {Null}]
      /\ Tail(cmd.todo) \in Seq([col : Columns, val : Values \cup {Null}])
  BY <1>1, HeadTailProperties
<1>3. cmd.id \in DOMAIN Rows(cmd.db, cmd.table)
  BY <1>1 DEF UpdateCommand
<1>4. Rows(cmd.db, cmd.table)[cmd.id] \in Row /\ cmd.id \in RowIds
  BY <1>3, Updating DEF SoundTable, IsTable, IsImage, Rows
<1>5. Updated(Head(cmd.todo)) \in Row
  BY <1>2, <1>4 DEF Updated, Row
<1> QED BY <1>2, <1>3, <1>4, <1>5

\* A row takes its new value: the table stays sound, and the loop goes on.
LEMMA StoreStep ==
    ASSUME IInv, cmd.pc = "update", cmd.todo # <<>>,
           Fits(Schema(cmd.db, cmd.table), Updated(Head(cmd.todo))),
           StoreUpdated(Head(cmd.todo)), SameFiles, DiskOK',
           cmd' = [cmd EXCEPT !.todo = Tail(cmd.todo), !.erased = FALSE],
           UNCHANGED <<phase, active, reply, committed>>
    PROVE  IInv'
<1> DEFINE table == dbs[cmd.db][cmd.table]
           row == Updated(Head(cmd.todo))
           new == [table EXCEPT !.rows[cmd.id] = row]
<1>1. /\ UpdateCommand /\ cmd \in UpdateCommands /\ phase = "up" /\ reply \in Answers
      /\ cmd.db \in DOMAIN dbs /\ cmd.table \in DOMAIN dbs[cmd.db]
      /\ SoundTable(table)
      /\ \A c \in Attached(cmd.db, cmd.table) : <<cmd.table, c>> \in DOMAIN files[cmd.db].idx
  BY Updating
<1>2. /\ cmd.id \in DOMAIN table.rows /\ row \in Row
      /\ Tail(cmd.todo) \in Seq([col : Columns, val : Values \cup {Null}])
  BY Assignment DEF Rows
<1>3. Fits(table.schema, row)
  BY DEF Schema
<1>4. SetTable(cmd.db, cmd.table, new)
  BY DEF StoreUpdated
<1> HIDE DEF row, table
<1>5. /\ SoundTable(new) /\ new.indexes = table.indexes
      /\ DOMAIN new.rows = DOMAIN table.rows
  BY <1>1, <1>2, <1>3, UpdatedTable
<1> HIDE DEF new
<1>6. DOMAIN dbs' = DOMAIN dbs /\ DOMAIN dbs'[cmd.db] = DOMAIN dbs[cmd.db] /\ dbs'[cmd.db][cmd.table] = new
  BY <1>1, <1>4, <1>5, SetTableEffect DEF IInv
<1>7. /\ cmd' \in UpdateCommands
      /\ cmd'.pc = "update" /\ cmd'.db = cmd.db /\ cmd'.table = cmd.table
      /\ cmd'.id = cmd.id /\ cmd'.todo = Tail(cmd.todo) /\ cmd'.erased = FALSE
  BY <1>1, <1>2 DEF UpdateCommands
<1>8. UpdateCommand'
  BY <1>1, <1>2, <1>5, <1>6, <1>7 DEF UpdateCommand, UpdateCommands, HasTable, Rows, table
<1>9. CommandOK'
  BY <1>7, <1>8 DEF CommandOK
<1>10. \A c \in new.indexes : <<cmd.table, c>> \in DOMAIN files[cmd.db].idx
  BY <1>1, <1>5 DEF Attached, table
<1> QED BY <1>1, <1>4, <1>5, <1>7, <1>9, <1>10, TableStep

LEMMA UpdatePlainStep == ASSUME IInv, UpdatePlain PROVE IInv'
<1>1. /\ cmd.pc = "update" /\ cmd.todo # <<>>
      /\ Fits(Schema(cmd.db, cmd.table), Updated(Head(cmd.todo)))
      /\ Head(cmd.todo).col \notin Attached(cmd.db, cmd.table)
      /\ StoreUpdated(Head(cmd.todo))
      /\ cmd' = [cmd EXCEPT !.todo = Tail(cmd.todo)]
      /\ UNCHANGED <<phase, active, files, committed, reply>>
  BY DEF UpdatePlain, Valid, Continue
<1>2. cmd \in UpdateCommands /\ cmd.erased = FALSE
  BY <1>1, Updating DEF UpdateCommand, UpdateCommands
<1>3. cmd' = [cmd EXCEPT !.todo = Tail(cmd.todo), !.erased = FALSE]
  BY <1>1, <1>2 DEF UpdateCommands
<1>4. SameFiles /\ DiskOK'
  BY <1>1 DEF SameFiles, IInv, DiskOK
<1> QED BY <1>1, <1>3, <1>4, StoreStep

LEMMA UpdateErasesKeyStep == ASSUME IInv, UpdateErasesKey PROVE IInv'
<1> DEFINE a == Head(cmd.todo)
           keys == KeysAfterErase(cmd.db, cmd.table, a.col, Rows(cmd.db, cmd.table)[cmd.id][a.col])
<1>1. /\ cmd.pc = "update" /\ cmd.todo # <<>>
      /\ Fits(Schema(cmd.db, cmd.table), Updated(a))
      /\ a.col \in Attached(cmd.db, cmd.table)
      /\ SetKeys(cmd.db, cmd.table, a.col, keys)
      /\ cmd' = [cmd EXCEPT !.erased = TRUE]
      /\ UNCHANGED <<phase, dbs, active, committed, reply>>
  BY DEF UpdateErasesKey, Valid, Continue
<1>2. /\ UpdateCommand /\ cmd \in UpdateCommands /\ phase = "up" /\ reply \in Answers
      /\ cmd.db \in DOMAIN files
      /\ <<cmd.table, a.col>> \in DOMAIN files[cmd.db].idx
  BY <1>1, Updating
<1>3. SoundKeys(keys)
  BY <1>2, KeysAfterEraseSound DEF IInv
<1> HIDE DEF keys
<1>4. DiskOK' /\ SameFiles
  BY <1>1, <1>2, <1>3, SetKeysEffect DEF IInv
<1>5. /\ cmd' \in UpdateCommands
      /\ cmd'.pc = "update" /\ cmd'.db = cmd.db /\ cmd'.table = cmd.table
      /\ cmd'.id = cmd.id /\ cmd'.todo = cmd.todo /\ cmd'.erased = TRUE
  BY <1>1, <1>2 DEF UpdateCommands
<1>6. UpdateCommand'
  BY <1>1, <1>2, <1>5 DEF UpdateCommand, UpdateCommands, HasTable, Rows, Schema, Attached, Updated
<1>7. CommandOK'
  BY <1>5, <1>6 DEF CommandOK
<1> QED BY <1>1, <1>2, <1>4, <1>5, <1>7, QuietStep

LEMMA UpdateInsertsKeyStep == ASSUME IInv, UpdateInsertsKey PROVE IInv'
<1> DEFINE a == Head(cmd.todo)
           keys == With(Keys(cmd.db, cmd.table, a.col), a.val, cmd.id)
<1>1. /\ cmd.pc = "update" /\ cmd.erased
      /\ Insertable(cmd.db, cmd.table, a.col, a.val)
      /\ SetKeys(cmd.db, cmd.table, a.col, keys)
      /\ StoreUpdated(a)
      /\ cmd' = [cmd EXCEPT !.todo = Tail(cmd.todo), !.erased = FALSE]
      /\ UNCHANGED <<phase, active, committed, reply>>
  BY DEF UpdateInsertsKey, Continue
<1>2. /\ cmd.todo # <<>> /\ Fits(Schema(cmd.db, cmd.table), Updated(a))
      /\ cmd.db \in DOMAIN files /\ <<cmd.table, a.col>> \in DOMAIN files[cmd.db].idx
  BY <1>1, Updating DEF UpdateCommand
<1>3. a.val \in Values /\ cmd.id \in RowIds
  BY <1>1, <1>2, Assignment, KindAssumption DEF Insertable
<1>4. SoundKeys(keys)
  BY <1>2, <1>3, KeysSound, KeysAfterInsertSound DEF IInv
<1> HIDE DEF keys
<1>5. DiskOK' /\ SameFiles
  BY <1>1, <1>2, <1>4, SetKeysEffect DEF IInv
<1> QED BY <1>1, <1>2, <1>5, StoreStep

LEMMA UpdateThrowsStep == ASSUME IInv, UpdateThrows PROVE IInv'
<1> DEFINE a == Head(cmd.todo)
<1>1. /\ cmd.pc = "update" /\ cmd.erased
      /\ \E keys \in KeysAfterThrow(cmd.db, cmd.table, a.col, a.val) : SetKeys(cmd.db, cmd.table, a.col, keys)
      /\ Finish("error") /\ UNCHANGED <<phase, dbs, active, committed>>
  BY DEF UpdateThrows
<1>2. phase = "up" /\ cmd.db \in DOMAIN files /\ <<cmd.table, a.col>> \in DOMAIN files[cmd.db].idx
  BY <1>1, Updating DEF UpdateCommand
<1> QED BY <1>1, <1>2, ThrowStep

-----------------------------------------------------------------------------
(* DELETE.                                                                  *)

DeleteCommands == [pc : {"delete"}, db : Databases, table : Tables, ids : Seq(RowIds), cols : SUBSET Columns]

LEMMA BeginDeleteStep ==
    ASSUME IInv, NEW x, NEW t, NEW w, BeginDelete(x, t, w)
    PROVE  IInv'
<1> DEFINE d == Resolved(x)
           S == ScanIds(d, t, w)
           ids == Selected(Candidates(d, t, w), S)
           cols == Attached(d, t)
<1>1. /\ HasTable(d, t)
      /\ cmd' = [pc |-> "delete", db |-> d, table |-> t, cols |-> cols, ids |-> ids]
      /\ phase = "up" /\ cmd.pc = "idle" /\ UNCHANGED <<phase, dbs, active, files, committed, reply>>
  BY ServingUp DEF BeginDelete, Continue
<1>2. /\ d \in Databases /\ t \in Tables /\ Candidates(d, t, w) \in Seq(RowIds)
      /\ cols \subseteq Columns
  BY <1>1, TableAtHand, CandidatesAreIds
<1>3. ids \in Seq(RowIds)
  <2> HIDE DEF S
  <2>1. ids \in Seq(RowIds \cap S)
    BY <1>2, SelectedProperties
  <2> HIDE DEF ids
  <2>2. RowIds \cap S \subseteq RowIds
    OBVIOUS
  <2> QED BY <2>1, <2>2, SeqMonotonic
<1> HIDE DEF d, ids
<1>4. /\ cmd' \in DeleteCommands
      /\ cmd'.pc = "delete" /\ cmd'.db = d /\ cmd'.table = t /\ cmd'.cols = cols
  BY <1>1, <1>2, <1>3 DEF DeleteCommands
<1>5. CommandOK'
  BY <1>1, <1>4 DEF CommandOK, DeleteCommand, DeleteCommands, HasTable, Attached
<1>6. SameFiles /\ DiskOK' /\ reply' \in Answers
  BY <1>1 DEF SameFiles, IInv, DiskOK, ProcessOK, Answers
<1> QED BY <1>1, <1>4, <1>5, <1>6, QuietStep

\* The row about to be erased, and its table.
LEMMA Deleting ==
    ASSUME IInv, Erasing
    PROVE  /\ DeleteCommand /\ cmd \in DeleteCommands /\ cmd.pc = "delete" /\ phase = "up" /\ reply \in Answers
           /\ cmd.db \in DOMAIN files /\ cmd.db \in DOMAIN dbs /\ cmd.table \in DOMAIN dbs[cmd.db]
           /\ SoundTable(dbs[cmd.db][cmd.table])
           /\ \A c \in Attached(cmd.db, cmd.table) : <<cmd.table, c>> \in DOMAIN files[cmd.db].idx
           /\ Head(cmd.ids) \in DOMAIN Rows(cmd.db, cmd.table) /\ Tail(cmd.ids) \in Seq(RowIds)
           /\ Attached(cmd.db, cmd.table) \subseteq Columns
<1>1. /\ cmd.pc = "delete" /\ cmd.ids # <<>> /\ Head(cmd.ids) \in DOMAIN Rows(cmd.db, cmd.table)
      /\ phase = "up" /\ reply \in Answers
  BY Busy DEF Erasing
<1>2. DeleteCommand
  BY <1>1 DEF IInv, CommandOK
<1>3. cmd \in DeleteCommands /\ HasTable(cmd.db, cmd.table)
  BY <1>2 DEF DeleteCommand, DeleteCommands
<1>4. cmd.ids \in Seq(RowIds)
  BY <1>3 DEF DeleteCommands
<1>5. Tail(cmd.ids) \in Seq(RowIds)
  BY <1>1, <1>4, HeadTailProperties
<1> QED BY <1>1, <1>2, <1>3, <1>5, TableAtHand

LEMMA DeleteKeyStep == ASSUME IInv, DeleteKey PROVE IInv'
<1>1. PICK c \in cmd.cols :
        /\ SetKeys(cmd.db, cmd.table, c,
               KeysAfterErase(cmd.db, cmd.table, c, Rows(cmd.db, cmd.table)[Head(cmd.ids)][c]))
        /\ Continue([cmd EXCEPT !.cols = @ \ {c}])
  BY DEF DeleteKey
<1> DEFINE keys == KeysAfterErase(cmd.db, cmd.table, c, Rows(cmd.db, cmd.table)[Head(cmd.ids)][c])
<1>2. Erasing /\ UNCHANGED <<phase, dbs, active, committed>>
  BY DEF DeleteKey
<1>3. /\ DeleteCommand /\ cmd \in DeleteCommands /\ cmd.pc = "delete" /\ phase = "up" /\ reply \in Answers
      /\ cmd.db \in DOMAIN files
      /\ \A b \in Attached(cmd.db, cmd.table) : <<cmd.table, b>> \in DOMAIN files[cmd.db].idx
  BY <1>2, Deleting
<1>4. <<cmd.table, c>> \in DOMAIN files[cmd.db].idx
  BY <1>3 DEF DeleteCommand
<1>5. SoundKeys(keys)
  BY <1>3, <1>4, KeysAfterEraseSound DEF IInv
<1> HIDE DEF keys
<1>6. DiskOK' /\ SameFiles
  BY <1>1, <1>3, <1>4, <1>5, SetKeysEffect DEF IInv, keys
<1>7. cmd' = [cmd EXCEPT !.cols = cmd.cols \ {c}] /\ reply' = reply
  BY <1>1 DEF Continue
<1>8. /\ cmd' \in DeleteCommands
      /\ cmd'.pc = "delete" /\ cmd'.db = cmd.db /\ cmd'.table = cmd.table /\ cmd'.cols = cmd.cols \ {c}
  BY <1>3, <1>7 DEF DeleteCommands
<1>9. DeleteCommand'
  BY <1>2, <1>3, <1>8 DEF DeleteCommand, DeleteCommands, HasTable, Attached
<1>10. CommandOK'
  BY <1>8, <1>9 DEF CommandOK
<1> QED BY <1>2, <1>3, <1>6, <1>7, <1>8, <1>10, QuietStep

LEMMA DeleteRowStep == ASSUME IInv, DeleteRow PROVE IInv'
<1> DEFINE table == dbs[cmd.db][cmd.table]
           id == Head(cmd.ids)
           new == [schema |-> table.schema, rows |-> Without(table.rows, id),
                   order |-> Erased(table.order, id), nextId |-> table.nextId,
                   indexes |-> table.indexes]
<1>1. /\ Erasing /\ SetTable(cmd.db, cmd.table, new)
      /\ cmd' = [cmd EXCEPT !.ids = Tail(cmd.ids), !.cols = table.indexes]
      /\ UNCHANGED <<phase, active, files, committed, reply>>
  BY DEF DeleteRow, Continue
<1>2. /\ DeleteCommand /\ cmd \in DeleteCommands /\ cmd.pc = "delete" /\ phase = "up" /\ reply \in Answers
      /\ cmd.db \in DOMAIN dbs /\ cmd.table \in DOMAIN dbs[cmd.db]
      /\ SoundTable(table) /\ table.indexes \subseteq Columns
      /\ \A c \in table.indexes : <<cmd.table, c>> \in DOMAIN files[cmd.db].idx
      /\ id \in DOMAIN table.rows /\ Tail(cmd.ids) \in Seq(RowIds)
  BY <1>1, Deleting DEF Rows, Attached
<1>3. SoundTable(new)
  BY <1>2, ErasedTable
<1>4. new.indexes = table.indexes
  OBVIOUS
<1> HIDE DEF new, table, id
<1>5. DOMAIN dbs' = DOMAIN dbs /\ DOMAIN dbs'[cmd.db] = DOMAIN dbs[cmd.db] /\ dbs'[cmd.db][cmd.table] = new
  BY <1>1, <1>2, <1>3, SetTableEffect DEF IInv
<1>6. /\ cmd' \in DeleteCommands
      /\ cmd'.pc = "delete" /\ cmd'.db = cmd.db /\ cmd'.table = cmd.table /\ cmd'.cols = table.indexes
  BY <1>1, <1>2 DEF DeleteCommands
<1>7. DeleteCommand'
  BY <1>2, <1>4, <1>5, <1>6 DEF DeleteCommand, DeleteCommands, HasTable, Attached
<1>8. CommandOK'
  BY <1>6, <1>7 DEF CommandOK
<1>9. SameFiles /\ DiskOK'
  BY <1>1 DEF SameFiles, IInv, DiskOK
<1> QED BY <1>1, <1>2, <1>3, <1>4, <1>6, <1>8, <1>9, TableStep

-----------------------------------------------------------------------------
(* The indexes of a new table, and those of the loaded ones.                *)

\* Tables may get an index, and nothing else changes in them.
TablesKept ==
    /\ DOMAIN dbs' = DOMAIN dbs /\ \A d \in DOMAIN dbs : DOMAIN dbs'[d] = DOMAIN dbs[d]
    /\ \A d \in DOMAIN dbs : \A t \in DOMAIN dbs[d] :
          /\ dbs'[d][t].schema = dbs[d][t].schema
          /\ dbs'[d][t].rows = dbs[d][t].rows
          /\ dbs'[d][t].order = dbs[d][t].order

AttachCommands ==
    [pc : {"attach", "create"}, todo : SUBSET Places, then : {"save", "serve"},
     at : Places \cup {None}, ids : Seq(RowIds)]

LEMMA AttachingCommand ==
    ASSUME IInv, cmd.pc \in {"attach", "create"}
    PROVE  /\ AttachCommand /\ cmd \in AttachCommands /\ phase = "up" /\ reply \in Answers
           /\ DOMAIN files = DOMAIN dbs
BY Busy DEF IInv, CommandOK, AttachCommand, AttachCommands, ProcessOK

\* What a step that keeps tables and table files leaves of AttachCommand.
LEMMA AttachKept ==
    ASSUME AttachCommand, DOMAIN files = DOMAIN dbs, TablesKept, SameFiles, active' = active,
           cmd' \in AttachCommands, cmd'.todo \subseteq cmd.todo, cmd'.then = cmd.then
    PROVE  /\ \A at \in Places : IsIndexed(at) => IsIndexed(at)'
           /\ \A at \in Places : IsIndexed(at) /\ HasIndexFile(at) => HasIndexFile(at)'
           /\ \A at \in cmd'.todo : IsIndexed(at)'
           /\ cmd'.then = "save" => \A at \in cmd'.todo : dbs'[at[1]][at[2]].order = <<>>
           /\ cmd'.then = "serve" => active' = None /\ \A d \in DOMAIN dbs' : SavedAll(d)'
<1>1. \A at \in Places : IsIndexed(at) => IsIndexed(at)'
  BY DEF IsIndexed, HasTable, Schema, TablesKept
<1>2. \A at \in Places : IsIndexed(at) /\ HasIndexFile(at) => HasIndexFile(at)'
  BY DEF IsIndexed, HasTable, HasIndexFile, SameFiles
<1>3. cmd.todo \subseteq Places /\ \A at \in cmd.todo : IsIndexed(at)
  BY DEF AttachCommand
<1>4. \A at \in cmd'.todo : IsIndexed(at)'
  BY <1>1, <1>3
<1>5. cmd'.then = "save" => \A at \in cmd'.todo : dbs'[at[1]][at[2]].order = <<>>
  BY <1>3 DEF AttachCommand, TablesKept, IsIndexed, HasTable
<1>6. cmd'.then = "serve" => active' = None /\ \A d \in DOMAIN dbs' : SavedAll(d)'
  <2> SUFFICES ASSUME cmd.then = "serve", NEW d \in DOMAIN dbs PROVE SavedAll(d)'
    BY DEF AttachCommand, TablesKept
  <2>1. SavedAll(d)
    BY DEF AttachCommand
  <2>2. \A t \in DOMAIN dbs[d] : Image(dbs'[d][t]) = Image(dbs[d][t])
    BY DEF TablesKept, Image
  <2>3. files'[d].dat = files[d].dat
    BY DEF SameFiles
  <2> QED BY <2>1, <2>2, <2>3 DEF SavedAll, TablesKept
<1> QED BY <1>1, <1>2, <1>4, <1>5, <1>6

\* A column that waits for its index, and its table.
LEMMA PlaceToIndex ==
    ASSUME IInv, cmd.pc \in {"attach", "create"}, NEW at \in Places, IsIndexed(at)
    PROVE  /\ at[1] \in DOMAIN files /\ at[1] \in DOMAIN dbs /\ at[2] \in DOMAIN dbs[at[1]]
           /\ at = <<at[1], at[2], at[3]>> /\ <<at[2], at[3]>> \in Tables \X Columns
           /\ at[3] \in Columns /\ at[3] \in IndexedColumns(dbs[at[1]][at[2]].schema)
           /\ SoundTable(dbs[at[1]][at[2]])
<1>1. phase = "up"
  BY AttachingCommand
<1>2. HasTable(at[1], at[2]) /\ at[3] \in IndexedColumns(dbs[at[1]][at[2]].schema)
  BY DEF IsIndexed, Schema
<1>3. at = <<at[1], at[2], at[3]>> /\ <<at[2], at[3]>> \in Tables \X Columns /\ at[3] \in Columns
  BY DEF Places
<1> QED BY <1>1, <1>2, <1>3, TableAtHand

\* The disk after one index file became index.
LEMMA SetIndexEffect ==
    ASSUME DiskOK, NEW d \in DOMAIN files, NEW f \in Tables \X Columns, NEW index, SoundIndex(index),
           NEW idx, DOMAIN idx = DOMAIN files[d].idx \cup {f}, idx[f] = index,
           \A g \in DOMAIN files[d].idx \ {f} : idx[g] = files[d].idx[g],
           files' = [files EXCEPT ![d].idx = idx]
    PROVE  DiskOK' /\ SameFiles /\ f \in DOMAIN files'[d].idx
<1> DEFINE dir == [files[d] EXCEPT !.idx = idx]
<1>1. files' = [files EXCEPT ![d] = dir]
  OBVIOUS
<1>2. SoundDirectory(files[d])
  BY DEF DiskOK
<1>3. DOMAIN dir = {"dat", "idx"} /\ dir.dat = files[d].dat /\ dir.idx = idx
  BY <1>2 DEF SoundDirectory
<1> HIDE DEF dir
<1>4. SoundDirectory(dir)
  BY <1>2, <1>3 DEF SoundDirectory
<1>5. DOMAIN files' = DOMAIN files /\ \A e \in DOMAIN files : files'[e] = IF e = d THEN dir ELSE files[e]
  BY <1>1
<1>6. DiskOK'
  BY <1>4, <1>5 DEF DiskOK
<1>7. SameFiles /\ f \in DOMAIN files'[d].idx
  BY <1>3, <1>5 DEF SameFiles
<1> QED BY <1>6, <1>7

LEMMA CreateIndexFileStep == ASSUME IInv, CreateIndexFile PROVE IInv'
<1>1. PICK at \in Waiting(FALSE) :
        /\ files' = [files EXCEPT ![at[1]].idx = With(@, <<at[2], at[3]>>, Torn)]
        /\ Continue([cmd EXCEPT !.pc = "create", !.at = at])
  BY DEF CreateIndexFile
<1>2. cmd.pc = "attach" /\ cmd.ids = <<>> /\ UNCHANGED <<phase, dbs, active, committed>>
  BY DEF CreateIndexFile
<1>3. /\ AttachCommand /\ cmd \in AttachCommands /\ phase = "up" /\ reply \in Answers
      /\ DOMAIN files = DOMAIN dbs
  BY <1>2, AttachingCommand
<1>4. at \in cmd.todo /\ at \in Places /\ IsIndexed(at)
  BY <1>3 DEF Waiting, AttachCommand
<1>5. at[1] \in DOMAIN files /\ <<at[2], at[3]>> \in Tables \X Columns
  BY <1>2, <1>4, PlaceToIndex
<1> DEFINE f == <<at[2], at[3]>>
           idx == With(files[at[1]].idx, f, Torn)
<1>6. SoundIndex(Torn)
  <2>1. DOMAIN <<>> = {} /\ IsFiniteSet({})
    BY FS_EmptySet
  <2> QED BY <2>1 DEF Torn, SoundIndex, IsIndex, SoundKeys
<1>7. /\ DOMAIN idx = DOMAIN files[at[1]].idx \cup {f} /\ idx[f] = Torn
      /\ \A g \in DOMAIN files[at[1]].idx \ {f} : idx[g] = files[at[1]].idx[g]
  BY DEF With
<1>8. files' = [files EXCEPT ![at[1]].idx = idx]
  BY <1>1
<1> HIDE DEF idx
<1>9. DiskOK' /\ SameFiles /\ f \in DOMAIN files'[at[1]].idx
  BY <1>5, <1>6, <1>7, <1>8, SetIndexEffect DEF IInv
<1>10. cmd' = [cmd EXCEPT !.pc = "create", !.at = at] /\ reply' = reply
  BY <1>1 DEF Continue
<1>11. /\ cmd' \in AttachCommands
       /\ cmd'.pc = "create" /\ cmd'.todo = cmd.todo /\ cmd'.then = cmd.then
       /\ cmd'.ids = cmd.ids /\ cmd'.at = at
  BY <1>3, <1>4, <1>10 DEF AttachCommands
<1>12. TablesKept
  BY <1>2 DEF TablesKept
<1>13. AttachCommand'
  BY <1>2, <1>3, <1>4, <1>9, <1>11, <1>12, AttachKept DEF AttachCommand, AttachCommands, HasIndexFile
<1>14. CommandOK'
  BY <1>11, <1>13 DEF CommandOK
<1> QED BY <1>2, <1>3, <1>9, <1>10, <1>11, <1>14, QuietStep

LEMMA WriteFirstPageStep == ASSUME IInv, WriteFirstPage PROVE IInv'
<1> DEFINE d == cmd.at[1]
           f == <<cmd.at[2], cmd.at[3]>>
           kind == Schema(d, cmd.at[2])[cmd.at[3]].type
           index == [files[d].idx[f] EXCEPT !.kind = kind]
           idx == [files[d].idx EXCEPT ![f] = index]
<1>1. /\ cmd.pc = "create" /\ files' = [files EXCEPT ![d].idx = idx]
      /\ cmd' = [cmd EXCEPT !.pc = "attach"]
      /\ UNCHANGED <<phase, dbs, active, committed, reply>>
  BY DEF WriteFirstPage, Continue
<1>2. /\ AttachCommand /\ cmd \in AttachCommands /\ phase = "up" /\ reply \in Answers
      /\ DOMAIN files = DOMAIN dbs
  BY <1>1, AttachingCommand
<1>3. cmd.at \in Places /\ IsIndexed(cmd.at) /\ HasIndexFile(cmd.at) /\ cmd.ids = <<>>
  BY <1>1, <1>2 DEF AttachCommand
<1>4. /\ d \in DOMAIN files /\ f \in Tables \X Columns /\ f \in DOMAIN files[d].idx
      /\ SoundTable(dbs[d][cmd.at[2]]) /\ cmd.at[3] \in Columns
  BY <1>1, <1>3, PlaceToIndex DEF HasIndexFile
<1>5. kind \in {"int", "str"}
  <2>1. Schema(d, cmd.at[2]) \in [Columns -> Definition]
    BY <1>4, SchemasAssumption DEF SoundTable, IsTable, IsImage, Schema
  <2> QED BY <1>4, <2>1 DEF Definition
<1>6. SoundIndex(files[d].idx[f])
  BY <1>4 DEF IInv, DiskOK, SoundDirectory
<1> HIDE DEF kind
<1>7. SoundIndex(index)
  BY <1>5, <1>6 DEF SoundIndex, IsIndex
<1> HIDE DEF index
<1>8. /\ DOMAIN idx = DOMAIN files[d].idx \cup {f} /\ idx[f] = index
      /\ \A g \in DOMAIN files[d].idx \ {f} : idx[g] = files[d].idx[g]
  BY <1>4
<1> HIDE DEF idx
<1>9. DiskOK' /\ SameFiles
  <2> HIDE DEF d, f
  <2> QED BY <1>1, <1>4, <1>7, <1>8, SetIndexEffect DEF IInv
<1>10. /\ cmd' \in AttachCommands
       /\ cmd'.pc = "attach" /\ cmd'.todo = cmd.todo /\ cmd'.then = cmd.then
       /\ cmd'.ids = cmd.ids /\ cmd'.at = cmd.at
  BY <1>1, <1>2 DEF AttachCommands
<1>11. TablesKept
  BY <1>1 DEF TablesKept
<1> HIDE DEF d, f
<1>12. AttachCommand'
  BY <1>1, <1>2, <1>3, <1>9, <1>10, <1>11, AttachKept DEF AttachCommand, AttachCommands
<1>13. CommandOK'
  BY <1>10, <1>12 DEF CommandOK
<1> QED BY <1>1, <1>2, <1>9, <1>10, <1>13, QuietStep

LEMMA OpenIndexStep == ASSUME IInv, OpenIndex PROVE IInv'
<1>1. PICK at \in Waiting(TRUE) :
        /\ dbs' = [dbs EXCEPT ![at[1]][at[2]].indexes = @ \cup {at[3]}]
        /\ Continue([cmd EXCEPT !.todo = @ \ {at}, !.at = at, !.ids = dbs[at[1]][at[2]].order])
  BY DEF OpenIndex
<1> DEFINE d == at[1]
           t == at[2]
           c == at[3]
           table == dbs[d][t]
           new == [table EXCEPT !.indexes = @ \cup {c}]
<1>2. cmd.pc = "attach" /\ cmd.ids = <<>> /\ UNCHANGED <<phase, active, files, committed>>
  BY DEF OpenIndex
<1>3. /\ AttachCommand /\ cmd \in AttachCommands /\ phase = "up" /\ reply \in Answers
      /\ DOMAIN files = DOMAIN dbs
  BY <1>2, AttachingCommand
<1>4. at \in cmd.todo /\ at \in Places /\ IsIndexed(at) /\ HasIndexFile(at)
  BY <1>3 DEF Waiting, AttachCommand, HasIndexFile
<1>5. /\ d \in DOMAIN files /\ d \in DOMAIN dbs /\ t \in DOMAIN dbs[d]
      /\ c \in IndexedColumns(table.schema) /\ SoundTable(table)
  BY <1>2, <1>4, PlaceToIndex
<1>6. /\ SoundTable(new) /\ new.schema = table.schema /\ new.rows = table.rows
      /\ new.order = table.order /\ new.indexes = table.indexes \cup {c}
  BY <1>5, IndexedTable
<1>7. SetTable(d, t, new)
  BY <1>1, <1>5 DEF SetTable
<1>8. cmd' = [cmd EXCEPT !.todo = cmd.todo \ {at}, !.at = at, !.ids = table.order] /\ reply' = reply
  BY <1>1 DEF Continue
<1>9. /\ table.order \in Seq(RowIds) /\ Ids(table.order) = DOMAIN table.rows
      /\ \A b \in table.indexes : <<t, b>> \in DOMAIN files[d].idx
  BY <1>5 DEF SoundTable, IsTable, IsImage, Ordered, IInv, ProcessOK
<1> HIDE DEF new
<1>10. TablesKept /\ dbs'[d][t] = new
  <2> HIDE DEF d, t, table
  <2>1. /\ DOMAIN dbs' = DOMAIN dbs
        /\ \A e \in DOMAIN dbs : DOMAIN dbs'[e] = DOMAIN dbs[e]
        /\ \A e \in DOMAIN dbs : \A u \in DOMAIN dbs[e] :
              dbs'[e][u] = IF e = d /\ u = t THEN new ELSE dbs[e][u]
    BY <1>5, <1>6, <1>7, SetTableEffect DEF IInv
  <2>2. new.schema = dbs[d][t].schema /\ new.rows = dbs[d][t].rows /\ new.order = dbs[d][t].order
    BY <1>6 DEF table
  <2> QED BY <1>5, <2>1, <2>2 DEF TablesKept
<1>11. /\ cmd' \in AttachCommands
       /\ cmd'.pc = "attach" /\ cmd'.todo = cmd.todo \ {at} /\ cmd'.then = cmd.then
       /\ cmd'.ids = table.order /\ cmd'.at = at
  BY <1>2, <1>3, <1>4, <1>8, <1>9 DEF AttachCommands
<1>12. SameFiles /\ DiskOK'
  BY <1>2 DEF SameFiles, IInv, DiskOK
<1>13. cmd.then = "save" => table.order = <<>>
  BY <1>3, <1>4 DEF AttachCommand
<1>14. cmd.then \in {"save", "serve"}
  BY <1>3 DEF AttachCommands
<1>15. Rows(d, t)' = table.rows
  BY <1>6, <1>10 DEF Rows
<1>16. IsIndexed(at)' /\ HasIndexFile(at)'
  BY <1>2, <1>3, <1>4, <1>10, <1>11, <1>12, AttachKept
<1>17. AttachCommand'
  <2>1. cmd'.ids # <<>> => /\ cmd'.at \in Places /\ IsIndexed(cmd.at)' /\ HasIndexFile(cmd.at)'
                           /\ Ids(cmd'.ids) \subseteq DOMAIN Rows(cmd.at[1], cmd.at[2])'
                           /\ cmd'.then = "serve"
    BY <1>4, <1>9, <1>11, <1>13, <1>14, <1>15, <1>16 DEF IsIndexed, HasTable, Schema, HasIndexFile, Rows
  <2>2. cmd'.todo \subseteq cmd.todo /\ cmd'.then = cmd.then /\ active' = active
    BY <1>2, <1>11
  <2> QED BY <1>3, <1>10, <1>11, <1>12, <2>1, <2>2, AttachKept DEF AttachCommand, AttachCommands
<1>18. CommandOK'
  BY <1>11, <1>17 DEF CommandOK
<1>19. \A b \in new.indexes : <<t, b>> \in DOMAIN files[d].idx
  BY <1>4, <1>6, <1>9 DEF HasIndexFile
<1> HIDE DEF table, d, t, c
<1> QED BY <1>2, <1>3, <1>5, <1>6, <1>7, <1>8, <1>11, <1>12, <1>18, <1>19, TableStep

\* The constructor throws: the process keeps nothing but its files.
LEMMA FailStep ==
    ASSUME IInv, cmd.pc = "attach", cmd.then = "serve",
           phase' = "failed", dbs' = <<>>, Finish("none"), active' = active,
           DiskOK', FailsOnlyOnIndexedRows'
    PROVE  IInv'
<1>1. active' = None
  BY AttachingCommand DEF AttachCommand
<1>2. DOMAIN dbs' = {}
  OBVIOUS
<1>3. MemoryOK' /\ ProcessOK'
  BY <1>1, <1>2 DEF MemoryOK, ProcessOK, Finish
<1>4. CommandOK'
  BY FinishOK DEF Answers
<1>5. FilesFollow' /\ ActiveIsLoaded'
  BY <1>1 DEF FilesFollow, ActiveIsLoaded
<1> QED BY <1>3, <1>4, <1>5 DEF IInv

\* While the constructor indexes, each table is as its file has it.
LEMMA LoadedFromFile ==
    ASSUME IInv, cmd.pc = "attach", cmd.then = "serve", NEW at \in Places, IsIndexed(at)
    PROVE  /\ HasFile(at[1], at[2]) /\ at[1] \in Databases /\ at[2] \in Tables /\ at[3] \in Columns
           /\ files[at[1]].dat[at[2]].rows = Rows(at[1], at[2])
           /\ files[at[1]].dat[at[2]].schema[at[3]].indexed
<1>1. AttachCommand
  BY AttachingCommand
<1>2. /\ at[1] \in DOMAIN files /\ at[1] \in DOMAIN dbs /\ at[2] \in DOMAIN dbs[at[1]]
      /\ at[3] \in Columns /\ at[3] \in IndexedColumns(dbs[at[1]][at[2]].schema)
      /\ <<at[2], at[3]>> \in Tables \X Columns
  BY PlaceToIndex
<1>3. /\ at[2] \in DOMAIN files[at[1]].dat
      /\ files[at[1]].dat[at[2]] = Image(dbs[at[1]][at[2]])
  BY <1>1, <1>2 DEF AttachCommand, SavedAll
<1>4. at[1] \in Databases
  BY <1>2 DEF IInv, DiskOK
<1> QED BY <1>2, <1>3, <1>4 DEF Image, IndexedColumns, HasFile, Rows

LEMMA OpenThrowsStep == ASSUME IInv, OpenThrows PROVE IInv'
<1>1. PICK at \in Waiting(TRUE) : IndexFile(at[1], at[2], at[3]) = Torn
  BY DEF OpenThrows
<1>2. /\ cmd.pc = "attach" /\ UNCHANGED <<active, files, committed>>
      /\ IF cmd.then = "save"
         THEN Finish("error") /\ UNCHANGED <<phase, dbs>>
         ELSE Finish("none") /\ phase' = "failed" /\ dbs' = <<>>
  BY DEF OpenThrows
<1>3. AttachCommand /\ phase = "up" /\ cmd.then \in {"save", "serve"}
  BY <1>2, AttachingCommand DEF AttachCommands
<1>4. CASE cmd.then = "save"
  BY <1>2, <1>3, <1>4, FinishStep DEF Answers
<1>5. CASE cmd.then = "serve"
  <2>1. at \in Places /\ IsIndexed(at) /\ HasIndexFile(at)
    BY <1>3 DEF Waiting, AttachCommand, HasIndexFile
  <2>2. /\ HasFile(at[1], at[2]) /\ at[1] \in Databases /\ at[2] \in Tables /\ at[3] \in Columns
        /\ files[at[1]].dat[at[2]].schema[at[3]].indexed
    BY <1>2, <1>5, <2>1, LoadedFromFile
  <2>3. FailsOnlyOnIndexedRows'
    BY <1>1, <1>2, <2>1, <2>2 DEF FailsOnlyOnIndexedRows, HasFile, HasIndexFile, IndexFile
  <2>4. DiskOK'
    BY <1>2 DEF IInv, DiskOK
  <2> QED BY <1>2, <1>5, <2>3, <2>4, FailStep
<1> QED BY <1>3, <1>4, <1>5

\* The row whose key the constructor inserts next.
LEMMA Rebuilding ==
    ASSUME IInv, cmd.pc = "attach", cmd.ids # <<>>
    PROVE  /\ AttachCommand /\ cmd \in AttachCommands /\ phase = "up" /\ reply \in Answers
           /\ cmd.then = "serve" /\ cmd.at \in Places /\ IsIndexed(cmd.at)
           /\ cmd.at[1] \in DOMAIN files /\ <<cmd.at[2], cmd.at[3]>> \in DOMAIN files[cmd.at[1]].idx
           /\ Head(cmd.ids) \in RowIds /\ Head(cmd.ids) \in DOMAIN Rows(cmd.at[1], cmd.at[2])
           /\ Tail(cmd.ids) \in Seq(RowIds) /\ Ids(Tail(cmd.ids)) \subseteq Ids(cmd.ids)
<1>1. /\ AttachCommand /\ cmd \in AttachCommands /\ phase = "up" /\ reply \in Answers
      /\ DOMAIN files = DOMAIN dbs
  BY AttachingCommand
<1>2. /\ cmd.then = "serve" /\ cmd.at \in Places /\ IsIndexed(cmd.at) /\ HasIndexFile(cmd.at)
      /\ Ids(cmd.ids) \subseteq DOMAIN Rows(cmd.at[1], cmd.at[2])
  BY <1>1 DEF AttachCommand
<1>3. cmd.ids \in Seq(RowIds)
  BY <1>1 DEF AttachCommands
<1>4. /\ Head(cmd.ids) \in RowIds /\ Tail(cmd.ids) \in Seq(RowIds) /\ Head(cmd.ids) = cmd.ids[1]
      /\ Len(Tail(cmd.ids)) = Len(cmd.ids) - 1 /\ Len(cmd.ids) \in Nat \ {0}
      /\ \A i \in 1..Len(Tail(cmd.ids)) : Tail(cmd.ids)[i] = cmd.ids[i + 1]
  BY <1>3, HeadTailProperties, EmptySeq
<1>5. Head(cmd.ids) \in Ids(cmd.ids)
  BY <1>4 DEF Ids
<1>6. Ids(Tail(cmd.ids)) \subseteq Ids(cmd.ids)
  <2> SUFFICES ASSUME NEW i \in 1..Len(Tail(cmd.ids)) PROVE Tail(cmd.ids)[i] \in Ids(cmd.ids)
    BY DEF Ids
  <2>1. i + 1 \in 1..Len(cmd.ids)
    BY <1>4
  <2> QED BY <1>4, <2>1 DEF Ids
<1>7. cmd.at[1] \in DOMAIN files /\ <<cmd.at[2], cmd.at[3]>> \in DOMAIN files[cmd.at[1]].idx
  BY <1>2, PlaceToIndex DEF HasIndexFile
<1> QED BY <1>1, <1>2, <1>4, <1>5, <1>6, <1>7

LEMMA RebuildRowStep == ASSUME IInv, RebuildRow PROVE IInv'
<1> DEFINE d == cmd.at[1]
           t == cmd.at[2]
           c == cmd.at[3]
           id == Head(cmd.ids)
           v == Rows(d, t)[id][c]
           keys == With(Keys(d, t, c), v, id)
<1>1. /\ cmd.pc = "attach" /\ cmd.ids # <<>> /\ Insertable(d, t, c, v) /\ SetKeys(d, t, c, keys)
      /\ cmd' = [cmd EXCEPT !.ids = Tail(cmd.ids)]
      /\ UNCHANGED <<phase, dbs, active, committed, reply>>
  BY DEF RebuildRow, Continue
<1>2. /\ AttachCommand /\ cmd \in AttachCommands /\ phase = "up" /\ reply \in Answers
      /\ cmd.then = "serve" /\ cmd.at \in Places /\ IsIndexed(cmd.at)
      /\ d \in DOMAIN files /\ <<t, c>> \in DOMAIN files[d].idx
      /\ id \in RowIds /\ id \in DOMAIN Rows(d, t)
      /\ Tail(cmd.ids) \in Seq(RowIds) /\ Ids(Tail(cmd.ids)) \subseteq Ids(cmd.ids)
  BY <1>1, Rebuilding
<1>3. v \in Values
  BY <1>1, KindAssumption DEF Insertable
<1> HIDE DEF d, t, c, id, v
<1>4. SoundKeys(keys)
  BY <1>2, <1>3, KeysSound, KeysAfterInsertSound DEF IInv
<1> HIDE DEF keys
<1>5. DiskOK' /\ SameFiles
  BY <1>1, <1>2, <1>4, SetKeysEffect DEF IInv
<1>6. /\ cmd' \in AttachCommands
      /\ cmd'.pc = "attach" /\ cmd'.todo = cmd.todo /\ cmd'.then = cmd.then
      /\ cmd'.ids = Tail(cmd.ids) /\ cmd'.at = cmd.at
  BY <1>1, <1>2 DEF AttachCommands
<1>7. TablesKept
  BY <1>1 DEF TablesKept
<1>8. Ids(cmd.ids) \subseteq DOMAIN Rows(cmd.at[1], cmd.at[2]) /\ HasIndexFile(cmd.at)
  BY <1>1, <1>2 DEF AttachCommand
<1>9. DOMAIN files = DOMAIN dbs
  BY <1>1, AttachingCommand
<1>10. AttachCommand'
  <2>1. IsIndexed(cmd.at)' /\ HasIndexFile(cmd.at)'
    BY <1>1, <1>2, <1>5, <1>6, <1>7, <1>8, <1>9, AttachKept DEF IsIndexed, HasTable, Schema, HasIndexFile
  <2>2. Ids(cmd'.ids) \subseteq DOMAIN Rows(cmd.at[1], cmd.at[2])'
    BY <1>1, <1>2, <1>6, <1>8 DEF Rows
  <2> QED BY <1>1, <1>2, <1>5, <1>6, <1>7, <1>9, <2>1, <2>2, AttachKept DEF AttachCommand, AttachCommands
<1>11. CommandOK'
  BY <1>6, <1>10 DEF CommandOK
<1> QED BY <1>1, <1>2, <1>5, <1>6, <1>11, QuietStep

LEMMA RebuildThrowsStep == ASSUME IInv, RebuildThrows PROVE IInv'
<1> DEFINE d == cmd.at[1]
           t == cmd.at[2]
           c == cmd.at[3]
           v == Rows(d, t)[Head(cmd.ids)][c]
<1>1. /\ cmd.pc = "attach" /\ cmd.ids # <<>>
      /\ phase' = "failed" /\ dbs' = <<>> /\ Finish("none") /\ UNCHANGED <<active, committed>>
      /\ \E keys \in KeysAfterThrow(d, t, c, v) : SetKeys(d, t, c, keys)
  BY DEF RebuildThrows
<1>2. /\ cmd.then = "serve" /\ cmd.at \in Places /\ IsIndexed(cmd.at)
      /\ d \in DOMAIN files /\ <<t, c>> \in DOMAIN files[d].idx
      /\ Head(cmd.ids) \in DOMAIN Rows(d, t)
  BY <1>1, Rebuilding
<1>3. /\ HasFile(d, t) /\ d \in Databases /\ t \in Tables /\ c \in Columns
      /\ files[d].dat[t].rows = Rows(d, t) /\ files[d].dat[t].schema[c].indexed
  BY <1>1, <1>2, LoadedFromFile
<1>4. PICK keys \in KeysAfterThrow(d, t, c, v) : SetKeys(d, t, c, keys)
  BY <1>1
<1> HIDE DEF d, t, c, v
<1>5. SoundKeys(keys)
  BY <1>2, KeysAfterThrowSound DEF IInv
<1>6. DiskOK' /\ SameFiles
  BY <1>2, <1>4, <1>5, SetKeysEffect DEF IInv
<1>7. files[d].dat[t].rows # <<>>
  <2>1. DOMAIN Rows(d, t) # {}
    BY <1>2
  <2> QED BY <1>3, <2>1
<1>8. FailsOnlyOnIndexedRows'
  BY <1>3, <1>6, <1>7 DEF FailsOnlyOnIndexedRows, HasFile, SameFiles
<1> QED BY <1>1, <1>2, <1>6, <1>8, FailStep

-----------------------------------------------------------------------------
(* Databases and tables.                                                    *)

\* With no command in progress the files are what was committed, database by
\* database.
LEMMA IdleFiles ==
    ASSUME IInv, Serving
    PROVE  /\ phase = "up" /\ cmd.pc = "idle" /\ reply \in Answers /\ DOMAIN files = DOMAIN dbs
           /\ \A d \in Databases, t \in Tables :
                 /\ HasFile(d, t) => WasCommitted(d, t) /\ files[d].dat[t] = committed[d][t]
                 /\ WasCommitted(d, t) => HasFile(d, t)
<1>1. phase = "up" /\ cmd.pc = "idle" /\ cmd.pc # "save" /\ cmd.pc \notin {"remove", "save"}
  BY ServingUp
<1>2. reply \in Answers /\ DOMAIN files = DOMAIN dbs
  BY <1>1 DEF IInv, ProcessOK, Answers
<1>3. \A d \in Databases, t \in Tables :
         /\ HasFile(d, t) => WasCommitted(d, t) /\ files[d].dat[t] = committed[d][t]
         /\ WasCommitted(d, t) => HasFile(d, t)
  BY <1>1, Zenon DEF IInv, FilesFollow
<1> QED BY <1>1, <1>2, <1>3

LEMMA SavingCommand ==
    ASSUME MemoryOK', cmd' = Saving(DOMAIN dbs')
    PROVE  CommandOK' /\ cmd'.pc = "save"
<1>1. cmd'.pc = "save" /\ cmd'.left = DOMAIN dbs' /\ cmd'.db = None /\ cmd'.tables = {}
  BY DEF Saving
<1>2. cmd' \in [pc : {"save"}, left : SUBSET Databases, db : Databases \cup {None}, tables : SUBSET Tables]
  BY DEF Saving, MemoryOK
<1>3. SaveCommand'
  BY <1>1, <1>2 DEF SaveCommand
<1> QED BY <1>1, <1>3 DEF CommandOK

LEMMA CreateDatabaseStep == ASSUME IInv, NEW d \in Databases, CreateDatabase(d) PROVE IInv'
<1>1. /\ Serving /\ d \notin DOMAIN dbs /\ dbs' = With(dbs, d, <<>>) /\ MakeDirectory(d)
      /\ cmd' = Saving(DOMAIN dbs \cup {d}) /\ UNCHANGED <<phase, active, committed, reply>>
  BY DEF CreateDatabase, Continue
<1>2. /\ phase = "up" /\ cmd.pc = "idle" /\ reply \in Answers /\ DOMAIN files = DOMAIN dbs
      /\ \A e \in Databases, t \in Tables :
            /\ HasFile(e, t) => WasCommitted(e, t) /\ files[e].dat[t] = committed[e][t]
            /\ WasCommitted(e, t) => HasFile(e, t)
  BY <1>1, IdleFiles
<1>3. files' = With(files, d, EmptyDir)
  BY <1>1, <1>2 DEF MakeDirectory
<1>4. /\ DOMAIN dbs' = DOMAIN dbs \cup {d} /\ DOMAIN dbs'[d] = {}
      /\ \A e \in DOMAIN dbs : dbs'[e] = dbs[e]
  BY <1>1 DEF With
<1>5. /\ DOMAIN files' = DOMAIN files \cup {d} /\ files'[d] = EmptyDir
      /\ \A e \in DOMAIN files : files'[e] = files[e]
  BY <1>1, <1>2, <1>3 DEF With
<1>6. MemoryOK'
  BY <1>4 DEF IInv, MemoryOK
<1>7. EmptyDir.dat = <<>> /\ EmptyDir.idx = <<>> /\ DOMAIN EmptyDir = {"dat", "idx"} /\ DOMAIN <<>> = {}
  BY DEF EmptyDir
<1>8. DiskOK'
  <2>1. SoundDirectory(EmptyDir)
    BY <1>7 DEF SoundDirectory
  <2> QED BY <1>5, <2>1 DEF IInv, DiskOK
<1>9. CommandOK' /\ cmd'.pc = "save"
  BY <1>1, <1>4, <1>6, SavingCommand
<1>10. ProcessOK'
  BY <1>1, <1>2, <1>4, <1>5, <1>9 DEF IInv, ProcessOK, Answers
<1>11. FilesFollow'
  <2>1. \A e \in Databases, t \in Tables :
           /\ HasFile(e, t)' = HasFile(e, t) /\ (HasFile(e, t) => files'[e].dat[t] = files[e].dat[t])
           /\ WasCommitted(e, t)' = WasCommitted(e, t)
    BY <1>1, <1>2, <1>5, <1>7 DEF HasFile, WasCommitted
  <2> QED BY <1>1, <1>2, <2>1 DEF FilesFollow
<1>12. ActiveIsLoaded' /\ FailsOnlyOnIndexedRows'
  BY <1>1, <1>2, <1>4 DEF IInv, ActiveIsLoaded, FailsOnlyOnIndexedRows
<1> QED BY <1>6, <1>8, <1>9, <1>10, <1>11, <1>12 DEF IInv

LEMMA DropDatabaseStep == ASSUME IInv, NEW d \in Databases, DropDatabase(d) PROVE IInv'
<1>1. /\ Serving /\ d \in DOMAIN dbs /\ dbs' = Without(dbs, d)
      /\ active' = (IF active = d THEN None ELSE active)
      /\ cmd' = [pc |-> "remove", db |-> d] /\ UNCHANGED <<phase, files, committed, reply>>
  BY DEF DropDatabase, Continue
<1>2. /\ phase = "up" /\ cmd.pc = "idle" /\ reply \in Answers /\ DOMAIN files = DOMAIN dbs
      /\ \A e \in Databases, t \in Tables :
            /\ HasFile(e, t) => WasCommitted(e, t) /\ files[e].dat[t] = committed[e][t]
            /\ WasCommitted(e, t) => HasFile(e, t)
  BY <1>1, IdleFiles
<1>3. DOMAIN dbs' = DOMAIN dbs \ {d} /\ \A e \in DOMAIN dbs \ {d} : dbs'[e] = dbs[e]
  BY <1>1, WithoutProperties
<1>4. MemoryOK' /\ DiskOK'
  BY <1>1, <1>3 DEF IInv, MemoryOK, DiskOK
<1>5. cmd'.pc = "remove" /\ cmd'.db = d
  BY <1>1
<1>6. CommandOK'
  BY <1>1, <1>3, <1>5 DEF CommandOK, RemoveCommand
<1>7. ProcessOK'
  BY <1>1, <1>2, <1>3, <1>5 DEF IInv, ProcessOK, Answers
<1>8. FilesFollow'
  <2>1. \A e \in Databases, t \in Tables :
           HasFile(e, t)' = HasFile(e, t) /\ WasCommitted(e, t)' = WasCommitted(e, t)
    BY <1>1 DEF HasFile, WasCommitted
  <2> QED BY <1>1, <1>2, <2>1 DEF FilesFollow
<1>9. ActiveIsLoaded' /\ FailsOnlyOnIndexedRows'
  BY <1>1, <1>2, <1>3 DEF IInv, ActiveIsLoaded, FailsOnlyOnIndexedRows
<1> QED BY <1>4, <1>6, <1>7, <1>8, <1>9 DEF IInv

LEMMA CreateTableStep ==
    ASSUME IInv, NEW x, NEW t \in Tables, NEW schema \in Schemas, CreateTable(x, t, schema)
    PROVE  IInv'
<1> DEFINE d == Resolved(x)
           todo == {<<d, t, c>> : c \in IndexedColumns(schema)}
           table == EmptyTable(schema)
<1>1. /\ Serving /\ d \in DOMAIN dbs /\ ~HasTable(d, t)
      /\ dbs' = [dbs EXCEPT ![d] = With(dbs[d], t, table)]
      /\ cmd' = Attaching(todo, "save") /\ UNCHANGED <<phase, active, files, committed, reply>>
  BY DEF CreateTable, Continue
<1>2. /\ phase = "up" /\ cmd.pc = "idle" /\ reply \in Answers /\ DOMAIN files = DOMAIN dbs
  BY <1>1, IdleFiles
<1>3. SoundTable(table) /\ table.schema = schema /\ table.order = <<>> /\ table.indexes = {}
  BY EmptyTableSound DEF EmptyTable
<1>4. d \in Databases
  BY <1>1 DEF IInv, MemoryOK
<1> HIDE DEF d, table
<1>5. /\ DOMAIN dbs' = DOMAIN dbs /\ DOMAIN dbs'[d] = DOMAIN dbs[d] \cup {t} /\ dbs'[d][t] = table
      /\ \A u \in DOMAIN dbs[d] : dbs'[d][u] = dbs[d][u]
      /\ \A e \in DOMAIN dbs \ {d} : dbs'[e] = dbs[e]
  BY <1>1 DEF With, HasTable
<1>6. MemoryOK'
  BY <1>3, <1>5 DEF IInv, MemoryOK
<1>7. todo \subseteq Places
  BY <1>4 DEF IndexedColumns, Places
<1>8. \A at \in todo : at[1] = d /\ at[2] = t /\ at[3] \in IndexedColumns(schema)
  OBVIOUS
<1> HIDE DEF todo
<1>9. /\ cmd' \in AttachCommands
      /\ cmd'.pc = "attach" /\ cmd'.todo = todo /\ cmd'.then = "save" /\ cmd'.ids = <<>>
  BY <1>1, <1>7, EmptySeq DEF Attaching, AttachCommands
<1>10. AttachCommand'
  BY <1>1, <1>3, <1>5, <1>8, <1>9 DEF AttachCommand, AttachCommands, IsIndexed, HasTable, Schema
<1>11. CommandOK'
  BY <1>9, <1>10 DEF CommandOK
<1>12. SameFiles /\ DiskOK'
  BY <1>1 DEF SameFiles, IInv, DiskOK
<1>13. \A e \in DOMAIN dbs' : \A u \in DOMAIN dbs'[e] : \A c \in dbs'[e][u].indexes :
          <<u, c>> \in DOMAIN files'[e].idx
  <2> SUFFICES ASSUME NEW e \in DOMAIN dbs, NEW u \in DOMAIN dbs'[e], NEW c \in dbs'[e][u].indexes
               PROVE  <<u, c>> \in DOMAIN files[e].idx
    BY <1>1, <1>5
  <2>1. u \in DOMAIN dbs[e] /\ dbs'[e][u] = dbs[e][u]
    BY <1>3, <1>5
  <2> QED BY <2>1 DEF IInv, ProcessOK
<1> QED BY <1>1, <1>2, <1>5, <1>6, <1>9, <1>11, <1>12, <1>13, OrdinaryStep

LEMMA DropTableStep == ASSUME IInv, NEW x, NEW t, DropTable(x, t) PROVE IInv'
<1> DEFINE d == Resolved(x)
<1>1. /\ Serving /\ HasTable(d, t)
      /\ dbs' = [dbs EXCEPT ![d] = Without(dbs[d], t)]
      /\ cmd' = Saving(DOMAIN dbs) /\ UNCHANGED <<phase, active, files, committed, reply>>
  BY DEF DropTable, Continue
<1>2. /\ phase = "up" /\ cmd.pc = "idle" /\ reply \in Answers /\ DOMAIN files = DOMAIN dbs
  BY <1>1, IdleFiles
<1> HIDE DEF d
<1>3. DOMAIN Without(dbs[d], t) = DOMAIN dbs[d] \ {t} /\ \A u \in DOMAIN dbs[d] \ {t} : Without(dbs[d], t)[u] = dbs[d][u]
  BY WithoutProperties
<1>4. /\ DOMAIN dbs' = DOMAIN dbs
      /\ \A e \in DOMAIN dbs : DOMAIN dbs'[e] \subseteq DOMAIN dbs[e] /\ \A u \in DOMAIN dbs'[e] : dbs'[e][u] = dbs[e][u]
  BY <1>1, <1>3
<1>5. MemoryOK'
  BY <1>4 DEF IInv, MemoryOK
<1>6. CommandOK' /\ cmd'.pc = "save"
  BY <1>1, <1>4, <1>5, SavingCommand
<1>7. SameFiles /\ DiskOK'
  BY <1>1 DEF SameFiles, IInv, DiskOK
<1>8. \A e \in DOMAIN dbs' : \A u \in DOMAIN dbs'[e] : \A c \in dbs'[e][u].indexes :
         <<u, c>> \in DOMAIN files'[e].idx
  <2> SUFFICES ASSUME NEW e \in DOMAIN dbs, NEW u \in DOMAIN dbs'[e], NEW c \in dbs'[e][u].indexes
               PROVE  <<u, c>> \in DOMAIN files[e].idx
    BY <1>1, <1>4
  <2>1. u \in DOMAIN dbs[e] /\ dbs'[e][u] = dbs[e][u]
    BY <1>4
  <2> QED BY <2>1 DEF IInv, ProcessOK
<1> QED BY <1>1, <1>2, <1>4, <1>5, <1>6, <1>7, <1>8, OrdinaryStep

\* remove_all takes files of a database that memory no longer has.
LEMMA RemoveFileStep == ASSUME IInv, RemoveFile PROVE IInv'
<1> DEFINE d == cmd.db
<1>1. /\ cmd.pc = "remove" /\ UNCHANGED <<phase, dbs, active, cmd, reply, committed>>
      /\ \/ \E t \in DOMAIN files[d].dat : files' = [files EXCEPT ![d].dat = Without(@, t)]
         \/ \E f \in DOMAIN files[d].idx : files' = [files EXCEPT ![d].idx = Without(@, f)]
  BY DEF RemoveFile
<1>2. phase = "up" /\ reply \in Answers
  BY <1>1, Busy
<1>3. /\ RemoveCommand /\ d \notin DOMAIN dbs /\ d \in Databases
      /\ DOMAIN files = DOMAIN dbs \cup {d} /\ d \in DOMAIN files
  BY <1>1, <1>2 DEF IInv, CommandOK, RemoveCommand, ProcessOK
<1>4. SoundDirectory(files[d])
  BY <1>3 DEF IInv, DiskOK
<1>5. /\ DOMAIN files' = DOMAIN files
      /\ \A e \in DOMAIN files \ {d} : files'[e] = files[e]
      /\ SoundDirectory(files'[d])
      /\ \A t \in DOMAIN files'[d].dat : t \in DOMAIN files[d].dat /\ files'[d].dat[t] = files[d].dat[t]
  <2>1. CASE \E t \in DOMAIN files[d].dat : files' = [files EXCEPT ![d].dat = Without(@, t)]
    <3>1. PICK t \in DOMAIN files[d].dat : files' = [files EXCEPT ![d].dat = Without(@, t)]
      BY <2>1
    <3> DEFINE dat == Without(files[d].dat, t)
    <3>2. DOMAIN dat = DOMAIN files[d].dat \ {t} /\ \A u \in DOMAIN dat : dat[u] = files[d].dat[u]
      BY WithoutProperties
    <3>3. files' = [files EXCEPT ![d].dat = dat]
      BY <3>1
    <3> HIDE DEF dat
    <3>4. /\ DOMAIN files' = DOMAIN files /\ \A e \in DOMAIN files \ {d} : files'[e] = files[e]
          /\ DOMAIN files'[d] = {"dat", "idx"} /\ files'[d].dat = dat /\ files'[d].idx = files[d].idx
      BY <1>3, <1>4, <3>3 DEF SoundDirectory
    <3> HIDE DEF d
    <3>5. SoundDirectory(files'[d])
      BY <1>4, <3>2, <3>4 DEF SoundDirectory
    <3> QED BY <3>2, <3>4, <3>5
  <2>2. CASE \E f \in DOMAIN files[d].idx : files' = [files EXCEPT ![d].idx = Without(@, f)]
    <3>1. PICK f \in DOMAIN files[d].idx : files' = [files EXCEPT ![d].idx = Without(@, f)]
      BY <2>2
    <3> DEFINE idx == Without(files[d].idx, f)
    <3>2. DOMAIN idx = DOMAIN files[d].idx \ {f} /\ \A g \in DOMAIN idx : idx[g] = files[d].idx[g]
      BY WithoutProperties
    <3>3. files' = [files EXCEPT ![d].idx = idx]
      BY <3>1
    <3> HIDE DEF idx
    <3>4. /\ DOMAIN files' = DOMAIN files /\ \A e \in DOMAIN files \ {d} : files'[e] = files[e]
          /\ DOMAIN files'[d] = {"dat", "idx"} /\ files'[d].idx = idx /\ files'[d].dat = files[d].dat
      BY <1>3, <1>4, <3>3 DEF SoundDirectory
    <3> HIDE DEF d
    <3>5. SoundDirectory(files'[d])
      BY <1>4, <3>2, <3>4 DEF SoundDirectory
    <3> QED BY <3>4, <3>5
  <2> QED BY <1>1, <2>1, <2>2
<1> HIDE DEF d
<1>6. MemoryOK' /\ DiskOK'
  BY <1>1, <1>3, <1>5 DEF IInv, MemoryOK, DiskOK
<1>7. CommandOK'
  BY <1>1, <1>3 DEF CommandOK, RemoveCommand, d
<1>8. ProcessOK'
  <2>1. \A e \in DOMAIN dbs : e \in DOMAIN files \ {d}
    BY <1>3
  <2> QED BY <1>1, <1>2, <1>3, <1>5, <2>1 DEF IInv, ProcessOK, d
<1>9. FilesFollow'
  <2>1. \A e \in Databases, t \in Tables :
           /\ HasFile(e, t)' => HasFile(e, t) /\ files'[e].dat[t] = files[e].dat[t]
           /\ HasFile(e, t) /\ ~HasFile(e, t)' => e = d
           /\ WasCommitted(e, t)' = WasCommitted(e, t) /\ HasTable(e, t)' = HasTable(e, t)
    BY <1>1, <1>5 DEF HasFile, WasCommitted, HasTable
  <2>2. \A t \in Tables : ~HasTable(d, t)
    BY <1>3 DEF HasTable
  <2> QED BY <1>1, <1>2, <2>1, <2>2 DEF IInv, FilesFollow
<1>10. ActiveIsLoaded' /\ FailsOnlyOnIndexedRows'
  BY <1>1, <1>2 DEF IInv, ActiveIsLoaded, FailsOnlyOnIndexedRows
<1> QED BY <1>6, <1>7, <1>8, <1>9, <1>10 DEF IInv

LEMMA RemoveDirectoryStep == ASSUME IInv, RemoveDirectory PROVE IInv'
<1> DEFINE d == cmd.db
<1>1. /\ cmd.pc = "remove" /\ files[d] = EmptyDir /\ files' = Without(files, d)
      /\ cmd' = Saving(DOMAIN dbs) /\ UNCHANGED <<phase, dbs, active, reply, committed>>
  BY DEF RemoveDirectory, Continue
<1>2. phase = "up" /\ reply \in Answers
  BY <1>1, Busy
<1>3. /\ d \notin DOMAIN dbs /\ d \in Databases /\ DOMAIN files = DOMAIN dbs \cup {d}
  BY <1>1, <1>2 DEF IInv, CommandOK, RemoveCommand, ProcessOK
<1> HIDE DEF d
<1>4. DOMAIN files' = DOMAIN files \ {d} /\ \A e \in DOMAIN files \ {d} : files'[e] = files[e]
  BY <1>1, WithoutProperties
<1>5. MemoryOK' /\ DiskOK'
  BY <1>1, <1>4 DEF IInv, MemoryOK, DiskOK
<1>6. CommandOK' /\ cmd'.pc = "save"
  BY <1>1, <1>5, SavingCommand
<1>7. ProcessOK'
  <2>1. DOMAIN files' = DOMAIN dbs /\ \A e \in DOMAIN dbs : files'[e] = files[e]
    BY <1>3, <1>4
  <2> QED BY <1>1, <1>2, <1>6, <2>1 DEF IInv, ProcessOK
<1>8. FilesFollow'
  <2>1. \A t \in Tables : ~HasFile(d, t)
    BY <1>1 DEF HasFile, EmptyDir
  <2>2. \A e \in Databases, t \in Tables :
           /\ HasFile(e, t)' = HasFile(e, t) /\ (HasFile(e, t) => files'[e].dat[t] = files[e].dat[t])
           /\ WasCommitted(e, t)' = WasCommitted(e, t) /\ HasTable(e, t)' = HasTable(e, t)
    BY <1>1, <1>4, <2>1 DEF HasFile, WasCommitted, HasTable
  <2> QED BY <1>1, <1>2, <1>6, <2>2 DEF IInv, FilesFollow
<1>9. ActiveIsLoaded' /\ FailsOnlyOnIndexedRows'
  BY <1>1, <1>2 DEF IInv, ActiveIsLoaded, FailsOnlyOnIndexedRows
<1> QED BY <1>5, <1>6, <1>7, <1>8, <1>9 DEF IInv

-----------------------------------------------------------------------------
(* save_all.                                                                *)

SaveCommands ==
    [pc : {"save"}, left : SUBSET Databases, db : Databases \cup {None}, tables : SUBSET Tables]

LEMMA SavingInProgress ==
    ASSUME IInv, cmd.pc = "save"
    PROVE  /\ SaveCommand /\ cmd \in SaveCommands /\ phase = "up" /\ reply \in Answers
           /\ DOMAIN files = DOMAIN dbs
BY Busy DEF IInv, CommandOK, SaveCommand, SaveCommands, ProcessOK

\* A step of save_all that keeps memory, and of the files all but the .dat
\* files of one database.
LEMMA SavingStep ==
    ASSUME IInv, cmd.pc = "save", cmd'.pc = "save", CommandOK', UNCHANGED <<phase, dbs, active, reply, committed>>,
           NEW d \in DOMAIN dbs, NEW dat, DOMAIN dat \subseteq Tables,
           \A t \in DOMAIN dat : \/ t \in DOMAIN files[d].dat /\ dat[t] = files[d].dat[t]
                                 \/ t \in DOMAIN dbs[d] /\ dat[t] = Image(dbs[d][t]),
           \A t \in DOMAIN files[d].dat \cap DOMAIN dbs[d] : t \in DOMAIN dat,
           DOMAIN files' = DOMAIN files, \A e \in DOMAIN files \ {d} : files'[e] = files[e],
           DOMAIN files'[d] = {"dat", "idx"}, files'[d].dat = dat, files'[d].idx = files[d].idx
    PROVE  IInv'
<1>1. SaveCommand /\ phase = "up" /\ reply \in Answers /\ DOMAIN files = DOMAIN dbs
  BY SavingInProgress
<1>2. SoundDirectory(files[d]) /\ d \in Databases
  BY <1>1 DEF IInv, DiskOK
<1>3. /\ DOMAIN files' = DOMAIN files /\ \A e \in DOMAIN files \ {d} : files'[e] = files[e]
      /\ DOMAIN files'[d] = {"dat", "idx"} /\ files'[d].dat = dat /\ files'[d].idx = files[d].idx
  OBVIOUS
<1>4. SoundDirectory(files'[d])
  <2>1. \A t \in DOMAIN dbs[d] : SoundImage(Image(dbs[d][t]))
    BY ImageSound DEF IInv, MemoryOK
  <2> QED BY <1>2, <1>3, <2>1 DEF SoundDirectory
<1>5. MemoryOK' /\ DiskOK'
  BY <1>3, <1>4 DEF IInv, MemoryOK, DiskOK
<1>6. ProcessOK'
  <2>1. \A e \in DOMAIN dbs : files'[e].idx = files[e].idx
    BY <1>1, <1>3
  <2> QED BY <1>1, <1>3, <2>1 DEF IInv, ProcessOK
<1>7. FilesFollow'
  <2> SUFFICES ASSUME NEW e \in Databases, NEW t \in Tables
               PROVE  /\ HasFile(e, t)' => \/ WasCommitted(e, t) /\ files'[e].dat[t] = committed[e][t]
                                           \/ HasTable(e, t) /\ files'[e].dat[t] = Image(dbs[e][t])
                      /\ WasCommitted(e, t) /\ ~HasFile(e, t)' => ~HasTable(e, t)
    BY DEF FilesFollow, WasCommitted, HasTable
  <2>1. /\ HasFile(e, t) => \/ WasCommitted(e, t) /\ files[e].dat[t] = committed[e][t]
                            \/ HasTable(e, t) /\ files[e].dat[t] = Image(dbs[e][t])
        /\ WasCommitted(e, t) /\ ~HasFile(e, t) => ~HasTable(e, t)
    BY <1>1 DEF IInv, FilesFollow
  <2>2. CASE e # d
    <3>1. HasFile(e, t)' = HasFile(e, t) /\ (HasFile(e, t) => files'[e].dat[t] = files[e].dat[t])
      BY <1>3, <2>2 DEF HasFile
    <3> QED BY <2>1, <3>1
  <2>3. CASE e = d
    <3>1. HasFile(d, t)' = (t \in DOMAIN dat) /\ files'[d].dat = dat
      BY <1>1, <1>3 DEF HasFile
    <3>2. (t \in DOMAIN files[d].dat) = HasFile(d, t) /\ (t \in DOMAIN dbs[d]) = HasTable(d, t)
      BY <1>1 DEF HasFile, HasTable
    <3> QED BY <2>1, <2>3, <3>1, <3>2
  <2> QED BY <2>2, <2>3
<1>8. ActiveIsLoaded' /\ FailsOnlyOnIndexedRows'
  BY <1>1 DEF IInv, ActiveIsLoaded, FailsOnlyOnIndexedRows
<1> QED BY <1>5, <1>6, <1>7, <1>8 DEF IInv

\* A database whose tables are written and whose stale files are gone.
LEMMA WrittenOut ==
    ASSUME IInv, cmd.pc = "save", cmd.tables = {}, Stale(cmd.db) = {}
    PROVE  \A d \in DOMAIN dbs \ cmd.left : SavedAll(d)
<1>1. SaveCommand
  BY SavingInProgress
<1>2. SUFFICES ASSUME cmd.db # None PROVE SavedAll(cmd.db)
  <2>1. \A d \in DOMAIN dbs \ cmd.left : d # cmd.db => SavedAll(d)
    BY <1>1 DEF SaveCommand
  <2>2. cmd.db = None => cmd.db \notin DOMAIN dbs
    BY NamesAssumption DEF IInv, MemoryOK
  <2> QED BY <1>2, <2>1, <2>2
<1>3. \A t \in DOMAIN dbs[cmd.db] : HasFile(cmd.db, t) /\ files[cmd.db].dat[t] = Image(dbs[cmd.db][t])
  BY <1>1, <1>2 DEF SaveCommand
<1>4. DOMAIN files[cmd.db].dat \subseteq DOMAIN dbs[cmd.db]
  BY <1>2 DEF Stale
<1> QED BY <1>3, <1>4 DEF SavedAll, HasFile

LEMMA SaveDatabaseStep == ASSUME IInv, SaveDatabase PROVE IInv'
<1>1. PICK d \in cmd.left :
        /\ MakeDirectory(d)
        /\ Continue([cmd EXCEPT !.left = @ \ {d}, !.db = d, !.tables = DOMAIN dbs[d]])
  BY DEF SaveDatabase
<1>2. cmd.pc = "save" /\ cmd.tables = {} /\ Stale(cmd.db) = {} /\ UNCHANGED <<phase, dbs, active, committed>>
  BY DEF SaveDatabase
<1>3. /\ SaveCommand /\ cmd \in SaveCommands /\ phase = "up" /\ reply \in Answers
      /\ DOMAIN files = DOMAIN dbs /\ d \in DOMAIN dbs
  BY <1>2, SavingInProgress DEF SaveCommand
<1>4. SoundDirectory(files[d]) /\ d \in Databases /\ DOMAIN dbs[d] \subseteq Tables
  BY <1>3 DEF IInv, DiskOK, MemoryOK
<1>5. \A e \in DOMAIN dbs \ cmd.left : SavedAll(e)
  BY <1>2, WrittenOut
<1>6. cmd' = [cmd EXCEPT !.left = cmd.left \ {d}, !.db = d, !.tables = DOMAIN dbs[d]] /\ reply' = reply
  BY <1>1 DEF Continue
<1>7. /\ cmd' \in SaveCommands
      /\ cmd'.pc = "save" /\ cmd'.left = cmd.left \ {d} /\ cmd'.db = d /\ cmd'.tables = DOMAIN dbs[d]
  BY <1>3, <1>4, <1>6 DEF SaveCommands
<1>8. files' = files
  BY <1>1, <1>3 DEF MakeDirectory
<1>9. SaveCommand'
  <2>1. \A e \in DOMAIN dbs : SavedAll(e)' = SavedAll(e)
    BY <1>2, <1>8 DEF SavedAll
  <2>2. d # None
    BY <1>4, NamesAssumption
  <2>3. cmd.left \subseteq DOMAIN dbs
    BY <1>3 DEF SaveCommand
  <2> QED BY <1>2, <1>3, <1>5, <1>7, <2>1, <2>2, <2>3 DEF SaveCommand, SaveCommands
<1>10. CommandOK'
  BY <1>7, <1>9 DEF CommandOK
<1>11. DOMAIN files[d].dat \subseteq Tables /\ DOMAIN files[d] = {"dat", "idx"}
  BY <1>4 DEF SoundDirectory
<1> QED BY <1>2, <1>3, <1>6, <1>7, <1>8, <1>10, <1>11, SavingStep

LEMMA RemoveStaleStep == ASSUME IInv, RemoveStale PROVE IInv'
<1>1. PICK t \in Stale(cmd.db) : files' = [files EXCEPT ![cmd.db].dat = Without(@, t)]
  BY DEF RemoveStale
<1>2. cmd.pc = "save" /\ UNCHANGED <<phase, dbs, active, cmd, reply, committed>>
  BY DEF RemoveStale
<1>3. SaveCommand /\ DOMAIN files = DOMAIN dbs
  BY <1>2, SavingInProgress
<1> DEFINE d == cmd.db
           dat == Without(files[d].dat, t)
<1>4. d # None /\ t \in DOMAIN files[d].dat \ DOMAIN dbs[d]
  BY <1>1 DEF Stale
<1>5. d \in DOMAIN dbs
  BY <1>3, <1>4 DEF SaveCommand
<1>6. DOMAIN dat = DOMAIN files[d].dat \ {t} /\ \A u \in DOMAIN dat : dat[u] = files[d].dat[u]
  BY WithoutProperties
<1>7. files' = [files EXCEPT ![d].dat = dat]
  BY <1>1
<1> HIDE DEF dat
<1>8. SoundDirectory(files[d])
  BY <1>3, <1>5 DEF IInv, DiskOK
<1>9. /\ DOMAIN files' = DOMAIN files /\ \A e \in DOMAIN files \ {d} : files'[e] = files[e]
      /\ DOMAIN files'[d] = {"dat", "idx"} /\ files'[d].dat = dat /\ files'[d].idx = files[d].idx
  BY <1>3, <1>5, <1>7, <1>8 DEF SoundDirectory
<1>10. SaveCommand'
  <2>1. \A e \in DOMAIN dbs : e # d => SavedAll(e)' = SavedAll(e)
    BY <1>2, <1>3, <1>9 DEF SavedAll
  <2>2. \A u \in DOMAIN dbs[d] : HasFile(d, u) => HasFile(d, u)' /\ files'[d].dat[u] = files[d].dat[u]
    BY <1>2, <1>4, <1>6, <1>9 DEF HasFile
  <2> QED BY <1>2, <1>3, <2>1, <2>2 DEF SaveCommand
<1>11. CommandOK'
  BY <1>2, <1>10 DEF CommandOK
<1>12. /\ DOMAIN dat \subseteq Tables
       /\ \A u \in DOMAIN files[d].dat \cap DOMAIN dbs[d] : u \in DOMAIN dat
       /\ \A u \in DOMAIN dat : u \in DOMAIN files[d].dat /\ dat[u] = files[d].dat[u]
  BY <1>4, <1>6, <1>8 DEF SoundDirectory
<1> HIDE DEF d
<1> QED BY <1>2, <1>5, <1>9, <1>11, <1>12, SavingStep

LEMMA SaveTableStep == ASSUME IInv, SaveTable PROVE IInv'
<1>1. PICK t \in cmd.tables :
        /\ files' = [files EXCEPT ![cmd.db].dat = With(@, t, Image(dbs[cmd.db][t]))]
        /\ Continue([cmd EXCEPT !.tables = @ \ {t}])
  BY DEF SaveTable
<1>2. cmd.pc = "save" /\ UNCHANGED <<phase, dbs, active, committed>>
  BY DEF SaveTable
<1>3. SaveCommand /\ cmd \in SaveCommands /\ DOMAIN files = DOMAIN dbs
  BY <1>2, SavingInProgress
<1> DEFINE d == cmd.db
           dat == With(files[d].dat, t, Image(dbs[d][t]))
<1>4. d # None /\ d \in DOMAIN dbs /\ t \in DOMAIN dbs[d]
  BY <1>3 DEF SaveCommand
<1>5. /\ DOMAIN dat = DOMAIN files[d].dat \cup {t} /\ dat[t] = Image(dbs[d][t])
      /\ \A u \in DOMAIN files[d].dat \ {t} : dat[u] = files[d].dat[u]
  BY DEF With
<1>6. files' = [files EXCEPT ![d].dat = dat]
  BY <1>1
<1>7. cmd' = [cmd EXCEPT !.tables = cmd.tables \ {t}] /\ reply' = reply
  BY <1>1 DEF Continue
<1> HIDE DEF dat
<1>8. SoundDirectory(files[d])
  BY <1>3, <1>4 DEF IInv, DiskOK
<1>9. /\ DOMAIN files' = DOMAIN files /\ \A e \in DOMAIN files \ {d} : files'[e] = files[e]
      /\ DOMAIN files'[d] = {"dat", "idx"} /\ files'[d].dat = dat /\ files'[d].idx = files[d].idx
  BY <1>3, <1>4, <1>6, <1>8 DEF SoundDirectory
<1>10. /\ cmd' \in SaveCommands
       /\ cmd'.pc = "save" /\ cmd'.left = cmd.left /\ cmd'.db = cmd.db /\ cmd'.tables = cmd.tables \ {t}
  BY <1>3, <1>7 DEF SaveCommands
<1>11. SaveCommand'
  <2>1. \A e \in DOMAIN dbs : e # d => SavedAll(e)' = SavedAll(e)
    BY <1>2, <1>3, <1>9 DEF SavedAll
  <2>2. \A u \in DOMAIN dbs[d] : u # t /\ HasFile(d, u) => HasFile(d, u)' /\ files'[d].dat[u] = files[d].dat[u]
    BY <1>5, <1>9, <1>10 DEF HasFile
  <2>3. HasFile(d, t)' /\ files'[d].dat[t] = Image(dbs[d][t])
    BY <1>3, <1>4, <1>5, <1>9, <1>10 DEF HasFile
  <2> QED BY <1>2, <1>3, <1>4, <1>10, <2>1, <2>2, <2>3 DEF SaveCommand, SaveCommands
<1>12. CommandOK'
  BY <1>10, <1>11 DEF CommandOK
<1>13. DOMAIN dat \subseteq Tables
  BY <1>4, <1>5, <1>8 DEF SoundDirectory, IInv, MemoryOK
<1>14. \A u \in DOMAIN dat : \/ u \in DOMAIN files[d].dat /\ dat[u] = files[d].dat[u]
                             \/ u \in DOMAIN dbs[d] /\ dat[u] = Image(dbs[d][u])
  BY <1>4, <1>5
<1>15. \A u \in DOMAIN files[d].dat \cap DOMAIN dbs[d] : u \in DOMAIN dat
  BY <1>5
<1> HIDE DEF d
<1> QED BY <1>2, <1>4, <1>7, <1>9, <1>10, <1>12, <1>13, <1>14, <1>15, SavingStep

LEMMA SavedStep == ASSUME IInv, Saved PROVE IInv'
<1>1. /\ cmd.pc = "save" /\ cmd.left = {} /\ cmd.tables = {} /\ Stale(cmd.db) = {}
      /\ committed' = Images /\ Finish("ok") /\ UNCHANGED <<phase, dbs, active, files>>
  BY DEF Saved
<1>2. phase = "up" /\ DOMAIN files = DOMAIN dbs
  BY <1>1, SavingInProgress
<1>3. CommandOK' /\ cmd'.pc = "idle" /\ reply' \in {"none", "ok", "error"}
  BY <1>1, FinishOK DEF Answers
<1>4. MemoryOK' /\ DiskOK'
  BY <1>1 DEF IInv, MemoryOK, DiskOK
<1>5. ProcessOK'
  BY <1>1, <1>2, <1>3 DEF IInv, ProcessOK
<1>6. \A d \in DOMAIN dbs : SavedAll(d)
  BY <1>1, WrittenOut
<1>7. FilesFollow'
  <2> SUFFICES ASSUME NEW d \in Databases, NEW t \in Tables
               PROVE  /\ HasFile(d, t) => WasCommitted(d, t)' /\ files[d].dat[t] = committed'[d][t]
                      /\ WasCommitted(d, t)' => HasFile(d, t)
    BY <1>1 DEF FilesFollow, WasCommitted, HasFile
  <2>1. /\ DOMAIN committed' = DOMAIN dbs
        /\ \A e \in DOMAIN dbs : DOMAIN committed'[e] = DOMAIN dbs[e]
        /\ \A e \in DOMAIN dbs : \A u \in DOMAIN dbs[e] : committed'[e][u] = Image(dbs[e][u])
    BY <1>1 DEF Images
  <2> QED BY <1>2, <1>6, <2>1 DEF SavedAll, WasCommitted, HasFile
<1>8. ActiveIsLoaded' /\ FailsOnlyOnIndexedRows'
  BY <1>1, <1>2 DEF IInv, ActiveIsLoaded, FailsOnlyOnIndexedRows
<1> QED BY <1>3, <1>4, <1>5, <1>7, <1>8 DEF IInv

-----------------------------------------------------------------------------
(* The process.                                                             *)

LEMMA StartStep == ASSUME IInv, Start PROVE IInv'
<1> DEFINE todo == {at \in Places : HasFile(at[1], at[2]) /\ at[3] \in IndexedColumns(files[at[1]].dat[at[2]].schema)}
<1>1. /\ phase \in {"down", "failed"} /\ phase' = "up"
      /\ dbs' = [d \in DOMAIN files |-> [t \in DOMAIN files[d].dat |-> Loaded(files[d].dat[t])]]
      /\ cmd' = Attaching(todo, "serve")
      /\ committed' = [d \in DOMAIN files |-> files[d].dat]
      /\ UNCHANGED <<active, files, reply>>
  BY DEF Start, Places
<1>2. active = None /\ reply \in {"none", "ok", "error"}
  BY <1>1 DEF IInv, ProcessOK
<1>3. /\ DOMAIN dbs' = DOMAIN files /\ \A d \in DOMAIN files : DOMAIN dbs'[d] = DOMAIN files[d].dat
      /\ \A d \in DOMAIN files : \A t \in DOMAIN files[d].dat : dbs'[d][t] = Loaded(files[d].dat[t])
  BY <1>1
<1>4. \A d \in DOMAIN files : \A t \in DOMAIN files[d].dat : SoundImage(files[d].dat[t])
  BY DEF IInv, DiskOK, SoundDirectory
<1>5. \A d \in DOMAIN files : \A t \in DOMAIN files[d].dat :
         /\ SoundTable(dbs'[d][t]) /\ dbs'[d][t].indexes = {}
         /\ dbs'[d][t].schema = files[d].dat[t].schema
         /\ Image(dbs'[d][t]) = files[d].dat[t]
  <2> SUFFICES ASSUME NEW d \in DOMAIN files, NEW t \in DOMAIN files[d].dat
               PROVE  /\ SoundTable(dbs'[d][t]) /\ dbs'[d][t].indexes = {}
                      /\ dbs'[d][t].schema = files[d].dat[t].schema
                      /\ Image(dbs'[d][t]) = files[d].dat[t]
    OBVIOUS
  <2> DEFINE image == files[d].dat[t]
             table == dbs'[d][t]
  <2>1. SoundImage(image) /\ table = Loaded(image)
    BY <1>3, <1>4
  <2> HIDE DEF image, table
  <2>2. /\ SoundTable(table) /\ table.indexes = {} /\ table.order = image.order
        /\ table.schema = image.schema /\ table.rows = image.rows
    BY <2>1, LoadedSound
  <2>3. image = Image(image)
    BY <2>1 DEF SoundImage
  <2>4. Image(table) = image
    BY <2>2, <2>3 DEF Image
  <2> QED BY <2>2, <2>4 DEF image, table
<1>6. MemoryOK' /\ DiskOK'
  <2>1. files' = files /\ DOMAIN files \subseteq Databases
    BY <1>1 DEF IInv, DiskOK
  <2>2. DiskOK'
    BY <2>1 DEF IInv, DiskOK, SoundDirectory
  <2>3. \A d \in DOMAIN files : DOMAIN files[d].dat \subseteq Tables
    BY DEF IInv, DiskOK, SoundDirectory
  <2>4. MemoryOK'
    BY <1>3, <1>5, <2>1, <2>3 DEF MemoryOK
  <2> QED BY <2>2, <2>4
<1>7. \A at \in todo : /\ at[1] \in DOMAIN files /\ at[2] \in DOMAIN files[at[1]].dat
                       /\ at[3] \in IndexedColumns(files[at[1]].dat[at[2]].schema)
  BY DEF HasFile
<1>8. todo \subseteq Places
  OBVIOUS
<1> HIDE DEF todo
<1>9. /\ cmd' \in AttachCommands
      /\ cmd'.pc = "attach" /\ cmd'.todo = todo /\ cmd'.then = "serve" /\ cmd'.ids = <<>>
  BY <1>1, <1>8, EmptySeq DEF Attaching, AttachCommands
<1>10. AttachCommand'
  <2>1. \A at \in todo : IsIndexed(at)'
    BY <1>3, <1>5, <1>7 DEF IsIndexed, HasTable, Schema
  <2>2. \A d \in DOMAIN dbs' : SavedAll(d)'
    BY <1>1, <1>3, <1>5 DEF SavedAll
  <2> QED BY <1>1, <1>2, <1>9, <2>1, <2>2 DEF AttachCommand, AttachCommands
<1>11. CommandOK'
  BY <1>9, <1>10 DEF CommandOK
<1>12. ProcessOK'
  <2>1. \A d \in DOMAIN dbs' : \A t \in DOMAIN dbs'[d] : dbs'[d][t].indexes = {}
    BY <1>3, <1>5
  <2>2. DOMAIN files' = DOMAIN dbs' \cup {}
    BY <1>1, <1>3
  <2>3. phase' = "up" /\ active' = None /\ reply' \in {"none", "ok", "error"} /\ cmd'.pc = "attach"
    BY <1>1, <1>2, <1>9
  <2> QED BY <2>1, <2>2, <2>3 DEF ProcessOK
<1>13. FilesFollow'
  <2>1. DOMAIN committed' = DOMAIN files /\ \A d \in DOMAIN files : committed'[d] = files[d].dat
    BY <1>1
  <2> QED BY <1>1, <2>1 DEF FilesFollow, HasFile, WasCommitted
<1>14. ActiveIsLoaded' /\ FailsOnlyOnIndexedRows'
  BY <1>1, <1>2 DEF ActiveIsLoaded, FailsOnlyOnIndexedRows
<1> QED BY <1>6, <1>11, <1>12, <1>13, <1>14 DEF IInv

LEMMA CrashStep == ASSUME IInv, Crash PROVE IInv'
<1>1. /\ phase' = "down" /\ dbs' = <<>> /\ active' = None /\ Finish("none") /\ UNCHANGED <<files, committed>>
  BY DEF Crash
<1>2. DOMAIN dbs' = {}
  BY <1>1
<1>3. MemoryOK' /\ DiskOK'
  BY <1>1, <1>2 DEF IInv, MemoryOK, DiskOK
<1>4. ProcessOK'
  BY <1>1, <1>2 DEF ProcessOK, Finish
<1>5. CommandOK'
  BY <1>1, FinishOK DEF Answers
<1>6. FilesFollow' /\ ActiveIsLoaded' /\ FailsOnlyOnIndexedRows'
  BY <1>1 DEF FilesFollow, ActiveIsLoaded, FailsOnlyOnIndexedRows
<1> QED BY <1>3, <1>4, <1>5, <1>6 DEF IInv

LEMMA StutteringStep == ASSUME IInv, UNCHANGED vars PROVE IInv'
<1> USE DEF vars, IInv
<1>1. MemoryOK' /\ DiskOK' /\ ProcessOK'
  BY DEF MemoryOK, DiskOK, ProcessOK
<1>2. CommandOK'
  <2>1. RemoveCommand' = RemoveCommand /\ DeleteCommand' = DeleteCommand
    BY DEF RemoveCommand, DeleteCommand, HasTable, Attached
  <2>2. AttachCommand' = AttachCommand
    BY DEF AttachCommand, IsIndexed, HasIndexFile, SavedAll, HasTable, Schema, Rows
  <2>3. InsertCommand' = InsertCommand
    BY DEF InsertCommand, HasTable, Attached, Rows
  <2>4. UpdateCommand' = UpdateCommand
    BY DEF UpdateCommand, HasTable, Attached, Rows, Schema, Updated
  <2>5. SaveCommand' = SaveCommand
    BY DEF SaveCommand, SavedAll, HasFile
  <2> QED BY <2>1, <2>2, <2>3, <2>4, <2>5 DEF CommandOK
<1>3. FilesFollow' /\ ActiveIsLoaded' /\ FailsOnlyOnIndexedRows'
  <2>1. FilesFollow'
    BY DEF FilesFollow, HasFile, HasTable, WasCommitted, IndexFile
  <2>2. ActiveIsLoaded'
    BY DEF ActiveIsLoaded
  <2>3. FailsOnlyOnIndexedRows'
    BY DEF FailsOnlyOnIndexedRows, HasFile, HasTable, IndexFile
  <2> QED BY <2>1, <2>2, <2>3
<1> QED BY <1>1, <1>2, <1>3

LEMMA CatalogueStep == ASSUME IInv, Catalogue PROVE IInv'
<1>1. CASE Refuse
  BY <1>1, RefuseStep
<1>2. CASE \E d \in Databases : CreateDatabase(d) \/ DropDatabase(d) \/ UseDatabase(d)
  BY <1>2, CreateDatabaseStep, DropDatabaseStep, UseDatabaseStep
<1>3. CASE \E x \in Databases \cup {None}, t \in Tables :
              DropTable(x, t) \/ \E schema \in Schemas : CreateTable(x, t, schema)
  BY <1>3, DropTableStep, CreateTableStep
<1>4. CASE RemoveFile \/ RemoveDirectory
  BY <1>4, RemoveFileStep, RemoveDirectoryStep
<1>5. CASE CreateIndexFile \/ WriteFirstPage \/ OpenIndex \/ OpenThrows
  BY <1>5, CreateIndexFileStep, WriteFirstPageStep, OpenIndexStep, OpenThrowsStep
<1>6. CASE RebuildRow \/ RebuildThrows \/ TableCreated
  BY <1>6, RebuildRowStep, RebuildThrowsStep, TableCreatedStep
<1> QED BY <1>1, <1>2, <1>3, <1>4, <1>5, <1>6 DEF Catalogue

LEMMA RowCommandsStep == ASSUME IInv, RowCommands PROVE IInv'
<1>1. CASE \E x \in Databases \cup {None}, t \in Tables :
              \/ \E rows \in RowLists : BeginInsert(x, t, rows)
              \/ \E w \in Wheres : Select(x, t, w) \/ ReadThrows(x, t, w) \/ BeginDelete(x, t, w)
              \/ \E w \in Wheres, sets \in SetLists : BeginUpdate(x, t, w, sets)
  BY <1>1, BeginInsertStep, SelectStep, ReadThrowsStep, BeginDeleteStep, BeginUpdateStep
<1>2. CASE InsertRow \/ InsertRejected \/ IndexRow \/ IndexThrows \/ RowsInserted
  BY <1>2, InsertRowStep, InsertRejectedStep, IndexRowStep, IndexThrowsStep, RowsInsertedStep
<1>3. CASE MeetRow \/ UpdatePlain \/ UpdateErasesKey \/ UpdateInsertsKey
  BY <1>3, MeetRowStep, UpdatePlainStep, UpdateErasesKeyStep, UpdateInsertsKeyStep
<1>4. CASE UpdateThrows \/ UpdateRejected \/ RowsUpdated
  BY <1>4, UpdateThrowsStep, UpdateRejectedStep, RowsUpdatedStep
<1>5. CASE DeleteKey \/ DeleteRow \/ EraseThrows \/ RowsDeleted
  BY <1>5, DeleteKeyStep, DeleteRowStep, EraseThrowsStep, RowsDeletedStep
<1> QED BY <1>1, <1>2, <1>3, <1>4, <1>5 DEF RowCommands

LEMMA SavesStep == ASSUME IInv, Saves PROVE IInv'
BY SaveDatabaseStep, RemoveStaleStep, SaveTableStep, SavedStep DEF Saves

LEMMA NextIInv == IInv /\ [Next]_vars => IInv'
<1> SUFFICES ASSUME IInv, [Next]_vars PROVE IInv'
  OBVIOUS
<1>1. CASE Start \/ Serve \/ Crash
  BY <1>1, StartStep, ServeStep, CrashStep
<1>2. CASE Catalogue
  BY <1>2, CatalogueStep
<1>3. CASE RowCommands
  BY <1>3, RowCommandsStep
<1>4. CASE Saves
  BY <1>4, SavesStep
<1>5. CASE UNCHANGED vars
  BY <1>5, StutteringStep
<1> QED BY <1>1, <1>2, <1>3, <1>4, <1>5 DEF Next, Run

-----------------------------------------------------------------------------
(* What holds of every behaviour, with kills at every step.                 *)

LEMMA Invariance == CrashSpec => []IInv
<1>1. Init => IInv
  BY InitIInv
<1>2. IInv /\ [Next]_vars => IInv'
  BY NextIInv
<1> QED BY <1>1, <1>2, PTL DEF CrashSpec

\* Memory, files and the command in progress keep their shape, and a command
\* only works on a table that is there (DbmsQueryEngine::execute).
THEOREM TypeCorrect == CrashSpec => []TypeOK
BY Invariance, IInvTypes, PTL

\* rows_, order_ and next_id_ agree in every table at every step, so that an
\* id given to a new row is free: after DELETE, after an INSERT or UPDATE that
\* failed half-way, after a restart (Table::insert, erase and load).
THEOREM RowsStayInOrder == CrashSpec => []RowsInOrder
<1>1. IInv => RowsInOrder
  BY IInvRows
<1> QED BY <1>1, Invariance, PTL

\* No row breaks NOT NULL or its column's type, though DEFAULT bypasses one
\* check and an index file that fits another table may name any row
\* (Table::validate, Table::update).
THEOREM RowsStayLegal == CrashSpec => []RowsFitSchema
<1>1. IInv => RowsFitSchema
  BY IInvRows
<1> QED BY <1>1, Invariance, PTL

\* A kill at any step finds each table file as it was committed or as memory
\* has it, and finds the file of every table both have (Database::save_to,
\* Table::save).
THEOREM CrashFindsOldOrNew == CrashSpec => []FilesOldOrNew
BY Invariance, IInvFiles, PTL

\* USE, DROP DATABASE, a restart and a kill leave no active database that is
\* not loaded (Dbms::drop_database, Dbms::active_db).
THEOREM ActiveDatabaseIsLoaded == CrashSpec => []ActiveIsLoaded
<1>1. IInv => ActiveIsLoaded
  BY DEF IInv
<1> QED BY <1>1, Invariance, PTL

\* A server that does not start has a table with an INDEXED column that holds
\* rows, or an index file without its first page: nothing else stops the
\* constructor (attach_indexes_for_loaded_data).
THEOREM OnlyIndexesStopAStart == CrashSpec => []FailsOnlyOnIndexedRows
<1>1. IInv => FailsOnlyOnIndexedRows
  BY DEF IInv
<1> QED BY <1>1, Invariance, PTL

=============================================================================

----------------------- MODULE StorageEngineRefinement ----------------------
(***************************************************************************)
(* StorageEngine implements TableStore: every step of the program is a     *)
(* step of the tables it promises, or none (CrashSpec => TypedStore!Spec). *)
(***************************************************************************)
EXTENDS StorageEngineProofs

-----------------------------------------------------------------------------
(* The tables of TableStore, in memory and on disk.                         *)

Names == Databases \X Tables

\* What a table is in TableStore.
LEMMA MemoryStoreTables ==
    /\ DOMAIN MemoryStore = {n \in Names : HasTable(n[1], n[2])}
    /\ \A n \in DOMAIN MemoryStore :
          MemoryStore[n] = [schema |-> Schema(n[1], n[2]), rows |-> Rows(n[1], n[2])]
BY DEF MemoryStore, Names

LEMMA SavedStoreTables ==
    /\ DOMAIN SavedStore = {n \in Names : HasFile(n[1], n[2])}
    /\ \A n \in DOMAIN SavedStore :
          SavedStore[n] = [schema |-> files[n[1]].dat[n[2]].schema, rows |-> files[n[1]].dat[n[2]].rows]
BY DEF SavedStore, Names

LEMMA MemoryKept ==
    ASSUME TablesKept
    PROVE  MemoryStore' = MemoryStore
<1>1. \A n \in Names : HasTable(n[1], n[2])' = HasTable(n[1], n[2])
  BY DEF TablesKept, HasTable
<1>2. \A n \in Names : HasTable(n[1], n[2]) =>
         Schema(n[1], n[2])' = Schema(n[1], n[2]) /\ Rows(n[1], n[2])' = Rows(n[1], n[2])
  BY DEF TablesKept, HasTable, Schema, Rows
<1> QED BY <1>1, <1>2 DEF MemoryStore, Names

LEMMA MemorySame ==
    ASSUME UNCHANGED dbs
    PROVE  MemoryStore' = MemoryStore
BY DEF MemoryStore, HasTable, Schema, Rows

\* The table files are the same.
SameTableFiles ==
    DOMAIN files' = DOMAIN files /\ \A d \in DOMAIN files : files'[d].dat = files[d].dat

LEMMA SavedKept ==
    ASSUME SameTableFiles
    PROVE  SavedStore' = SavedStore
<1>1. \A n \in Names : HasFile(n[1], n[2])' = HasFile(n[1], n[2])
  BY DEF SameTableFiles, HasFile
<1>2. \A n \in Names : HasFile(n[1], n[2]) => files'[n[1]].dat[n[2]] = files[n[1]].dat[n[2]]
  BY DEF SameTableFiles, HasFile
<1> QED BY <1>1, <1>2 DEF SavedStore, Names

LEMMA SavedSame ==
    ASSUME UNCHANGED files
    PROVE  SavedStore' = SavedStore
BY SavedKept DEF SameTableFiles

\* Index files are not part of what TableStore promises.
LEMMA IndexFilesAside ==
    ASSUME DiskOK, NEW d, NEW idx, files' = [files EXCEPT ![d].idx = idx]
    PROVE  SavedStore' = SavedStore
<1>1. DOMAIN files' = DOMAIN files /\ \A e \in DOMAIN files : e # d => files'[e] = files[e]
  OBVIOUS
<1>2. d \in DOMAIN files => files'[d].dat = files[d].dat
  BY DEF DiskOK, SoundDirectory
<1> QED BY <1>1, <1>2, SavedKept DEF SameTableFiles

LEMMA KeysAside ==
    ASSUME DiskOK, NEW d, NEW t, NEW c, NEW keys, SetKeys(d, t, c, keys)
    PROVE  SavedStore' = SavedStore
<1>1. files' = [files EXCEPT ![d].idx = [files[d].idx EXCEPT ![<<t, c>>] = [files[d].idx[<<t, c>>] EXCEPT !.keys = keys]]]
  BY DEF SetKeys
<1> QED BY <1>1, IndexFilesAside

\* A step of the program that no one sees in the tables.
LEMMA Unseen ==
    ASSUME UNCHANGED phase, MemoryStore' = MemoryStore, SavedStore' = SavedStore
    PROVE  UNCHANGED TypedStore!vars
BY DEF TypedStore!vars

-----------------------------------------------------------------------------
(* Steps that leave the tables alone.                                       *)

LEMMA QuietSteps ==
    ASSUME UNCHANGED <<phase, dbs, files>>
    PROVE  UNCHANGED TypedStore!vars
BY MemorySame, SavedSame, Unseen

LEMMA KeySteps ==
    ASSUME IInv, UNCHANGED <<phase, dbs>>, NEW d, NEW t, NEW c, \E keys : SetKeys(d, t, c, keys)
    PROVE  UNCHANGED TypedStore!vars
<1>1. DiskOK
  BY DEF IInv
<1> QED BY <1>1, KeysAside, MemorySame, Unseen

LEMMA IndexRowUnseen == ASSUME IInv, IndexRow \/ IndexThrows PROVE UNCHANGED TypedStore!vars
<1>1. UNCHANGED <<phase, dbs>> /\ \E c \in cmd.cols : \E keys : SetKeys(cmd.db, cmd.table, c, keys)
  BY DEF IndexRow, IndexThrows
<1> QED BY <1>1, KeySteps

LEMMA UpdateKeyUnseen == ASSUME IInv, UpdateErasesKey \/ UpdateThrows PROVE UNCHANGED TypedStore!vars
<1>1. UNCHANGED <<phase, dbs>> /\ \E keys : SetKeys(cmd.db, cmd.table, Head(cmd.todo).col, keys)
  BY DEF UpdateErasesKey, UpdateThrows
<1> QED BY <1>1, KeySteps

LEMMA DeleteKeyUnseen == ASSUME IInv, DeleteKey PROVE UNCHANGED TypedStore!vars
<1>1. UNCHANGED <<phase, dbs>> /\ \E c \in cmd.cols : \E keys : SetKeys(cmd.db, cmd.table, c, keys)
  BY DEF DeleteKey
<1> QED BY <1>1, KeySteps

LEMMA RebuildRowUnseen == ASSUME IInv, RebuildRow PROVE UNCHANGED TypedStore!vars
<1>1. UNCHANGED <<phase, dbs>> /\ \E keys : SetKeys(cmd.at[1], cmd.at[2], cmd.at[3], keys)
  BY DEF RebuildRow
<1> QED BY <1>1, KeySteps

LEMMA IndexFileUnseen == ASSUME IInv, CreateIndexFile \/ WriteFirstPage PROVE UNCHANGED TypedStore!vars
<1>1. UNCHANGED <<phase, dbs>> /\ \E d, idx : files' = [files EXCEPT ![d].idx = idx]
  <2>1. CASE CreateIndexFile
    BY <2>1 DEF CreateIndexFile
  <2>2. CASE WriteFirstPage
    <3> DEFINE d == cmd.at[1]
               f == <<cmd.at[2], cmd.at[3]>>
               kind == Schema(d, cmd.at[2])[cmd.at[3]].type
    <3>1. files' = [files EXCEPT ![d].idx = [files[d].idx EXCEPT ![f] = [files[d].idx[f] EXCEPT !.kind = kind]]]
      BY <2>2 DEF WriteFirstPage
    <3>2. UNCHANGED <<phase, dbs>>
      BY <2>2 DEF WriteFirstPage
    <3> QED BY <3>1, <3>2
  <2> QED BY <2>1, <2>2
<1>2. SavedStore' = SavedStore
  BY <1>1, IndexFilesAside DEF IInv
<1> QED BY <1>1, <1>2, MemorySame, Unseen

LEMMA OpenIndexUnseen == ASSUME IInv, OpenIndex PROVE UNCHANGED TypedStore!vars
<1>1. PICK at \in Waiting(TRUE) : dbs' = [dbs EXCEPT ![at[1]][at[2]].indexes = @ \cup {at[3]}]
  BY DEF OpenIndex
<1>2. cmd.pc = "attach" /\ UNCHANGED <<phase, files>>
  BY DEF OpenIndex
<1>3. at \in Places /\ IsIndexed(at)
  BY <1>2, AttachingCommand DEF Waiting, AttachCommand
<1> DEFINE d == at[1]
           t == at[2]
           table == dbs[d][t]
           new == [table EXCEPT !.indexes = @ \cup {at[3]}]
<1>4. /\ d \in DOMAIN dbs /\ t \in DOMAIN dbs[d]
      /\ SoundTable(table) /\ at[3] \in IndexedColumns(table.schema)
  BY <1>2, <1>3, PlaceToIndex
<1>5. new.schema = table.schema /\ new.rows = table.rows /\ new.order = table.order
  BY <1>4, IndexedTable
<1>6. dbs' = [dbs EXCEPT ![d] = [dbs[d] EXCEPT ![t] = new]]
  BY <1>1
<1> HIDE DEF new
<1>7. TablesKept
  BY <1>4, <1>5, <1>6 DEF TablesKept
<1> QED BY <1>2, <1>7, MemoryKept, SavedSame, Unseen

LEMMA CreateDatabaseUnseen ==
    ASSUME IInv, NEW d, CreateDatabase(d)
    PROVE  UNCHANGED TypedStore!vars
<1>1. /\ phase' = phase /\ d \notin DOMAIN dbs /\ dbs' = With(dbs, d, <<>>) /\ MakeDirectory(d) /\ Serving
  BY DEF CreateDatabase
<1>2. d \notin DOMAIN files
  BY <1>1, IdleFiles
<1>3. /\ DOMAIN dbs' = DOMAIN dbs \cup {d} /\ DOMAIN dbs'[d] = {}
      /\ \A e \in DOMAIN dbs : dbs'[e] = dbs[e]
  BY <1>1 DEF With
<1>4. /\ DOMAIN files' = DOMAIN files \cup {d} /\ DOMAIN files'[d].dat = {}
      /\ \A e \in DOMAIN files : files'[e] = files[e]
  BY <1>1, <1>2 DEF MakeDirectory, With, EmptyDir
<1>5. \A n \in Names : HasTable(n[1], n[2])' = HasTable(n[1], n[2])
                       /\ (HasTable(n[1], n[2]) => dbs'[n[1]] = dbs[n[1]])
  BY <1>1, <1>3 DEF HasTable
<1>6. \A n \in Names : HasFile(n[1], n[2])' = HasFile(n[1], n[2])
                       /\ (HasFile(n[1], n[2]) => files'[n[1]] = files[n[1]])
  BY <1>2, <1>4 DEF HasFile
<1>7. MemoryStore' = MemoryStore
  BY <1>5 DEF MemoryStore, Names, Schema, Rows
<1>8. SavedStore' = SavedStore
  BY <1>6 DEF SavedStore, Names
<1> QED BY <1>1, <1>7, <1>8, Unseen

LEMMA RemoveDirectoryUnseen == ASSUME IInv, RemoveDirectory PROVE UNCHANGED TypedStore!vars
<1>1. /\ files[cmd.db] = EmptyDir /\ files' = Without(files, cmd.db) /\ UNCHANGED <<phase, dbs>>
  BY DEF RemoveDirectory
<1>2. DOMAIN files' = DOMAIN files \ {cmd.db} /\ \A e \in DOMAIN files \ {cmd.db} : files'[e] = files[e]
  BY <1>1, WithoutProperties
<1>3. DOMAIN files[cmd.db].dat = {}
  BY <1>1 DEF EmptyDir
<1>4. \A n \in Names : HasFile(n[1], n[2])' = HasFile(n[1], n[2])
                       /\ (HasFile(n[1], n[2]) => files'[n[1]] = files[n[1]])
  BY <1>2, <1>3 DEF HasFile
<1>5. SavedStore' = SavedStore
  BY <1>4 DEF SavedStore, Names
<1> QED BY <1>1, <1>5, MemorySame, Unseen

LEMMA SaveDatabaseUnseen == ASSUME IInv, SaveDatabase PROVE UNCHANGED TypedStore!vars
<1>1. PICK d \in cmd.left : MakeDirectory(d)
  BY DEF SaveDatabase
<1>2. cmd.pc = "save" /\ UNCHANGED <<phase, dbs>>
  BY DEF SaveDatabase
<1>3. d \in DOMAIN files
  BY <1>2, SavingInProgress DEF SaveCommand
<1> QED BY <1>1, <1>2, <1>3, QuietSteps DEF MakeDirectory

-----------------------------------------------------------------------------
(* The process.                                                             *)

LEMMA StoreInit == Init => TypedStore!Init
<1> SUFFICES ASSUME Init PROVE TypedStore!Init
  OBVIOUS
<1>1. phase # "up" /\ DOMAIN dbs = {} /\ DOMAIN files = {}
  BY DEF Init
<1>2. MemoryStore = <<>>
  BY <1>1 DEF MemoryStore, HasTable
<1>3. SavedStore = <<>>
  BY <1>1 DEF SavedStore, HasFile
<1> QED BY <1>1, <1>2, <1>3 DEF TypedStore!Init

LEMMA CrashStops == ASSUME IInv, Crash PROVE TypedStore!Next
<1>1. phase = "up" /\ phase' = "down" /\ DOMAIN dbs' = {} /\ files' = files
  BY DEF Crash
<1>2. MemoryStore' = <<>>
  BY <1>1 DEF MemoryStore, HasTable
<1>3. SavedStore' = SavedStore
  BY <1>1 DEF SavedStore, HasFile
<1>4. TypedStore!Stop
  BY <1>1, <1>2, <1>3 DEF TypedStore!Stop
<1> QED BY <1>4 DEF TypedStore!Next

\* A constructor that throws stops as a kill does.
LEMMA FailureStops ==
    ASSUME IInv, RebuildThrows \/ OpenThrows
    PROVE  TypedStore!Next \/ UNCHANGED TypedStore!vars
<1>1. cmd.pc = "attach"
  BY DEF RebuildThrows, OpenThrows
<1>2. phase = "up"
  BY <1>1, AttachingCommand
<1>3. CASE UNCHANGED <<phase, dbs, files>>
  BY <1>3, QuietSteps
<1>4. CASE ~UNCHANGED <<phase, dbs, files>>
  <2>1. phase' = "failed" /\ DOMAIN dbs' = {}
    <3>1. CASE RebuildThrows
      BY <3>1 DEF RebuildThrows
    <3>2. CASE OpenThrows
      BY <1>4, <3>2 DEF OpenThrows
    <3> QED BY <3>1, <3>2
  <2>2. MemoryStore' = <<>>
    BY <2>1 DEF MemoryStore, HasTable
  <2>3. SavedStore' = SavedStore
    <3>1. CASE RebuildThrows
      <4>1. \E keys : SetKeys(cmd.at[1], cmd.at[2], cmd.at[3], keys)
        BY <3>1 DEF RebuildThrows
      <4> QED BY <4>1, KeysAside DEF IInv
    <3>2. CASE OpenThrows
      BY <3>2, SavedSame DEF OpenThrows
    <3> QED BY <3>1, <3>2
  <2>4. TypedStore!Stop
    BY <1>2, <2>1, <2>2, <2>3 DEF TypedStore!Stop
  <2> QED BY <2>4 DEF TypedStore!Next
<1> QED BY <1>3, <1>4

LEMMA StartRestores == ASSUME IInv, Start PROVE TypedStore!Next
<1>1. /\ phase # "up" /\ phase' = "up" /\ files' = files
      /\ dbs' = [d \in DOMAIN files |-> [t \in DOMAIN files[d].dat |-> Loaded(files[d].dat[t])]]
  BY DEF Start
<1>2. /\ DOMAIN dbs' = DOMAIN files
      /\ \A d \in DOMAIN files : DOMAIN dbs'[d] = DOMAIN files[d].dat
      /\ \A d \in DOMAIN files : \A t \in DOMAIN files[d].dat :
            /\ dbs'[d][t].schema = files[d].dat[t].schema
            /\ dbs'[d][t].rows = files[d].dat[t].rows
  BY <1>1 DEF Loaded
<1>3. \A n \in Names : HasTable(n[1], n[2])' = HasFile(n[1], n[2])
  BY <1>2 DEF HasTable, HasFile
<1>4. \A n \in Names : HasFile(n[1], n[2]) =>
         /\ Schema(n[1], n[2])' = files[n[1]].dat[n[2]].schema
         /\ Rows(n[1], n[2])' = files[n[1]].dat[n[2]].rows
  BY <1>2 DEF Schema, Rows, HasFile
<1>5. MemoryStore' = SavedStore
  BY <1>3, <1>4 DEF MemoryStore, SavedStore, Names
<1>6. SavedStore' = SavedStore
  BY <1>1, SavedSame
<1>7. TypedStore!Start
  BY <1>1, <1>5, <1>6 DEF TypedStore!Start
<1> QED BY <1>7 DEF TypedStore!Next

-----------------------------------------------------------------------------
(* Tables come and go.                                                      *)

LEMMA CreateTableCreates ==
    ASSUME IInv, NEW x, NEW t \in Tables, NEW schema, CreateTable(x, t, schema)
    PROVE  TypedStore!Next
<1> DEFINE d == Resolved(x)
           n == <<d, t>>
<1>1. /\ Serving /\ d \in DOMAIN dbs /\ ~HasTable(d, t)
      /\ dbs' = [dbs EXCEPT ![d] = With(dbs[d], t, EmptyTable(schema))]
      /\ phase = "up" /\ UNCHANGED <<phase, files>>
  BY ServingUp DEF CreateTable
<1>2. d \in Databases /\ n \in Names
  BY <1>1 DEF IInv, MemoryOK, Names
<1> HIDE DEF d
<1>3. /\ DOMAIN dbs' = DOMAIN dbs /\ DOMAIN dbs'[d] = DOMAIN dbs[d] \cup {t}
      /\ dbs'[d][t].rows = <<>>
      /\ \A u \in DOMAIN dbs[d] : u # t => dbs'[d][u] = dbs[d][u]
      /\ \A e \in DOMAIN dbs \ {d} : dbs'[e] = dbs[e]
  BY <1>1 DEF With, EmptyTable
<1>4. \A m \in Names : m = <<m[1], m[2]>>
  BY DEF Names
<1>5. \A m \in Names : /\ HasTable(m[1], m[2])' <=> HasTable(m[1], m[2]) \/ m = n
                       /\ HasTable(m[1], m[2]) => m # n /\ dbs'[m[1]][m[2]] = dbs[m[1]][m[2]]
  BY <1>1, <1>3, <1>4 DEF HasTable
<1>6. n \notin DOMAIN MemoryStore /\ DOMAIN MemoryStore' = DOMAIN MemoryStore \cup {n}
  BY <1>1, <1>2, <1>5 DEF MemoryStore, Names
<1>7. \A m \in DOMAIN MemoryStore : MemoryStore'[m] = MemoryStore[m]
  BY <1>5 DEF MemoryStore, Names, Schema, Rows
<1>8. MemoryStore'[n].rows = <<>>
  BY <1>2, <1>3, <1>5 DEF MemoryStore, Names, Rows
<1>9. SavedStore' = SavedStore
  BY <1>1, SavedSame
<1>10. TypedStore!Create(n)
  BY <1>1, <1>6, <1>7, <1>8, <1>9 DEF TypedStore!Create
<1> QED BY <1>2, <1>10 DEF TypedStore!Next, Names

\* Memory without some of its tables.
LEMMA TablesDropped ==
    ASSUME NEW gone, DOMAIN MemoryStore' = DOMAIN MemoryStore \ gone,
           \A m \in DOMAIN MemoryStore' : MemoryStore'[m] = MemoryStore[m]
    PROVE  MemoryStore' = Restrict(MemoryStore, DOMAIN MemoryStore \ gone)
<1>1. MemoryStore' = [m \in DOMAIN MemoryStore' |-> MemoryStore'[m]]
  BY DEF MemoryStore
<1> QED BY <1>1 DEF Restrict

LEMMA DropTableDrops ==
    ASSUME IInv, NEW x, NEW t \in Tables, DropTable(x, t)
    PROVE  TypedStore!Next
<1> DEFINE d == Resolved(x)
           n == <<d, t>>
<1>1. /\ Serving /\ HasTable(d, t) /\ dbs' = [dbs EXCEPT ![d] = Without(dbs[d], t)]
      /\ phase = "up" /\ UNCHANGED <<phase, files>>
  BY ServingUp DEF DropTable
<1>2. d \in Databases /\ n \in Names
  BY <1>1 DEF IInv, MemoryOK, Names, HasTable
<1> HIDE DEF d
<1>3. /\ DOMAIN Without(dbs[d], t) = DOMAIN dbs[d] \ {t}
      /\ \A u \in DOMAIN dbs[d] \ {t} : Without(dbs[d], t)[u] = dbs[d][u]
  BY WithoutProperties
<1>4. \A m \in Names : m = <<m[1], m[2]>>
  BY DEF Names
<1>5. \A m \in Names : /\ HasTable(m[1], m[2])' <=> HasTable(m[1], m[2]) /\ m # n
                       /\ HasTable(m[1], m[2])' => dbs'[m[1]][m[2]] = dbs[m[1]][m[2]]
  BY <1>1, <1>3, <1>4 DEF HasTable
<1>6. n \in DOMAIN MemoryStore /\ DOMAIN MemoryStore' = DOMAIN MemoryStore \ {n}
  BY <1>1, <1>2, <1>5 DEF MemoryStore, Names
<1>7. \A m \in DOMAIN MemoryStore' : MemoryStore'[m] = MemoryStore[m]
  BY <1>5 DEF MemoryStore, Names, Schema, Rows
<1>8. MemoryStore' = Restrict(MemoryStore, DOMAIN MemoryStore \ {n})
  BY <1>6, <1>7, TablesDropped
<1>9. SavedStore' = SavedStore
  BY <1>1, SavedSame
<1>10. TypedStore!Drop(n)
  BY <1>1, <1>6, <1>8, <1>9 DEF TypedStore!Drop, TypedStore!Restrict, Restrict
<1> QED BY <1>2, <1>10 DEF TypedStore!Next, Names

LEMMA DropDatabaseDrops ==
    ASSUME IInv, NEW d \in Databases, DropDatabase(d)
    PROVE  TypedStore!Next \/ UNCHANGED TypedStore!vars
<1> DEFINE gone == {m \in DOMAIN MemoryStore : m[1] = d}
<1>1. /\ d \in DOMAIN dbs /\ dbs' = Without(dbs, d) /\ phase = "up" /\ UNCHANGED <<phase, files>>
  BY ServingUp DEF DropDatabase
<1>2. DOMAIN dbs' = DOMAIN dbs \ {d} /\ \A e \in DOMAIN dbs \ {d} : dbs'[e] = dbs[e]
  BY <1>1, WithoutProperties
<1>3. \A m \in Names : /\ HasTable(m[1], m[2])' <=> HasTable(m[1], m[2]) /\ m[1] # d
                       /\ HasTable(m[1], m[2])' => dbs'[m[1]][m[2]] = dbs[m[1]][m[2]]
  BY <1>2 DEF HasTable
<1>4. DOMAIN MemoryStore' = DOMAIN MemoryStore \ gone
  BY <1>3 DEF MemoryStore, Names
<1>5. \A m \in DOMAIN MemoryStore' : MemoryStore'[m] = MemoryStore[m]
  BY <1>3 DEF MemoryStore, Names, Schema, Rows
<1>6. SavedStore' = SavedStore
  BY <1>1, SavedSame
<1>7. CASE gone = {}
  <2>1. \A m \in Names : HasTable(m[1], m[2]) => m[1] # d
    BY <1>7 DEF MemoryStore, Names
  <2>2. MemoryStore' = MemoryStore
    BY <1>3, <2>1 DEF MemoryStore, Names, Schema, Rows
  <2> QED BY <1>1, <1>6, <2>2, Unseen
<1>8. CASE gone # {}
  <2>1. PICK n \in DOMAIN MemoryStore : n[1] = d
    BY <1>8
  <2>2. n \in Names /\ gone = {m \in DOMAIN MemoryStore : m[1] = n[1]}
    BY <2>1 DEF MemoryStore, Names
  <2> HIDE DEF gone
  <2>3. MemoryStore' = Restrict(MemoryStore, DOMAIN MemoryStore \ gone)
    BY <1>4, <1>5, TablesDropped
  <2>4. TypedStore!Drop(n)
    BY <1>1, <1>6, <2>2, <2>3 DEF TypedStore!Drop, TypedStore!Restrict, Restrict
  <2> QED BY <2>2, <2>4 DEF TypedStore!Next, Names
<1> QED BY <1>7, <1>8

-----------------------------------------------------------------------------
(* Files come and go.                                                       *)

\* The .dat file of a table that memory no longer has is removed.
LEMMA FileDiscarded ==
    ASSUME IInv, phase = "up", UNCHANGED <<phase, dbs>>, NEW d \in DOMAIN files, NEW t \in DOMAIN files[d].dat,
           ~HasTable(d, t), files' = [files EXCEPT ![d].dat = Without(files[d].dat, t)]
    PROVE  TypedStore!Next
<1> DEFINE n == <<d, t>>
           dat == Without(files[d].dat, t)
<1>1. SoundDirectory(files[d]) /\ n \in Names
  BY DEF IInv, DiskOK, SoundDirectory, Names
<1>2. DOMAIN dat = DOMAIN files[d].dat \ {t} /\ \A u \in DOMAIN dat : dat[u] = files[d].dat[u]
  BY WithoutProperties
<1> HIDE DEF dat
<1>3. DOMAIN files' = DOMAIN files /\ (\A e \in DOMAIN files \ {d} : files'[e] = files[e]) /\ files'[d].dat = dat
  BY <1>1 DEF dat, SoundDirectory
<1>4. \A m \in Names : m = <<m[1], m[2]>>
  BY DEF Names
<1>5. \A m \in Names : /\ HasFile(m[1], m[2])' <=> HasFile(m[1], m[2]) /\ m # n
                       /\ HasFile(m[1], m[2])' => files'[m[1]].dat[m[2]] = files[m[1]].dat[m[2]]
  <2> SUFFICES ASSUME NEW m \in Names
               PROVE  /\ HasFile(m[1], m[2])' <=> HasFile(m[1], m[2]) /\ m # n
                      /\ HasFile(m[1], m[2])' => files'[m[1]].dat[m[2]] = files[m[1]].dat[m[2]]
    OBVIOUS
  <2>1. CASE m[1] # d
    BY <1>3, <2>1 DEF HasFile
  <2>2. CASE m[1] = d
    <3>1. m = n <=> m[2] = t
      BY <1>4, <2>2
    <3> QED BY <1>2, <1>3, <2>2, <3>1 DEF HasFile
  <2> QED BY <2>1, <2>2
<1>6. n \in DOMAIN SavedStore \ DOMAIN MemoryStore /\ DOMAIN SavedStore' = DOMAIN SavedStore \ {n}
  BY <1>1, <1>5 DEF SavedStore, MemoryStore, Names, HasFile
<1>7. \A m \in DOMAIN SavedStore' : SavedStore'[m] = SavedStore[m]
  BY <1>5 DEF SavedStore, Names
<1>8. SavedStore' = [m \in DOMAIN SavedStore' |-> SavedStore'[m]]
  BY DEF SavedStore
<1>9. SavedStore' = Restrict(SavedStore, DOMAIN SavedStore \ {n})
  BY <1>6, <1>7, <1>8 DEF Restrict
<1>10. MemoryStore' = MemoryStore
  BY MemorySame
<1>11. TypedStore!Discard(n)
  BY <1>6, <1>9, <1>10 DEF TypedStore!Discard, TypedStore!Restrict, Restrict
<1> QED BY <1>1, <1>11 DEF TypedStore!Next, Names

LEMMA RemoveFileDiscards ==
    ASSUME IInv, RemoveFile
    PROVE  TypedStore!Next \/ UNCHANGED TypedStore!vars
<1>1. cmd.pc = "remove" /\ UNCHANGED <<phase, dbs>>
  BY DEF RemoveFile
<1>2. phase = "up"
  BY <1>1, Busy
<1>3. cmd.db \in DOMAIN files /\ \A t : ~HasTable(cmd.db, t)
  BY <1>1, <1>2 DEF IInv, ProcessOK, CommandOK, RemoveCommand, HasTable
<1>4. CASE \E t \in DOMAIN files[cmd.db].dat :
              files' = [files EXCEPT ![cmd.db].dat = Without(files[cmd.db].dat, t)]
  BY <1>1, <1>2, <1>3, <1>4, FileDiscarded
<1>5. CASE \E f \in DOMAIN files[cmd.db].idx :
              files' = [files EXCEPT ![cmd.db].idx = Without(files[cmd.db].idx, f)]
  <2>1. SavedStore' = SavedStore
    BY <1>5, IndexFilesAside DEF IInv
  <2> QED BY <1>1, <2>1, MemorySame, Unseen
<1> QED BY <1>4, <1>5 DEF RemoveFile

LEMMA RemoveStaleDiscards == ASSUME IInv, RemoveStale PROVE TypedStore!Next
<1>1. PICK t \in Stale(cmd.db) : files' = [files EXCEPT ![cmd.db].dat = Without(files[cmd.db].dat, t)]
  BY DEF RemoveStale
<1>2. cmd.pc = "save" /\ UNCHANGED <<phase, dbs>>
  BY DEF RemoveStale
<1>3. cmd.db # None /\ t \in DOMAIN files[cmd.db].dat /\ ~HasTable(cmd.db, t)
  BY <1>1 DEF Stale, HasTable
<1>4. phase = "up" /\ cmd.db \in DOMAIN files
  BY <1>2, <1>3, SavingInProgress DEF SaveCommand
<1> QED BY <1>1, <1>2, <1>3, <1>4, FileDiscarded

LEMMA SaveTableSaves == ASSUME IInv, SaveTable PROVE TypedStore!Next
<1>1. PICK t \in cmd.tables : files' = [files EXCEPT ![cmd.db].dat = With(@, t, Image(dbs[cmd.db][t]))]
  BY DEF SaveTable
<1>2. cmd.pc = "save" /\ UNCHANGED <<phase, dbs>>
  BY DEF SaveTable
<1>3. SaveCommand /\ DOMAIN files = DOMAIN dbs /\ phase = "up"
  BY <1>2, SavingInProgress
<1> DEFINE d == cmd.db
           n == <<d, t>>
           dat == With(files[d].dat, t, Image(dbs[d][t]))
<1>4. d # None /\ d \in DOMAIN dbs /\ t \in DOMAIN dbs[d]
  BY <1>3 DEF SaveCommand
<1>5. SoundDirectory(files[d]) /\ d \in Databases /\ t \in Tables
  BY <1>3, <1>4 DEF IInv, DiskOK, MemoryOK
<1>6. files' = [files EXCEPT ![d].dat = dat]
  BY <1>1
<1>7. /\ DOMAIN dat = DOMAIN files[d].dat \cup {t}
      /\ dat[t].schema = dbs[d][t].schema /\ dat[t].rows = dbs[d][t].rows
      /\ \A u \in DOMAIN files[d].dat : u # t => dat[u] = files[d].dat[u]
  BY DEF With, Image
<1> HIDE DEF dat
<1>8. DOMAIN files' = DOMAIN files /\ (\A e \in DOMAIN files \ {d} : files'[e] = files[e]) /\ files'[d].dat = dat
  BY <1>3, <1>4, <1>5, <1>6 DEF SoundDirectory
<1> HIDE DEF d
<1>9. n \in Names /\ HasTable(d, t) /\ \A m \in Names : m = <<m[1], m[2]>>
  BY <1>4, <1>5 DEF Names, HasTable
<1>10. \A m \in Names : /\ HasFile(m[1], m[2])' <=> HasFile(m[1], m[2]) \/ m = n
                        /\ HasFile(m[1], m[2]) /\ m # n => files'[m[1]].dat[m[2]] = files[m[1]].dat[m[2]]
  BY <1>3, <1>4, <1>7, <1>8, <1>9 DEF HasFile
<1>11. n \in DOMAIN MemoryStore /\ DOMAIN SavedStore' = DOMAIN SavedStore \cup {n}
  BY <1>9, <1>10 DEF SavedStore, MemoryStore, Names
<1>12. SavedStore'[n] = MemoryStore[n]
  BY <1>7, <1>8, <1>9, <1>10 DEF SavedStore, MemoryStore, Names, Schema, Rows
<1>13. \A m \in DOMAIN SavedStore : m # n => SavedStore'[m] = SavedStore[m]
  BY <1>10 DEF SavedStore, Names
<1>14. SavedStore' = [m \in DOMAIN SavedStore' |-> SavedStore'[m]]
  BY DEF SavedStore
<1>15. SavedStore' = [m \in DOMAIN SavedStore \cup {n} |-> IF m = n THEN MemoryStore[n] ELSE SavedStore[m]]
  BY <1>11, <1>12, <1>13, <1>14
<1>16. MemoryStore' = MemoryStore
  BY <1>2, MemorySame
<1>17. TypedStore!Save(n)
  BY <1>2, <1>3, <1>11, <1>15, <1>16 DEF TypedStore!Save
<1> QED BY <1>9, <1>17 DEF TypedStore!Next, Names

-----------------------------------------------------------------------------
(* Rows change.                                                             *)

\* One table gets new rows that differ from the old ones at most at id.
LEMMA RowChanged ==
    ASSUME MemoryOK', phase = "up", UNCHANGED phase, SavedStore' = SavedStore,
           NEW d \in DOMAIN dbs, NEW t \in DOMAIN dbs[d], d \in Databases, t \in Tables,
           NEW table, SetTable(d, t, table), table.schema = dbs[d][t].schema,
           NEW id \in RowIds, DOMAIN table.rows \ {id} = DOMAIN dbs[d][t].rows \ {id},
           \A i \in DOMAIN dbs[d][t].rows \ {id} : table.rows[i] = dbs[d][t].rows[i]
    PROVE  TypedStore!Next
<1> DEFINE n == <<d, t>>
<1>1. /\ DOMAIN dbs' = DOMAIN dbs /\ \A e \in DOMAIN dbs : DOMAIN dbs'[e] = DOMAIN dbs[e]
      /\ \A e \in DOMAIN dbs : \A u \in DOMAIN dbs[e] :
            dbs'[e][u] = IF e = d /\ u = t THEN table ELSE dbs[e][u]
  <2>1. dbs' = [dbs EXCEPT ![d] = [dbs[d] EXCEPT ![t] = table]]
    BY DEF SetTable
  <2> QED BY <2>1
<1>2. n \in Names /\ HasTable(d, t) /\ \A m \in Names : m = <<m[1], m[2]>>
  BY DEF Names, HasTable
<1>3. \A m \in Names : /\ HasTable(m[1], m[2])' <=> HasTable(m[1], m[2])
                       /\ HasTable(m[1], m[2]) =>
                             dbs'[m[1]][m[2]] = IF m = n THEN table ELSE dbs[m[1]][m[2]]
  <2> SUFFICES ASSUME NEW m \in Names
               PROVE  /\ HasTable(m[1], m[2])' <=> HasTable(m[1], m[2])
                      /\ HasTable(m[1], m[2]) =>
                            dbs'[m[1]][m[2]] = IF m = n THEN table ELSE dbs[m[1]][m[2]]
    OBVIOUS
  <2>1. m = n <=> m[1] = d /\ m[2] = t
    BY <1>2
  <2> QED BY <1>1, <2>1 DEF HasTable
<1>4. n \in DOMAIN MemoryStore /\ DOMAIN MemoryStore' = DOMAIN MemoryStore
  BY <1>2, <1>3 DEF MemoryStore, Names
<1>5. \A m \in DOMAIN MemoryStore : m # n => MemoryStore'[m] = MemoryStore[m]
  BY <1>3 DEF MemoryStore, Names, Schema, Rows
<1>6. MemoryStore[n] = [schema |-> dbs[d][t].schema, rows |-> dbs[d][t].rows]
  BY <1>2, MemoryStoreTables, <1>4 DEF Schema, Rows
<1>7. MemoryStore'[n] = [schema |-> dbs[d][t].schema, rows |-> table.rows]
  BY <1>2, <1>3, <1>4 DEF MemoryStore, Names, Schema, Rows
<1>8. MemoryStore' = [m \in DOMAIN MemoryStore' |-> MemoryStore'[m]]
      /\ MemoryStore = [m \in DOMAIN MemoryStore |-> MemoryStore[m]]
  BY DEF MemoryStore
<1>9. MemoryStore' = [MemoryStore EXCEPT ![n].rows = MemoryStore'[n].rows]
  <2>1. [MemoryStore[n] EXCEPT !.rows = MemoryStore'[n].rows] = MemoryStore'[n]
    BY <1>6, <1>7
  <2>2. [MemoryStore EXCEPT ![n].rows = MemoryStore'[n].rows]
        = [m \in DOMAIN MemoryStore |-> IF m = n THEN MemoryStore'[n] ELSE MemoryStore[m]]
    BY <1>4, <1>8, <2>1
  <2> QED BY <1>4, <1>5, <1>8, <2>2
<1>10. TypedStore!DiffersAt(id, MemoryStore[n].rows, MemoryStore'[n].rows)
  BY <1>6, <1>7 DEF TypedStore!DiffersAt
<1>11. TypedRows(MemoryStore[n].schema, MemoryStore'[n].rows)
  <2>1. SoundTable(table)
    BY <1>1 DEF MemoryOK
  <2>2. MemoryStore[n].schema = table.schema /\ MemoryStore'[n].rows = table.rows
    BY <1>6, <1>7
  <2> QED BY <2>1, <2>2 DEF SoundTable, Fitting, TypedRows
<1>12. TypedStore!ChangeRow(n, id)
  BY <1>4, <1>9, <1>10, <1>11 DEF TypedStore!ChangeRow
<1> QED BY <1>2, <1>12 DEF TypedStore!Next, Names

LEMMA InsertRowChanges == ASSUME IInv, InsertRow PROVE TypedStore!Next
<1> DEFINE d == cmd.db
           t == cmd.table
           table == dbs[d][t]
           row == RowOf(table.schema, Head(cmd.rows))
           new == [schema |-> table.schema, rows |-> With(table.rows, table.nextId, row),
                   order |-> Append(table.order, table.nextId), nextId |-> table.nextId + 1,
                   indexes |-> table.indexes]
<1>1. cmd.pc = "insert" /\ cmd.rows # <<>> /\ SetTable(d, t, new) /\ UNCHANGED <<phase, files>>
  BY DEF InsertRow
<1>2. InsertCommand /\ phase = "up"
  BY <1>1, Busy DEF IInv, CommandOK
<1>3. /\ d \in DOMAIN dbs /\ t \in DOMAIN dbs[d] /\ d \in Databases /\ t \in Tables /\ SoundTable(table)
  BY <1>2, TableAtHand DEF InsertCommand
<1>4. table.nextId \in RowIds
  <2>1. cmd.rows \in Seq([byColumns : BOOLEAN, given : Given])
    BY <1>2 DEF InsertCommand
  <2>2. Len(cmd.rows) \in Nat \ {0}
    BY <1>1, <2>1, EmptySeq
  <2>3. table.nextId \in 1..(MaxRowId + 1) /\ table.nextId + Len(cmd.rows) <= MaxRowId + 1
    BY <1>2, <1>3 DEF InsertCommand, SoundTable, IsTable
  <2> QED BY <2>2, <2>3, BoundsAssumption DEF RowIds
<1>5. new.schema = table.schema /\ new.rows = With(table.rows, table.nextId, row)
  OBVIOUS
<1>6. /\ DOMAIN new.rows \ {table.nextId} = DOMAIN table.rows \ {table.nextId}
      /\ \A i \in DOMAIN table.rows \ {table.nextId} : new.rows[i] = table.rows[i]
  <2> HIDE DEF new, row
  <2> QED BY <1>5 DEF With
<1>7. MemoryOK'
  BY InsertRowStep DEF IInv
<1>8. SavedStore' = SavedStore
  BY <1>1, SavedSame
<1> HIDE DEF new, row, table, d, t
<1> QED BY <1>1, <1>2, <1>3, <1>4, <1>5, <1>6, <1>7, <1>8, RowChanged DEF table

LEMMA UpdateChanges == ASSUME IInv, UpdatePlain \/ UpdateInsertsKey PROVE TypedStore!Next
<1> DEFINE d == cmd.db
           t == cmd.table
           table == dbs[d][t]
           new == [table EXCEPT !.rows[cmd.id] = Updated(Head(cmd.todo))]
<1>1. cmd.pc = "update" /\ SetTable(d, t, new) /\ UNCHANGED phase
  BY DEF UpdatePlain, UpdateInsertsKey, StoreUpdated
<1>2. /\ UpdateCommand /\ phase = "up" /\ d \in DOMAIN dbs /\ t \in DOMAIN dbs[d] /\ SoundTable(table)
  BY <1>1, Updating
<1>3. d \in Databases /\ t \in Tables /\ cmd.todo # <<>>
  BY <1>2 DEF UpdateCommand, UpdatePlain, UpdateInsertsKey
<1>4. cmd.id \in RowIds
  BY <1>1, <1>3, Assignment
<1>5. DOMAIN table = {"schema", "rows", "order", "nextId", "indexes"}
  BY <1>2 DEF SoundTable
<1> HIDE DEF table
<1>6. new.schema = table.schema /\ new.rows = [table.rows EXCEPT ![cmd.id] = Updated(Head(cmd.todo))]
  BY <1>5
<1>7. /\ DOMAIN new.rows \ {cmd.id} = DOMAIN table.rows \ {cmd.id}
      /\ \A i \in DOMAIN table.rows \ {cmd.id} : new.rows[i] = table.rows[i]
  BY <1>6
<1>8. MemoryOK'
  BY UpdatePlainStep, UpdateInsertsKeyStep DEF IInv
<1>9. SavedStore' = SavedStore
  <2>1. CASE UpdatePlain
    BY <2>1, SavedSame DEF UpdatePlain
  <2>2. CASE UpdateInsertsKey
    <3>1. \E keys : SetKeys(d, t, Head(cmd.todo).col, keys)
      BY <2>2 DEF UpdateInsertsKey
    <3> QED BY <3>1, KeysAside DEF IInv
  <2> QED BY <2>1, <2>2
<1> HIDE DEF new, d, t
<1> QED BY <1>1, <1>2, <1>3, <1>4, <1>6, <1>7, <1>8, <1>9, RowChanged DEF table

LEMMA DeleteRowChanges == ASSUME IInv, DeleteRow PROVE TypedStore!Next
<1> DEFINE d == cmd.db
           t == cmd.table
           table == dbs[d][t]
           id == Head(cmd.ids)
           new == [schema |-> table.schema, rows |-> Without(table.rows, id),
                   order |-> Erased(table.order, id), nextId |-> table.nextId,
                   indexes |-> table.indexes]
<1>1. Erasing /\ SetTable(d, t, new) /\ UNCHANGED <<phase, files>>
  BY DEF DeleteRow
<1>2. /\ DeleteCommand /\ phase = "up" /\ d \in DOMAIN dbs /\ t \in DOMAIN dbs[d] /\ SoundTable(table)
      /\ id \in DOMAIN table.rows
  BY <1>1, Deleting DEF Rows
<1>3. d \in Databases /\ t \in Tables /\ id \in RowIds
  BY <1>2 DEF DeleteCommand, SoundTable, IsTable, IsImage
<1>4. new.schema = table.schema /\ new.rows = Without(table.rows, id)
  OBVIOUS
<1>5. /\ DOMAIN new.rows \ {id} = DOMAIN table.rows \ {id}
      /\ \A i \in DOMAIN table.rows \ {id} : new.rows[i] = table.rows[i]
  <2> HIDE DEF new
  <2> QED BY <1>4 DEF Without, Restrict
<1>6. MemoryOK'
  BY DeleteRowStep DEF IInv
<1>7. SavedStore' = SavedStore
  BY <1>1, SavedSame
<1> HIDE DEF new, table, d, t, id
<1> QED BY <1>1, <1>2, <1>3, <1>4, <1>5, <1>6, <1>7, RowChanged DEF table

-----------------------------------------------------------------------------
(* Every step.                                                              *)

LEMMA CatalogueRefines ==
    ASSUME IInv, Catalogue
    PROVE  TypedStore!Next \/ UNCHANGED TypedStore!vars
<1>1. CASE Refuse
  BY <1>1, QuietSteps DEF Refuse
<1>2. CASE \E d \in Databases : CreateDatabase(d) \/ DropDatabase(d) \/ UseDatabase(d)
  <2>1. PICK d \in Databases : CreateDatabase(d) \/ DropDatabase(d) \/ UseDatabase(d)
    BY <1>2
  <2>2. UseDatabase(d) => UNCHANGED TypedStore!vars
    BY QuietSteps DEF UseDatabase
  <2> QED BY <2>1, <2>2, CreateDatabaseUnseen, DropDatabaseDrops
<1>3. CASE \E x \in Databases \cup {None}, t \in Tables :
              DropTable(x, t) \/ \E schema \in Schemas : CreateTable(x, t, schema)
  BY <1>3, DropTableDrops, CreateTableCreates
<1>4. CASE RemoveFile \/ RemoveDirectory
  BY <1>4, RemoveFileDiscards, RemoveDirectoryUnseen
<1>5. CASE CreateIndexFile \/ WriteFirstPage \/ OpenIndex \/ OpenThrows
  BY <1>5, IndexFileUnseen, OpenIndexUnseen, FailureStops
<1>6. CASE RebuildRow \/ RebuildThrows
  BY <1>6, RebuildRowUnseen, FailureStops
<1>7. CASE TableCreated
  BY <1>7, QuietSteps DEF TableCreated
<1> QED BY <1>1, <1>2, <1>3, <1>4, <1>5, <1>6, <1>7 DEF Catalogue

LEMMA RowCommandsRefine ==
    ASSUME IInv, RowCommands
    PROVE  TypedStore!Next \/ UNCHANGED TypedStore!vars
<1>1. CASE \E x \in Databases \cup {None}, t \in Tables :
              \/ \E rows \in RowLists : BeginInsert(x, t, rows)
              \/ \E w \in Wheres : Select(x, t, w) \/ ReadThrows(x, t, w) \/ BeginDelete(x, t, w)
              \/ \E w \in Wheres, sets \in SetLists : BeginUpdate(x, t, w, sets)
  <2>1. ASSUME NEW x, NEW t, NEW rows, BeginInsert(x, t, rows) PROVE UNCHANGED TypedStore!vars
    BY <2>1, QuietSteps DEF BeginInsert
  <2>2. ASSUME NEW x, NEW t, NEW w, Select(x, t, w) \/ ReadThrows(x, t, w) PROVE UNCHANGED TypedStore!vars
    BY <2>2, QuietSteps DEF Select, ReadThrows
  <2>3. ASSUME NEW x, NEW t, NEW w, BeginDelete(x, t, w) PROVE UNCHANGED TypedStore!vars
    BY <2>3, QuietSteps DEF BeginDelete
  <2>4. ASSUME NEW x, NEW t, NEW w, NEW sets, BeginUpdate(x, t, w, sets) PROVE UNCHANGED TypedStore!vars
    BY <2>4, QuietSteps DEF BeginUpdate
  <2> QED BY <1>1, <2>1, <2>2, <2>3, <2>4
<1>2. CASE InsertRow \/ UpdatePlain \/ UpdateInsertsKey \/ DeleteRow
  BY <1>2, InsertRowChanges, UpdateChanges, DeleteRowChanges
<1>3. CASE IndexRow \/ IndexThrows \/ UpdateErasesKey \/ UpdateThrows \/ DeleteKey
  BY <1>3, IndexRowUnseen, UpdateKeyUnseen, DeleteKeyUnseen
<1>4. CASE InsertRejected \/ RowsInserted \/ MeetRow \/ UpdateRejected \/ RowsUpdated
  BY <1>4, QuietSteps DEF InsertRejected, RowsInserted, MeetRow, UpdateRejected, RowsUpdated
<1>5. CASE EraseThrows \/ RowsDeleted
  BY <1>5, QuietSteps DEF EraseThrows, RowsDeleted
<1> QED BY <1>1, <1>2, <1>3, <1>4, <1>5 DEF RowCommands

LEMMA SavesRefine ==
    ASSUME IInv, Saves
    PROVE  TypedStore!Next \/ UNCHANGED TypedStore!vars
<1>1. Saved => UNCHANGED TypedStore!vars
  BY QuietSteps DEF Saved
<1> QED BY <1>1, SaveDatabaseUnseen, RemoveStaleDiscards, SaveTableSaves DEF Saves

LEMMA NextRefines == IInv /\ [Next]_vars => [TypedStore!Next]_TypedStore!vars
<1> SUFFICES ASSUME IInv, [Next]_vars PROVE TypedStore!Next \/ UNCHANGED TypedStore!vars
  OBVIOUS
<1>1. Serve => UNCHANGED TypedStore!vars
  BY QuietSteps DEF Serve
<1>2. UNCHANGED vars => UNCHANGED TypedStore!vars
  BY QuietSteps DEF vars
<1> QED BY <1>1, <1>2, StartRestores, CrashStops, CatalogueRefines, RowCommandsRefine, SavesRefine
        DEF Next, Run

\* Whatever a kill interrupts, the engine is a set of tables changed one row
\* at a time within their schemas, saved one table at a time, and restored by
\* a start as they were saved (DbmsQueryEngine::execute, save_all, load_all).
THEOREM EngineIsTableStore == CrashSpec => ImplementsTypedStore
<1>1. CrashSpec => TypedStore!Init
  BY StoreInit DEF CrashSpec
<1>2. IInv /\ [Next]_vars => [TypedStore!Next]_TypedStore!vars
  BY NextRefines
<1> QED BY <1>1, <1>2, Invariance, PTL DEF CrashSpec, ImplementsTypedStore, TypedStore!Spec

=============================================================================

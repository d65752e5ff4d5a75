------------------------ MODULE StorageEngineInvariant -----------------------
(***************************************************************************)
(* What holds of StorageEngine for every set of databases, tables, columns *)
(* and values, with commands of every length, kills at every step and      *)
(* index files that no longer fit their tables (CrashSpec).                *)
(***************************************************************************)
EXTENDS StorageEngine, FunctionTheorems, FiniteSetTheorems, SequenceTheorems, WellFoundedInduction, TLAPS

(* Maps.                                                                    *)

\* With binds one key and leaves the others (std::map's operator[]).
LEMMA WithProperties ==
    ASSUME NEW f, NEW x, NEW v
    PROVE  /\ DOMAIN With(f, x, v) = DOMAIN f \cup {x}
           /\ With(f, x, v)[x] = v
           /\ \A y \in DOMAIN f \ {x} : With(f, x, v)[y] = f[y]
BY DEF With

\* Without forgets one key and leaves the others (std::map's erase).
LEMMA WithoutProperties ==
    ASSUME NEW f, NEW x
    PROVE  /\ DOMAIN Without(f, x) = DOMAIN f \ {x}
           /\ \A y \in DOMAIN f \ {x} : Without(f, x)[y] = f[y]
BY DEF Without, Restrict

-----------------------------------------------------------------------------
(* Finite sets of integers.                                                 *)

\* A finite set of integers that is not empty has a greatest element: a least
\* set without one would have one after all.
LEMMA GreatestExists ==
    ASSUME NEW S \in SUBSET Int, IsFiniteSet(S), S # {}
    PROVE  \E m \in S : \A x \in S : x <= m
<1> DEFINE Bad == {U \in SUBSET S : IsFiniteSet(U) /\ U # {} /\ ~\E m \in U : \A x \in U : x <= m}
<1>1. SUFFICES ASSUME Bad # {} PROVE FALSE
  <2>1. S \in SUBSET S /\ S \notin Bad => \E m \in S : \A x \in S : x <= m
    OBVIOUS
  <2> QED BY <1>1, <2>1
<1>2. Bad \subseteq FiniteSubsetsOf(S)
  BY DEF FiniteSubsetsOf
<1>3. PICK U \in Bad : \A V \in Bad : <<V, U>> \notin StrictSubsetOrdering(S)
  <2> HIDE DEF Bad
  <2> QED BY <1>1, <1>2, FS_StrictSubsetOrderingWellFounded, WFMin, Zenon
<1>4. PICK x \in U : TRUE
  OBVIOUS
<1> DEFINE V == U \ {x}
<1>5. IsFiniteSet(V) /\ V \in SUBSET S /\ U \in SUBSET S
  BY FS_RemoveElement
<1>6. V \notin Bad
  <2>1. <<V, U>> \in StrictSubsetOrdering(S)
    BY <1>4, <1>5 DEF StrictSubsetOrdering
  <2> QED BY <1>3, <2>1
<1>7. CASE V = {}
  <2>1. U = {x} /\ x \in Int
    BY <1>4, <1>5, <1>7
  <2>2. \A y \in U : y <= x
    BY <2>1
  <2> QED BY <1>4, <2>2
<1>8. CASE V # {}
  <2>1. PICK m \in V : \A y \in V : y <= m
    BY <1>5, <1>6, <1>8
  <2>2. m \in Int /\ x \in Int /\ V \subseteq Int
    BY <1>4, <1>5, <2>1
  <2>3. CASE x <= m
    <3>1. \A y \in U : y <= m
      BY <2>1, <2>3
    <3> QED BY <2>1, <3>1
  <2>4. CASE m <= x
    <3>1. \A y \in U : y <= x
      BY <2>1, <2>2, <2>4
    <3> QED BY <1>4, <3>1
  <2> QED BY <2>2, <2>3, <2>4
<1> QED BY <1>7, <1>8

\* Max is what it says.
LEMMA MaxProperties ==
    ASSUME NEW S \in SUBSET Int, IsFiniteSet(S), S # {}
    PROVE  Max(S) \in S /\ \A x \in S : x <= Max(S)
<1>1. \E m \in S : \A x \in S : m >= x
  BY GreatestExists
<1>2. Max(S) \in S /\ \A x \in S : Max(S) >= x
  BY <1>1, Zenon DEF Max
<1> QED BY <1>2

\* f lists elements of U from the least to the greatest.
IsSorting(f, U) ==
    /\ f \in [1..Cardinality(U) -> U]
    /\ \A i, j \in 1..Cardinality(U) : i < j => f[i] < f[j]

\* Every finite set of integers can be sorted: without its greatest element
\* the least set that could not would have been sorted already.
LEMMA SortingExists ==
    ASSUME NEW S \in SUBSET Int, IsFiniteSet(S)
    PROVE  \E f : IsSorting(f, S)
<1> DEFINE Bad == {U \in SUBSET S : IsFiniteSet(U) /\ ~\E f : IsSorting(f, U)}
<1>1. SUFFICES ASSUME Bad # {} PROVE FALSE
  <2>1. S \in SUBSET S /\ S \notin Bad => \E f : IsSorting(f, S)
    OBVIOUS
  <2> QED BY <1>1, <2>1
<1>2. Bad \subseteq FiniteSubsetsOf(S)
  BY DEF FiniteSubsetsOf
<1>3. PICK U \in Bad : \A V \in Bad : <<V, U>> \notin StrictSubsetOrdering(S)
  <2> HIDE DEF Bad
  <2> QED BY <1>1, <1>2, FS_StrictSubsetOrderingWellFounded, WFMin, Zenon
<1>4. U # {}
  <2>1. Cardinality({}) = 0 /\ 1..0 = {}
    BY FS_EmptySet
  <2>2. IsSorting([i \in {} |-> 0], {})
    BY <2>1 DEF IsSorting
  <2> QED BY <2>2, <1>3
<1>5. U \in SUBSET Int /\ IsFiniteSet(U)
  BY <1>3
<1> DEFINE m == Max(U)
           V == U \ {m}
           n == Cardinality(V)
<1>6. m \in U /\ \A x \in U : x <= m
  BY <1>4, <1>5, MaxProperties
<1>7. IsFiniteSet(V) /\ n \in Nat /\ Cardinality(U) = n + 1
  <2>1. IsFiniteSet(V) /\ Cardinality(V) = Cardinality(U) - 1
    BY <1>5, <1>6, FS_RemoveElement
  <2>2. Cardinality(U) \in Nat /\ Cardinality(V) \in Nat
    BY <1>5, <2>1, FS_CardinalityType
  <2> QED BY <2>1, <2>2
<1>8. PICK f : IsSorting(f, V)
  <2>1. <<V, U>> \in StrictSubsetOrdering(S)
    BY <1>3, <1>6 DEF StrictSubsetOrdering
  <2>2. V \notin Bad
    BY <1>3, <2>1
  <2> QED BY <1>3, <1>7, <2>2
<1> DEFINE g == [i \in 1..(n + 1) |-> IF i = n + 1 THEN m ELSE f[i]]
<1>9. IsSorting(g, U)
  <2> HIDE DEF n, m
  <2>1. f \in [1..n -> V] /\ \A i, j \in 1..n : i < j => f[i] < f[j]
    BY <1>8 DEF IsSorting, n
  <2>2. \A i \in 1..n : f[i] \in V /\ f[i] \in Int /\ f[i] < m
    <3> SUFFICES ASSUME NEW i \in 1..n PROVE f[i] \in V /\ f[i] \in Int /\ f[i] < m
      OBVIOUS
    <3>1. f[i] \in V
      BY <2>1
    <3>2. f[i] \in Int /\ f[i] # m /\ f[i] <= m /\ m \in Int
      BY <1>5, <1>6, <3>1
    <3> QED BY <3>1, <3>2
  <2>3. \A i \in 1..(n + 1) : i = n + 1 \/ i \in 1..n
    BY <1>7
  <2>4. g \in [1..(n + 1) -> U]
    BY <1>6, <2>2, <2>3
  <2>5. \A i, j \in 1..(n + 1) : i < j => g[i] < g[j]
    BY <1>7, <2>1, <2>2, <2>3
  <2> QED BY <1>7, <2>4, <2>5 DEF IsSorting
<1> QED BY <1>3, <1>9

\* Sorted sorts (std::map and the leaves of the tree, from left to right).
LEMMA SortedProperties ==
    ASSUME NEW S \in SUBSET Int, IsFiniteSet(S)
    PROVE  /\ Cardinality(S) \in Nat
           /\ Sorted(S) \in [1..Cardinality(S) -> S]
           /\ Len(Sorted(S)) = Cardinality(S)
           /\ \A i, j \in 1..Cardinality(S) : i < j => Sorted(S)[i] < Sorted(S)[j]
<1>1. \E f \in [1..Cardinality(S) -> S] : \A i, j \in 1..Cardinality(S) : i < j => f[i] < f[j]
  BY SortingExists DEF IsSorting
<1>2. /\ Sorted(S) \in [1..Cardinality(S) -> S]
      /\ \A i, j \in 1..Cardinality(S) : i < j => Sorted(S)[i] < Sorted(S)[j]
  BY <1>1, Zenon DEF Sorted
<1>3. Cardinality(S) \in Nat
  BY FS_CardinalityType
<1>4. Sorted(S) \in Seq(S) /\ Len(Sorted(S)) = Cardinality(S)
  BY <1>2, <1>3
<1> QED BY <1>2, <1>3, <1>4

-----------------------------------------------------------------------------
(* Sequences of row ids.                                                    *)

\* Filtering a list gives a list of what it filters for.
LEMMA SelectedProperties ==
    ASSUME NEW T, NEW s \in Seq(T), NEW S
    PROVE  Selected(s, S) \in Seq(T \cap S)
<1> DEFINE K == {k \in 1..Len(s) : s[k] \in S}
           at == Sorted(K)
<1>1. Len(s) \in Nat /\ \A k \in 1..Len(s) : s[k] \in T
  BY ElementOfSeq, LenProperties
<1>2. K \in SUBSET Int /\ IsFiniteSet(K)
  <2>1. IsFiniteSet(1..Len(s))
    BY <1>1, FS_Interval
  <2>2. K \in SUBSET (1..Len(s))
    OBVIOUS
  <2>3. IsFiniteSet(K)
    BY <2>1, <2>2, FS_Subset
  <2> QED BY <1>1, <2>3
<1>3. Len(at) \in Nat /\ \A i \in 1..Len(at) : at[i] \in K
  BY <1>2, SortedProperties
<1>4. Selected(s, S) = [i \in 1..Len(at) |-> s[at[i]]]
  BY DEF Selected
<1> HIDE DEF at
<1>5. \A i \in 1..Len(at) : s[at[i]] \in T \cap S
  BY <1>1, <1>3
<1> QED BY <1>3, <1>4, <1>5

\* An order lists no row twice: it is as long as the set of its rows.
LEMMA OrderIsInjective ==
    ASSUME NEW T, NEW order \in Seq(T), IsFiniteSet(Ids(order)), Len(order) = Cardinality(Ids(order))
    PROVE  \A i, j \in 1..Len(order) : order[i] = order[j] => i = j
<1>1. Len(order) \in Nat /\ order \in [1..Len(order) -> Ids(order)]
  BY LenProperties DEF Ids
<1>2. order \in Surjection(1..Len(order), Ids(order))
  BY <1>1 DEF Surjection, Ids
<1>3. IsFiniteSet(1..Len(order)) /\ Cardinality(1..Len(order)) = Len(order)
  BY <1>1, FS_Interval
<1>4. order \in Injection(1..Len(order), Ids(order))
  BY <1>2, <1>3, FS_SurjSameCardinalityImpliesInj
<1> QED BY <1>1, <1>4 DEF Injection, IsInjective

\* Erasing the id of a row leaves the ids of the others, one entry less.
LEMMA ErasedProperties ==
    ASSUME NEW T, NEW order \in Seq(T), IsFiniteSet(Ids(order)), Len(order) = Cardinality(Ids(order)),
           NEW id \in Ids(order)
    PROVE  /\ Erased(order, id) \in Seq(T)
           /\ Ids(Erased(order, id)) = Ids(order) \ {id}
           /\ Len(Erased(order, id)) = Len(order) - 1
<1> DEFINE S == {k \in 1..Len(order) : order[k] = id}
           at == Min(S)
           left == SubSeq(order, 1, at - 1)
           right == SubSeq(order, at + 1, Len(order))
<1>1. Len(order) \in Nat /\ \A k \in 1..Len(order) : order[k] \in T
  BY LenProperties, ElementOfSeq
<1>2. PICK k \in 1..Len(order) : order[k] = id
  BY DEF Ids
<1>3. S = {k}
  BY <1>2, OrderIsInjective
<1>4. at = k
  BY <1>3 DEF Min
<1>5. Erased(order, id) = left \o right
  BY DEF Erased
<1> HIDE DEF at
<1>6. /\ left \in Seq(T) /\ Len(left) = k - 1
      /\ \A i \in 1..(k - 1) : left[i] = order[i]
  <2>1. \A i \in 1..(k - 1) : order[i] \in T
    BY <1>1
  <2>2. k \in Int /\ k >= 1
    OBVIOUS
  <2> QED BY <1>4, <2>1, <2>2, SubSeqProperties
<1>7. /\ right \in Seq(T) /\ Len(right) = Len(order) - k
      /\ \A i \in 1..(Len(order) - k) : right[i] = order[k + i]
  <2>1. \A i \in (k + 1)..Len(order) : order[i] \in T
    BY <1>1
  <2>2. k \in Int /\ k >= 1 /\ k <= Len(order)
    BY <1>1
  <2>3. /\ right \in Seq(T)
        /\ Len(right) = IF k + 1 <= Len(order) THEN Len(order) - (k + 1) + 1 ELSE 0
        /\ \A i \in 1..(Len(order) - (k + 1) + 1) : right[i] = order[k + 1 + i - 1]
    BY <1>1, <1>4, <2>1, <2>2, SubSeqProperties
  <2> QED BY <1>1, <2>2, <2>3
<1> HIDE DEF left, right
<1>8. /\ Erased(order, id) \in Seq(T)
      /\ Len(Erased(order, id)) = Len(order) - 1
      /\ \A i \in 1..(Len(order) - 1) :
            Erased(order, id)[i] = IF i <= k - 1 THEN left[i] ELSE right[i - (k - 1)]
  <2>1. Len(left) + Len(right) = Len(order) - 1
    BY <1>1, <1>6, <1>7
  <2>2. /\ left \o right \in Seq(T)
        /\ Len(left \o right) = Len(left) + Len(right)
        /\ \A i \in 1..(Len(left) + Len(right)) :
              (left \o right)[i] = IF i <= Len(left) THEN left[i] ELSE right[i - Len(left)]
    BY <1>6, <1>7, ConcatProperties
  <2> QED BY <1>5, <1>6, <2>1, <2>2
<1>9. \A i \in 1..(Len(order) - 1) : Erased(order, id)[i] = IF i < k THEN order[i] ELSE order[i + 1]
  <2> SUFFICES ASSUME NEW i \in 1..(Len(order) - 1)
               PROVE  Erased(order, id)[i] = IF i < k THEN order[i] ELSE order[i + 1]
    OBVIOUS
  <2>1. k \in Int /\ k >= 1 /\ k <= Len(order) /\ i \in Int /\ i >= 1 /\ i <= Len(order) - 1
    BY <1>1
  <2>2. CASE i < k
    <3>1. i <= k - 1 /\ i \in 1..(k - 1)
      BY <2>1, <2>2
    <3> QED BY <1>6, <1>8, <2>2, <3>1
  <2>3. CASE ~(i < k)
    <3>1. ~(i <= k - 1) /\ i - (k - 1) \in 1..(Len(order) - k) /\ k + (i - (k - 1)) = i + 1
      BY <1>1, <2>1, <2>3
    <3>2. Erased(order, id)[i] = right[i - (k - 1)]
      BY <1>8, <3>1
    <3>3. right[i - (k - 1)] = order[k + (i - (k - 1))]
      BY <1>7, <3>1
    <3> QED BY <2>3, <3>1, <3>2, <3>3
  <2> QED BY <2>2, <2>3
<1>10. Ids(Erased(order, id)) \subseteq Ids(order) \ {id}
  <2> SUFFICES ASSUME NEW i \in 1..(Len(order) - 1) PROVE Erased(order, id)[i] \in Ids(order) \ {id}
    BY <1>8 DEF Ids
  <2>1. PICK j \in 1..Len(order) : Erased(order, id)[i] = order[j] /\ j # k
    BY <1>1, <1>9
  <2>2. order[j] # id
    BY <1>2, <2>1, OrderIsInjective
  <2> QED BY <2>1, <2>2 DEF Ids
<1>11. Ids(order) \ {id} \subseteq Ids(Erased(order, id))
  <2> SUFFICES ASSUME NEW j \in 1..Len(order), j # k PROVE order[j] \in Ids(Erased(order, id))
    BY <1>2 DEF Ids
  <2>1. CASE j < k
    <3>1. j \in 1..(Len(order) - 1) /\ Erased(order, id)[j] = order[j]
      BY <1>1, <1>9, <2>1
    <3> QED BY <1>8, <3>1 DEF Ids
  <2>2. CASE k < j
    <3>1. j - 1 \in 1..(Len(order) - 1) /\ Erased(order, id)[j - 1] = order[j]
      BY <1>1, <1>9, <2>2
    <3> QED BY <1>8, <3>1 DEF Ids
  <2> QED BY <2>1, <2>2
<1> QED BY <1>8, <1>10, <1>11

-----------------------------------------------------------------------------
(* The inductive invariant.                                                 *)

Ordered(image) ==
    /\ Ids(image.order) = DOMAIN image.rows
    /\ Len(image.order) = Cardinality(DOMAIN image.rows)

Fitting(image) == \A id \in DOMAIN image.rows : Fits(image.schema, image.rows[id])

SoundImage(image) == image = Image(image) /\ IsImage(image) /\ Ordered(image) /\ Fitting(image)

SoundTable(table) ==
    /\ DOMAIN table = {"schema", "rows", "order", "nextId", "indexes"}
    /\ IsTable(table) /\ Ordered(table) /\ Fitting(table)
    /\ \A id \in DOMAIN table.rows : id < table.nextId

\* What an index maps: finitely many values, to row ids.
SoundKeys(keys) ==
    DOMAIN keys \subseteq Values /\ IsFiniteSet(DOMAIN keys) /\ \A v \in DOMAIN keys : keys[v] \in RowIds

SoundIndex(index) == DOMAIN index = {"kind", "keys"} /\ IsIndex(index) /\ SoundKeys(index.keys)

SoundDirectory(dir) ==
    /\ DOMAIN dir = {"dat", "idx"}
    /\ DOMAIN dir.dat \subseteq Tables /\ \A t \in DOMAIN dir.dat : SoundImage(dir.dat[t])
    /\ DOMAIN dir.idx \subseteq Tables \X Columns /\ \A f \in DOMAIN dir.idx : SoundIndex(dir.idx[f])

\* Every table in memory is sound ...
MemoryOK ==
    /\ DOMAIN dbs \subseteq Databases
    /\ \A d \in DOMAIN dbs : DOMAIN dbs[d] \subseteq Tables /\ \A t \in DOMAIN dbs[d] : SoundTable(dbs[d][t])

\* ... and every file is, as a crash may find it at any time.
DiskOK == DOMAIN files \subseteq Databases /\ \A d \in DOMAIN files : SoundDirectory(files[d])

\* Only a process that is up has tables, an active database and a command.
\* Every database has its directory, every attached index its file.
ProcessOK ==
    /\ phase \in {"down", "up", "failed"} /\ reply \in {"none", "ok", "error"}
    /\ active \in Databases \cup {None}
    /\ phase # "up" => cmd = Idle /\ dbs = <<>> /\ active = None
    /\ phase = "up" => DOMAIN files = DOMAIN dbs \cup (IF cmd.pc = "remove" THEN {cmd.db} ELSE {})
    /\ \A d \in DOMAIN dbs : \A t \in DOMAIN dbs[d] : \A c \in dbs[d][t].indexes : <<t, c>> \in DOMAIN files[d].idx

\* The files of database d hold what memory holds.
SavedAll(d) ==
    DOMAIN files[d].dat = DOMAIN dbs[d] /\ \A t \in DOMAIN dbs[d] : files[d].dat[t] = Image(dbs[d][t])

RemoveCommand == cmd \in [pc : {"remove"}, db : Databases] /\ cmd.db \notin DOMAIN dbs

Places == Databases \X Tables \X Columns

\* A column that has, or is to have, an index.
IsIndexed(at) == HasTable(at[1], at[2]) /\ at[3] \in IndexedColumns(Schema(at[1], at[2]))

HasIndexFile(at) == <<at[2], at[3]>> \in DOMAIN files[at[1]].idx

\* Only the constructor attaches an index to a table with rows, and while it
\* does memory is what the files say.
AttachCommand ==
    /\ cmd \in [pc : {"attach", "create"}, todo : SUBSET Places, then : {"save", "serve"},
                at : Places \cup {None}, ids : Seq(RowIds)]
    /\ \A at \in cmd.todo : IsIndexed(at)
    /\ cmd.ids # <<>> => /\ cmd.at \in Places /\ IsIndexed(cmd.at) /\ HasIndexFile(cmd.at)
                         /\ Ids(cmd.ids) \subseteq DOMAIN Rows(cmd.at[1], cmd.at[2])
                         /\ cmd.then = "serve"
    /\ cmd.pc = "create" => cmd.ids = <<>> /\ cmd.at \in cmd.todo /\ HasIndexFile(cmd.at)
    /\ cmd.then = "save" => \A at \in cmd.todo : dbs[at[1]][at[2]].order = <<>>
    /\ cmd.then = "serve" => active = None /\ \A d \in DOMAIN dbs : SavedAll(d)

\* A row that is being indexed is in the table, and there are ids for the
\* rows left to insert.
InsertCommand ==
    /\ cmd \in [pc : {"insert"}, db : Databases, table : Tables, rows : Seq([byColumns : BOOLEAN, given : Given]),
                id : RowIds \cup {None}, cols : SUBSET Columns]
    /\ HasTable(cmd.db, cmd.table)
    /\ dbs[cmd.db][cmd.table].nextId + Len(cmd.rows) <= MaxRowId + 1
    /\ cmd.cols \subseteq Attached(cmd.db, cmd.table)
    /\ cmd.cols # {} => cmd.id \in DOMAIN Rows(cmd.db, cmd.table)

\* A row being assigned to is in the table; one whose old key is erased was
\* found valid.
UpdateCommand ==
    /\ cmd \in [pc : {"update"}, db : Databases, table : Tables, where : Wheres, sets : SetLists,
                ids : Seq(RowIds), id : RowIds \cup {None}, todo : Seq([col : Columns, val : Values \cup {Null}]),
                erased : BOOLEAN]
    /\ HasTable(cmd.db, cmd.table)
    /\ cmd.todo # <<>> => cmd.id \in DOMAIN Rows(cmd.db, cmd.table)
    /\ cmd.erased => /\ cmd.todo # <<>>
                     /\ Head(cmd.todo).col \in Attached(cmd.db, cmd.table)
                     /\ Fits(Schema(cmd.db, cmd.table), Updated(Head(cmd.todo)))

DeleteCommand ==
    /\ cmd \in [pc : {"delete"}, db : Databases, table : Tables, ids : Seq(RowIds), cols : SUBSET Columns]
    /\ HasTable(cmd.db, cmd.table)
    /\ cmd.cols \subseteq Attached(cmd.db, cmd.table)

\* What is not left to save has been saved.
SaveCommand ==
    /\ cmd \in [pc : {"save"}, left : SUBSET Databases, db : Databases \cup {None}, tables : SUBSET Tables]
    /\ cmd.left \subseteq DOMAIN dbs
    /\ cmd.db = None => cmd.tables = {}
    /\ \A d \in DOMAIN dbs \ cmd.left : d # cmd.db => SavedAll(d)
    /\ cmd.db # None => /\ cmd.db \in DOMAIN dbs
                        /\ cmd.tables \subseteq DOMAIN dbs[cmd.db]
                        /\ \A t \in DOMAIN dbs[cmd.db] \ cmd.tables :
                              HasFile(cmd.db, t) /\ files[cmd.db].dat[t] = Image(dbs[cmd.db][t])

CommandOK ==
    /\ cmd.pc \in {"idle", "remove", "attach", "create", "insert", "update", "delete", "save"}
    /\ cmd.pc = "idle" => cmd = Idle
    /\ cmd.pc = "remove" => RemoveCommand
    /\ cmd.pc \in {"attach", "create"} => AttachCommand
    /\ cmd.pc = "insert" => InsertCommand
    /\ cmd.pc = "update" => UpdateCommand
    /\ cmd.pc = "delete" => DeleteCommand
    /\ cmd.pc = "save" => SaveCommand

WasCommitted(d, t) == d \in DOMAIN committed /\ t \in DOMAIN committed[d]

\* But for save_all, no command touches a table file that is to stay; a file
\* goes only with its table, or with its database.
FilesFollow ==
    phase = "up" => \A d \in Databases, t \in Tables :
        /\ HasFile(d, t) => \/ WasCommitted(d, t) /\ files[d].dat[t] = committed[d][t]
                            \/ cmd.pc = "save" /\ HasTable(d, t) /\ files[d].dat[t] = Image(dbs[d][t])
        /\ WasCommitted(d, t) /\ ~HasFile(d, t) => ~HasTable(d, t) /\ cmd.pc \in {"remove", "save"}

IInv ==
    /\ MemoryOK /\ DiskOK /\ ProcessOK /\ CommandOK
    /\ FilesFollow /\ ActiveIsLoaded /\ FailsOnlyOnIndexedRows

-----------------------------------------------------------------------------
(* What the invariant says of the properties, and of the initial state.     *)

LEMMA InitIInv == Init => IInv
<1> SUFFICES ASSUME Init PROVE IInv
  OBVIOUS
<1>1. DOMAIN dbs = {} /\ DOMAIN files = {} /\ DOMAIN committed = {}
  BY DEF Init
<1>2. phase = "down" /\ cmd = Idle /\ cmd.pc = "idle" /\ active = None /\ reply = "none"
  BY DEF Init, Idle
<1>3. MemoryOK /\ DiskOK
  BY <1>1 DEF MemoryOK, DiskOK
<1>4. ProcessOK
  BY <1>1, <1>2 DEF ProcessOK, Init
<1>5. CommandOK
  BY <1>2 DEF CommandOK
<1>6. FilesFollow /\ ActiveIsLoaded /\ FailsOnlyOnIndexedRows
  BY <1>2 DEF FilesFollow, ActiveIsLoaded, FailsOnlyOnIndexedRows
<1> QED BY <1>3, <1>4, <1>5, <1>6 DEF IInv

LEMMA IInvTypes == IInv => TypeOK
<1> SUFFICES ASSUME IInv PROVE TypeOK
  OBVIOUS
<1> USE DEF IInv
<1>1. DOMAIN dbs \subseteq Databases
      /\ \A d \in DOMAIN dbs : DOMAIN dbs[d] \subseteq Tables /\ \A t \in DOMAIN dbs[d] : IsTable(dbs[d][t])
  BY DEF MemoryOK, SoundTable
<1>2. DOMAIN files \subseteq Databases /\ \A d \in DOMAIN files : IsDirectory(files[d])
  BY DEF DiskOK, SoundDirectory, SoundImage, SoundIndex, IsDirectory
<1>3. /\ cmd.pc \in {"idle", "remove", "attach", "create", "insert", "update", "delete", "save"}
      /\ cmd.pc \in {"insert", "update", "delete"} => HasTable(cmd.db, cmd.table)
  BY DEF CommandOK, InsertCommand, UpdateCommand, DeleteCommand
<1> QED BY <1>1, <1>2, <1>3 DEF TypeOK, ProcessOK

LEMMA IInvRows == IInv => RowsInOrder /\ RowsFitSchema
BY DEF IInv, MemoryOK, SoundTable, Ordered, Fitting, RowsInOrder, RowsFitSchema, HasTable, Rows, Schema

LEMMA IInvFiles == IInv => FilesOldOrNew
BY DEF IInv, FilesFollow, FilesOldOrNew, WasCommitted

-----------------------------------------------------------------------------
(* The effects steps are made of.                                           *)

\* One table changes: the rest of memory stays.
LEMMA SetTableEffect ==
    ASSUME MemoryOK, NEW d \in DOMAIN dbs, NEW t \in DOMAIN dbs[d],
           NEW table, SoundTable(table), SetTable(d, t, table)
    PROVE  /\ MemoryOK'
           /\ DOMAIN dbs' = DOMAIN dbs
           /\ \A e \in DOMAIN dbs : DOMAIN dbs'[e] = DOMAIN dbs[e]
           /\ \A e \in DOMAIN dbs : \A u \in DOMAIN dbs[e] :
                 dbs'[e][u] = IF e = d /\ u = t THEN table ELSE dbs[e][u]
<1>1. dbs' = [dbs EXCEPT ![d] = [dbs[d] EXCEPT ![t] = table]]
  BY DEF SetTable
<1>2. DOMAIN dbs' = DOMAIN dbs
  BY <1>1
<1>3. \A e \in DOMAIN dbs : DOMAIN dbs'[e] = DOMAIN dbs[e]
  BY <1>1
<1>4. \A e \in DOMAIN dbs : \A u \in DOMAIN dbs[e] :
         dbs'[e][u] = IF e = d /\ u = t THEN table ELSE dbs[e][u]
  BY <1>1
<1>5. MemoryOK'
  BY <1>2, <1>3, <1>4 DEF MemoryOK
<1> QED BY <1>2, <1>3, <1>4, <1>5

\* The table files stay, and no index file goes.
SameFiles ==
    /\ DOMAIN files' = DOMAIN files
    /\ \A d \in DOMAIN files :
          files'[d].dat = files[d].dat /\ DOMAIN files[d].idx \subseteq DOMAIN files'[d].idx

\* One index file changes its keys: the rest of the disk stays.
LEMMA SetKeysEffect ==
    ASSUME DiskOK, NEW d \in DOMAIN files, NEW t, NEW c, <<t, c>> \in DOMAIN files[d].idx,
           NEW keys, SoundKeys(keys), SetKeys(d, t, c, keys)
    PROVE  DiskOK' /\ SameFiles
<1> DEFINE f == <<t, c>>
           index == [files[d].idx[f] EXCEPT !.keys = keys]
           dir == [files[d] EXCEPT !.idx = [files[d].idx EXCEPT ![f] = index]]
<1>1. files' = [files EXCEPT ![d] = dir]
  BY DEF SetKeys
<1>2. SoundDirectory(files[d]) /\ SoundIndex(files[d].idx[f])
  BY DEF DiskOK, SoundDirectory
<1>3. SoundIndex(index)
  <2>1. DOMAIN index = {"kind", "keys"} /\ index.keys = keys /\ index.kind = files[d].idx[f].kind
    BY <1>2 DEF SoundIndex
  <2> QED BY <1>2, <2>1 DEF SoundIndex, SoundKeys, IsIndex
<1> HIDE DEF index
<1>4. /\ DOMAIN dir = {"dat", "idx"} /\ dir.dat = files[d].dat
      /\ DOMAIN dir.idx = DOMAIN files[d].idx
      /\ \A g \in DOMAIN files[d].idx : dir.idx[g] = IF g = f THEN index ELSE files[d].idx[g]
  BY <1>2 DEF SoundDirectory
<1> HIDE DEF dir
<1>5. SoundDirectory(dir)
  BY <1>2, <1>3, <1>4 DEF SoundDirectory
<1>6. DOMAIN files' = DOMAIN files /\ \A e \in DOMAIN files : files'[e] = IF e = d THEN dir ELSE files[e]
  BY <1>1
<1>7. DiskOK'
  BY <1>5, <1>6 DEF DiskOK
<1>8. SameFiles
  BY <1>4, <1>6 DEF SameFiles
<1> QED BY <1>7, <1>8

-----------------------------------------------------------------------------
(* Sound tables stay sound.                                                 *)

LEMMA RowIdsProperties == IsFiniteSet(RowIds) /\ RowIds \subseteq Nat
BY BoundsAssumption, FS_Interval DEF RowIds

\* A row as insert_row or materialize makes it has a value in every column.
LEMMA RowOfType ==
    ASSUME NEW schema \in Schemas, NEW r \in [byColumns : BOOLEAN, given : Given]
    PROVE  RowOf(schema, r) \in Row
<1>1. PICK D \in SUBSET Columns : r.given \in [D -> Values \cup {Null}]
  BY DEF Given
<1>2. \A c \in Columns : schema[c].default # None => schema[c].default \in Values \cup {Null}
  BY SchemasAssumption DEF Definition
<1> DEFINE value(c) ==
      CASE c \in DOMAIN r.given -> r.given[c]
        [] c \notin DOMAIN r.given /\ ~r.byColumns /\ schema[c].default # None -> schema[c].default
        [] OTHER -> Null
<1>3. \A c \in Columns : value(c) \in Values \cup {Null}
  <2> SUFFICES ASSUME NEW c \in Columns PROVE value(c) \in Values \cup {Null}
    OBVIOUS
  <2>1. CASE c \in DOMAIN r.given
    BY <1>1, <2>1
  <2>2. CASE c \notin DOMAIN r.given /\ ~r.byColumns /\ schema[c].default # None
    BY <1>2, <2>2
  <2>3. CASE c \notin DOMAIN r.given /\ (r.byColumns \/ schema[c].default = None)
    BY <2>3
  <2> QED BY <2>1, <2>2, <2>3
<1> QED BY <1>3 DEF RowOf, Row

\* Table::insert.
LEMMA InsertedTable ==
    ASSUME NEW table, SoundTable(table), NEW row \in Row, Fits(table.schema, row), table.nextId <= MaxRowId
    PROVE  SoundTable([schema |-> table.schema, rows |-> With(table.rows, table.nextId, row),
                       order |-> Append(table.order, table.nextId), nextId |-> table.nextId + 1,
                       indexes |-> table.indexes])
<1> DEFINE n == table.nextId
           rows == With(table.rows, n, row)
           order == Append(table.order, n)
<1>1. /\ IsTable(table) /\ Ordered(table) /\ Fitting(table)
      /\ \A id \in DOMAIN table.rows : id < n
  BY DEF SoundTable
<1>2. n \in RowIds /\ n \in Nat /\ n + 1 \in 1..(MaxRowId + 1)
  BY <1>1, BoundsAssumption DEF IsTable, RowIds
<1>3. n \notin DOMAIN table.rows
  BY <1>1, <1>2
<1>4. /\ DOMAIN rows = DOMAIN table.rows \cup {n} /\ rows[n] = row
      /\ \A id \in DOMAIN table.rows : rows[id] = table.rows[id]
  <2>1. \A id \in DOMAIN table.rows : id \in DOMAIN table.rows \ {n}
    BY <1>3
  <2>2. /\ DOMAIN rows = DOMAIN table.rows \cup {n} /\ rows[n] = row
        /\ \A id \in DOMAIN table.rows \ {n} : rows[id] = table.rows[id]
    BY DEF With
  <2> HIDE DEF n, rows
  <2> QED BY <2>1, <2>2
<1> HIDE DEF rows
<1>5. table.order \in Seq(RowIds) /\ Len(table.order) \in Nat
  BY <1>1, LenProperties DEF IsTable, IsImage
<1>6. /\ order \in Seq(RowIds) /\ Len(order) = Len(table.order) + 1
      /\ \A k \in 1..Len(table.order) : order[k] = table.order[k]
      /\ order[Len(table.order) + 1] = n
  BY <1>2, <1>5, AppendProperties
<1> HIDE DEF order
<1>7. Ids(order) = Ids(table.order) \cup {n}
  <2> HIDE DEF n
  <2>1. \A k \in 1..Len(order) : k \in 1..Len(table.order) \/ k = Len(table.order) + 1
    BY <1>5, <1>6
  <2>2. Ids(order) \subseteq Ids(table.order) \cup {n}
    <3> SUFFICES ASSUME NEW k \in 1..Len(order) PROVE order[k] \in Ids(table.order) \cup {n}
      BY DEF Ids
    <3>1. CASE k \in 1..Len(table.order)
      BY <1>6, <3>1 DEF Ids
    <3>2. CASE k = Len(table.order) + 1
      BY <1>6, <3>2
    <3> QED BY <2>1, <3>1, <3>2
  <2>3. n \in Ids(order)
    <3>1. Len(order) \in 1..Len(order)
      BY <1>5, <1>6
    <3>2. order[Len(order)] = n
      BY <1>6
    <3> QED BY <3>1, <3>2 DEF Ids
  <2>4. \A k \in 1..Len(table.order) : k \in 1..Len(order) /\ order[k] = table.order[k]
    BY <1>5, <1>6
  <2>5. Ids(table.order) \subseteq Ids(order)
    BY <2>4 DEF Ids
  <2> QED BY <2>2, <2>3, <2>5
<1>8. Cardinality(DOMAIN rows) = Cardinality(DOMAIN table.rows) + 1
  <2>1. IsFiniteSet(DOMAIN table.rows)
    BY <1>1, RowIdsProperties, FS_Subset DEF IsTable, IsImage
  <2> QED BY <1>3, <1>4, <2>1, FS_AddElement
<1> DEFINE new == [schema |-> table.schema, rows |-> rows, order |-> order, nextId |-> n + 1,
                   indexes |-> table.indexes]
<1>9. IsTable(new)
  BY <1>1, <1>2, <1>4, <1>6 DEF IsTable, IsImage
<1>10. Ordered(new)
  BY <1>1, <1>4, <1>6, <1>7, <1>8 DEF Ordered
<1>11. Fitting(new)
  BY <1>1, <1>4 DEF Fitting
<1>12. \A id \in DOMAIN new.rows : id < new.nextId
  <2> SUFFICES ASSUME NEW id \in DOMAIN rows PROVE id < n + 1
    OBVIOUS
  <2>1. id \in Nat
    BY <1>1, <1>2, <1>4, RowIdsProperties DEF IsTable, IsImage
  <2> QED BY <1>1, <1>2, <1>4, <2>1
<1> HIDE DEF n
<1>13. DOMAIN new = {"schema", "rows", "order", "nextId", "indexes"}
  OBVIOUS
<1> HIDE DEF new
<1>14. SoundTable(new)
  BY <1>9, <1>10, <1>11, <1>12, <1>13 DEF SoundTable
<1> QED BY <1>14 DEF new, rows, order, n

\* Table::update.
LEMMA UpdatedTable ==
    ASSUME NEW table, SoundTable(table), NEW id \in DOMAIN table.rows,
           NEW row \in Row, Fits(table.schema, row)
    PROVE  LET new == [table EXCEPT !.rows[id] = row]
           IN  /\ SoundTable(new)
               /\ new.schema = table.schema /\ new.indexes = table.indexes /\ new.nextId = table.nextId
               /\ DOMAIN new.rows = DOMAIN table.rows
               /\ \A i \in DOMAIN table.rows : new.rows[i] = IF i = id THEN row ELSE table.rows[i]
<1> DEFINE rows == [table.rows EXCEPT ![id] = row]
           new == [table EXCEPT !.rows = rows]
<1>1. DOMAIN table = {"schema", "rows", "order", "nextId", "indexes"}
  BY DEF SoundTable
<1>2. DOMAIN rows = DOMAIN table.rows /\ \A i \in DOMAIN rows : rows[i] = IF i = id THEN row ELSE table.rows[i]
  OBVIOUS
<1> HIDE DEF rows
<1>3. /\ DOMAIN new = {"schema", "rows", "order", "nextId", "indexes"}
      /\ new.rows = rows /\ new.schema = table.schema /\ new.order = table.order
      /\ new.nextId = table.nextId /\ new.indexes = table.indexes
  BY <1>1
<1> HIDE DEF new
<1>4. IsTable(new)
  BY <1>2, <1>3 DEF SoundTable, IsTable, IsImage
<1>5. Ordered(new) /\ Fitting(new)
  BY <1>2, <1>3 DEF SoundTable, Ordered, Fitting
<1>6. SoundTable(new)
  BY <1>2, <1>3, <1>4, <1>5 DEF SoundTable
<1> QED BY <1>2, <1>3, <1>6 DEF new, rows

\* Table::erase.
LEMMA ErasedTable ==
    ASSUME NEW table, SoundTable(table), NEW id \in DOMAIN table.rows
    PROVE  SoundTable([schema |-> table.schema, rows |-> Without(table.rows, id),
                       order |-> Erased(table.order, id), nextId |-> table.nextId,
                       indexes |-> table.indexes])
<1> DEFINE rows == Without(table.rows, id)
           order == Erased(table.order, id)
           new == [schema |-> table.schema, rows |-> rows, order |-> order, nextId |-> table.nextId,
                   indexes |-> table.indexes]
<1>1. IsTable(table) /\ Ordered(table) /\ Fitting(table) /\ \A i \in DOMAIN table.rows : i < table.nextId
  BY DEF SoundTable
<1>2. IsFiniteSet(DOMAIN table.rows)
  BY <1>1, RowIdsProperties, FS_Subset DEF IsTable, IsImage
<1>3. DOMAIN rows = DOMAIN table.rows \ {id} /\ \A i \in DOMAIN rows : rows[i] = table.rows[i]
  BY WithoutProperties
<1>4. /\ order \in Seq(RowIds) /\ Ids(order) = DOMAIN table.rows \ {id}
      /\ Len(order) = Cardinality(DOMAIN table.rows) - 1
  BY <1>1, <1>2, ErasedProperties DEF Ordered, IsTable, IsImage
<1>5. Cardinality(DOMAIN rows) = Cardinality(DOMAIN table.rows) - 1
  BY <1>2, <1>3, FS_RemoveElement
<1> HIDE DEF rows, order
<1>6. IsTable(new)
  BY <1>1, <1>3, <1>4 DEF IsTable, IsImage
<1>7. Ordered(new)
  BY <1>3, <1>4, <1>5 DEF Ordered
<1>8. Fitting(new)
  BY <1>1, <1>3 DEF Fitting
<1>9. (\A i \in DOMAIN new.rows : i < new.nextId) /\ DOMAIN new = {"schema", "rows", "order", "nextId", "indexes"}
  BY <1>1, <1>3
<1> HIDE DEF new
<1>10. SoundTable(new)
  BY <1>6, <1>7, <1>8, <1>9 DEF SoundTable
<1> QED BY <1>10 DEF new, rows, order

\* Table::attach_index.
LEMMA IndexedTable ==
    ASSUME NEW table, SoundTable(table), NEW c \in IndexedColumns(table.schema)
    PROVE  LET new == [table EXCEPT !.indexes = @ \cup {c}]
           IN  /\ SoundTable(new)
               /\ new.schema = table.schema /\ new.rows = table.rows /\ new.order = table.order
               /\ new.indexes = table.indexes \cup {c}
<1> DEFINE new == [table EXCEPT !.indexes = @ \cup {c}]
<1>1. DOMAIN table = {"schema", "rows", "order", "nextId", "indexes"}
  BY DEF SoundTable
<1>2. /\ DOMAIN new = {"schema", "rows", "order", "nextId", "indexes"}
      /\ new.rows = table.rows /\ new.schema = table.schema /\ new.order = table.order
      /\ new.nextId = table.nextId /\ new.indexes = table.indexes \cup {c}
  BY <1>1
<1> HIDE DEF new
<1>3. SoundTable(new)
  BY <1>2 DEF SoundTable, IsTable, IsImage, Ordered, Fitting
<1> QED BY <1>2, <1>3 DEF new

\* Database::create_table.
LEMMA EmptyTableSound ==
    ASSUME NEW schema \in Schemas
    PROVE  SoundTable(EmptyTable(schema))
<1> DEFINE table == EmptyTable(schema)
<1>1. /\ table.schema = schema /\ table.rows = <<>> /\ table.order = <<>> /\ table.nextId = 1
      /\ table.indexes = {} /\ DOMAIN table = {"schema", "rows", "order", "nextId", "indexes"}
  BY DEF EmptyTable
<1> HIDE DEF table
<1>2. DOMAIN table.rows = {} /\ Ids(table.order) = {} /\ Len(table.order) = 0 /\ table.order \in Seq(RowIds)
  BY <1>1 DEF Ids
<1>3. Cardinality(DOMAIN table.rows) = 0
  BY <1>2, FS_EmptySet
<1>4. IsTable(table)
  BY <1>1, <1>2, BoundsAssumption DEF IsTable, IsImage
<1>5. Ordered(table) /\ Fitting(table) /\ \A id \in DOMAIN table.rows : id < table.nextId
  BY <1>1, <1>2, <1>3 DEF Ordered, Fitting
<1>6. SoundTable(table)
  BY <1>1, <1>4, <1>5 DEF SoundTable
<1> QED BY <1>6 DEF table

\* Table::save writes what can be loaded ...
LEMMA ImageSound ==
    ASSUME NEW table, SoundTable(table)
    PROVE  SoundImage(Image(table))
BY DEF Image, SoundImage, SoundTable, IsTable, IsImage, Ordered, Fitting

\* ... and Table::load finds an id that is free.
LEMMA LoadedSound ==
    ASSUME NEW image, SoundImage(image)
    PROVE  /\ SoundTable(Loaded(image))
           /\ Loaded(image).indexes = {} /\ Loaded(image).order = image.order
           /\ Loaded(image).schema = image.schema /\ Loaded(image).rows = image.rows
<1> DEFINE ids == Ids(image.order)
           next == IF image.order = <<>> THEN 1 ELSE Max(ids) + 1
           table == Loaded(image)
<1>1. IsImage(image) /\ Ordered(image) /\ Fitting(image)
  BY DEF SoundImage
<1>2. ids = DOMAIN image.rows /\ ids \subseteq RowIds /\ image.order \in Seq(RowIds)
  BY <1>1 DEF IsImage, Ordered
<1>3. IsFiniteSet(ids) /\ ids \in SUBSET Int
  <2> HIDE DEF ids
  <2>1. IsFiniteSet(ids)
    BY <1>2, RowIdsProperties, FS_Subset
  <2>2. RowIds \subseteq Int
    BY RowIdsProperties
  <2>3. ids \in SUBSET Int
    BY <1>2, <2>2
  <2> QED BY <2>1, <2>3
<1>4. next \in 1..(MaxRowId + 1) /\ \A id \in ids : id < next
  <2>1. CASE image.order = <<>>
    <3>1. ids = {}
      BY <2>1 DEF Ids
    <3> QED BY <2>1, <3>1, BoundsAssumption
  <2>2. CASE image.order # <<>>
    <3>1. ids # {}
      <4>1. Len(image.order) \in Nat \ {0}
        BY <1>2, <2>2, EmptySeq
      <4>2. image.order[1] \in ids
        BY <4>1 DEF Ids
      <4> QED BY <4>2
    <3>2. Max(ids) \in ids /\ \A id \in ids : id <= Max(ids)
      BY <1>3, <3>1, MaxProperties
    <3> HIDE DEF ids
    <3>3. Max(ids) \in 1..MaxRowId
      BY <1>2, <3>2 DEF RowIds
    <3> QED BY <1>3, <2>2, <3>2, <3>3, BoundsAssumption
  <2> QED BY <2>1, <2>2
<1>5. /\ table.schema = image.schema /\ table.rows = image.rows /\ table.order = image.order
      /\ table.nextId = next /\ table.indexes = {}
      /\ DOMAIN table = {"schema", "rows", "order", "nextId", "indexes"}
  BY DEF Loaded
<1> HIDE DEF next, table
<1>6. IsTable(table)
  BY <1>1, <1>4, <1>5 DEF IsTable, IsImage
<1>7. Ordered(table) /\ Fitting(table)
  BY <1>1, <1>5 DEF Ordered, Fitting
<1>8. SoundTable(table)
  BY <1>2, <1>4, <1>5, <1>6, <1>7 DEF SoundTable
<1> QED BY <1>5, <1>8 DEF table

-----------------------------------------------------------------------------
(* Keys stay sound.                                                         *)

LEMMA KeysSound ==
    ASSUME DiskOK, NEW d \in DOMAIN files, NEW t, NEW c, <<t, c>> \in DOMAIN files[d].idx
    PROVE  SoundKeys(Keys(d, t, c))
BY DEF DiskOK, SoundDirectory, SoundIndex, Keys, IndexFile

LEMMA KeysAfterInsertSound ==
    ASSUME NEW keys, SoundKeys(keys), NEW v \in Values, NEW id \in RowIds
    PROVE  SoundKeys(With(keys, v, id))
<1>1. DOMAIN With(keys, v, id) = DOMAIN keys \cup {v}
  BY DEF With
<1>2. IsFiniteSet(DOMAIN keys \cup {v})
  BY FS_AddElement DEF SoundKeys
<1>3. \A u \in DOMAIN keys \cup {v} : With(keys, v, id)[u] \in RowIds
  BY DEF With, SoundKeys
<1> QED BY <1>1, <1>2, <1>3 DEF SoundKeys

LEMMA FewerKeysSound ==
    ASSUME NEW keys, SoundKeys(keys), NEW S \in SUBSET DOMAIN keys
    PROVE  SoundKeys(Restrict(keys, S))
<1>1. IsFiniteSet(S)
  BY FS_Subset DEF SoundKeys
<1> QED BY <1>1 DEF SoundKeys, Restrict

LEMMA KeysAfterThrowSound ==
    ASSUME DiskOK, NEW d \in DOMAIN files, NEW t, NEW c, <<t, c>> \in DOMAIN files[d].idx,
           NEW v, NEW keys \in KeysAfterThrow(d, t, c, v)
    PROVE  SoundKeys(keys)
<1>1. SoundKeys(Keys(d, t, c))
  BY KeysSound
<1>2. keys = Keys(d, t, c) \/ \E S \in SUBSET DOMAIN Keys(d, t, c) : keys = Restrict(Keys(d, t, c), S)
  BY DEF KeysAfterThrow
<1> QED BY <1>1, <1>2, FewerKeysSound

LEMMA KeysAfterEraseSound ==
    ASSUME DiskOK, NEW d \in DOMAIN files, NEW t, NEW c, <<t, c>> \in DOMAIN files[d].idx, NEW v
    PROVE  SoundKeys(KeysAfterErase(d, t, c, v))
BY KeysSound, FewerKeysSound DEF KeysAfterErase, Without

-----------------------------------------------------------------------------
(* A step of a command that neither saves nor removes files: the invariant  *)
(* of its new state is that of its command.                                 *)

Answers == {"none", "ok", "error"}

LEMMA OrdinaryStep ==
    ASSUME IInv, phase = "up", phase' = "up",
           cmd.pc \notin {"remove", "save"}, cmd'.pc # "remove",
           SameFiles, committed' = committed, DOMAIN dbs' = DOMAIN dbs,
           active' = active \/ active' \in DOMAIN dbs, reply' \in Answers,
           \A d \in DOMAIN dbs' : \A t \in DOMAIN dbs'[d] : \A c \in dbs'[d][t].indexes :
               <<t, c>> \in DOMAIN files'[d].idx,
           MemoryOK', DiskOK', CommandOK'
    PROVE  IInv'
<1> USE DEF IInv
<1>1. ProcessOK'
  BY DEF ProcessOK, SameFiles, Answers, MemoryOK
<1>2. FilesFollow'
  <2>1. \A d \in Databases, t \in Tables :
           HasFile(d, t)' = HasFile(d, t) /\ (HasFile(d, t) => files'[d].dat[t] = files[d].dat[t])
    BY DEF SameFiles, HasFile
  <2>2. \A d \in Databases, t \in Tables : WasCommitted(d, t)' = WasCommitted(d, t)
    BY DEF WasCommitted
  <2> QED BY <2>1, <2>2 DEF FilesFollow
<1>3. ActiveIsLoaded'
  BY DEF ActiveIsLoaded
<1>4. FailsOnlyOnIndexedRows'
  BY DEF FailsOnlyOnIndexedRows
<1> QED BY <1>1, <1>2, <1>3, <1>4

\* Memory stays.
LEMMA QuietStep ==
    ASSUME IInv, phase = "up", phase' = "up",
           cmd.pc \notin {"remove", "save"}, cmd'.pc # "remove",
           SameFiles, committed' = committed, dbs' = dbs,
           active' = active \/ active' \in DOMAIN dbs, reply' \in Answers,
           DiskOK', CommandOK'
    PROVE  IInv'
<1>1. MemoryOK'
  BY DEF IInv, MemoryOK
<1>2. \A d \in DOMAIN dbs : d \in DOMAIN files
  BY DEF IInv, ProcessOK
<1>3. \A d \in DOMAIN dbs' : \A t \in DOMAIN dbs'[d] : \A c \in dbs'[d][t].indexes :
         <<t, c>> \in DOMAIN files'[d].idx
  BY <1>2 DEF IInv, ProcessOK, SameFiles
<1> QED BY <1>1, <1>3, OrdinaryStep

\* One table changes.
LEMMA TableStep ==
    ASSUME IInv, phase = "up", phase' = "up",
           cmd.pc \notin {"remove", "save"}, cmd'.pc # "remove",
           SameFiles, committed' = committed, active' = active, reply' \in Answers,
           NEW d \in DOMAIN dbs, NEW t \in DOMAIN dbs[d], NEW table, SoundTable(table),
           \A c \in table.indexes : <<t, c>> \in DOMAIN files[d].idx,
           SetTable(d, t, table), DiskOK', CommandOK'
    PROVE  IInv'
<1>1. /\ MemoryOK' /\ DOMAIN dbs' = DOMAIN dbs
      /\ \A e \in DOMAIN dbs : DOMAIN dbs'[e] = DOMAIN dbs[e]
      /\ \A e \in DOMAIN dbs : \A u \in DOMAIN dbs[e] :
            dbs'[e][u] = IF e = d /\ u = t THEN table ELSE dbs[e][u]
  BY SetTableEffect DEF IInv
<1>2. \A e \in DOMAIN dbs : e \in DOMAIN files
  BY DEF IInv, ProcessOK
<1>3. \A e \in DOMAIN dbs' : \A u \in DOMAIN dbs'[e] : \A c \in dbs'[e][u].indexes :
         <<u, c>> \in DOMAIN files'[e].idx
  <2> SUFFICES ASSUME NEW e \in DOMAIN dbs, NEW u \in DOMAIN dbs[e], NEW c \in dbs'[e][u].indexes
               PROVE  <<u, c>> \in DOMAIN files'[e].idx
    BY <1>1
  <2>1. <<u, c>> \in DOMAIN files[e].idx
    BY <1>1 DEF IInv, ProcessOK
  <2> QED BY <1>2, <2>1 DEF SameFiles
<1> QED BY <1>1, <1>3, OrdinaryStep

-----------------------------------------------------------------------------
(* The command before and after a step.                                     *)

\* A command is in progress only while the process is up.
LEMMA Busy ==
    ASSUME IInv, cmd.pc # "idle"
    PROVE  phase = "up" /\ reply \in Answers
BY DEF IInv, ProcessOK, Idle, Answers

\* The table a command works on, and the files of its indexes.
LEMMA TableAtHand ==
    ASSUME IInv, phase = "up", NEW d, NEW t, HasTable(d, t)
    PROVE  /\ d \in DOMAIN dbs /\ d \in DOMAIN files /\ t \in DOMAIN dbs[d]
           /\ d \in Databases /\ t \in Tables
           /\ SoundTable(dbs[d][t])
           /\ \A c \in Attached(d, t) : <<t, c>> \in DOMAIN files[d].idx
           /\ Attached(d, t) \subseteq Columns
BY DEF IInv, HasTable, MemoryOK, ProcessOK, SoundTable, IsTable, Attached, IndexedColumns

LEMMA SavingOK ==
    ASSUME IInv, dbs' = dbs, cmd' = Saving(DOMAIN dbs)
    PROVE  CommandOK' /\ cmd'.pc = "save"
<1>1. cmd'.pc = "save" /\ cmd'.left = DOMAIN dbs' /\ cmd'.db = None /\ cmd'.tables = {}
  BY DEF Saving
<1>2. cmd' \in [pc : {"save"}, left : SUBSET Databases, db : Databases \cup {None}, tables : SUBSET Tables]
  BY DEF Saving, IInv, MemoryOK
<1>3. SaveCommand'
  BY <1>1, <1>2 DEF SaveCommand
<1> QED BY <1>1, <1>3 DEF CommandOK

LEMMA FinishOK ==
    ASSUME NEW answer \in Answers, Finish(answer)
    PROVE  CommandOK' /\ cmd'.pc = "idle" /\ reply' \in Answers
BY DEF Finish, Idle, CommandOK

=============================================================================

# Verification of the DBMS project

TLA+ models of the client/server DBMS in this repository, the TLC instances that
check them, and machine-checked proofs about the executor, the storage engine, the
index and the clients. Paths are relative to the
repository; `executor/src/x.cpp` stands for `src/executor/src/x.cpp`.

- [The system](#the-system): inventory of the components
- [The modules](#the-modules): what models what, and how it corresponds to the code
- [The runs](#the-runs): what TLC checks, on which instances
- [Fairness](#fairness)
- [The proofs](#the-proofs)
- [Where the code and its documentation disagree](#where-the-code-and-its-documentation-disagree)
- [What is not modelled](#what-is-not-modelled)
- [Plan](#plan)

## The system

A client sends SQL text over TCP. The server has one network thread (boost asio)
that runs the handlers of all sessions, one worker thread that executes queued
commands, and one storage engine behind a mutex.

```
 client ──frames──> Session ──> ExecutorService ──DDL, DML──> AsyncExecutor ─┐ worker thread
 (sendAndWait)      (io thread)        │                                     │
                                       └──SELECT, USE, errors─> DbmsQueryEngine (mutex)
                                                                   │
                                                   Parser ── Dbms/Database/Table ── .dat files
                                                                   │
                                                          BStarPlusIndex ── .idx pages
```

| Component | State | Operations | Interacts with | What is hard |
|---|---|---|---|---|
| Client (`client/`) | the command it waits for, polls made | `sendAndWait`: send, then poll `GET RESULT` | the server, one message each way at a time | the polls have a limit; the result may be pruned before it is fetched |
| Sessions (`server/server_socket/`) | one request and answer each | `readHeader`, `readBody`, `sendResponse` | one io thread for all of them | a handler that blocks stops every session; clients disappear |
| `ExecutorService` (`executor/src/executor_service.cpp`) | none of its own | classify; submit, execute at once, or answer `GET` | executor, engine | queued and immediate commands of one client run in different threads |
| `AsyncExecutor` (`executor/src/async_executor.cpp`) | queue, snapshots, `stop_`, two condition variables | `submit`, `getStatus`, `getResult`, `waitUntilFinished`, worker loop, destructor | callers in any thread, handler, access log | every interleaving of these; wakeups; pruning of results; shutdown with work queued |
| `DbmsQueryEngine` (`executor/src/query_engine.cpp`) | the mutex, `Dbms` | one method for each statement, `collect_candidate_rows`, attaching of indexes | parser, storage | a statement throws halfway and keeps what it changed; memory and disk diverge |
| Storage (`storage/`) | databases, active database, tables with rows, order, next id, attached indexes | row operations, `save_all`, `load_all` | files, `IIndex` | crash between files, restart, row ids after a restart, index and rows out of step |
| B*+-tree index (`index/`) | pages, metadata | `insert`, `erase`, `find`, `range_search` | its page file | borrowing, sharing, 2-to-3 splits, merges at every level; separators; leaf links |
| Parser (`server/parser/src/parser.cpp`) | the tokens | recursive descent; `combineConditions` | engine | precedence of AND and OR in a tree that is rebuilt in place |
| Lexer, script reader, classifier (`server/parser/src/lexer.cpp`, `client/main_client.cpp`, `executor/src/query_classifier.cpp`) | a position in the text | cut into requests, classify, tokenize | client, service, engine | three readers of one text, each with rules of its own about strings, semicolons and unknown characters |
| Values, string pool (`storage/`) | pool of strings | comparison of values | engine | a literal is read once for the index and once for the row |
| JSON, logs | log files | formatting | all | none that a unit test would not reach |

What makes each correct, in one sentence: the **executor** handles every accepted
request once, in order, publishes one outcome and lets nobody sleep on; the
**storage engine** keeps rows within their schema, unique where they must be, in
step with their indexes, and finds after a crash what it last saved; the **index**
answers exactly for the keys it holds, and a kill costs it no more than the keys on
the move; the **WHERE clause** selects the rows it describes, through an index or
without; the **text of a script** means the same to client, classifier and lexer; a **client** gets the answer to its own command and sees its commands
take effect in its order. `PROJECT.json` lists the components with their sources,
and under `hazards` each place where one of these could go wrong.

## The modules

| Module | Models | Used by |
|---|---|---|
| `RequestLifecycle` | abstract: what the executor promises its callers | refined by `AsyncExecutor`, component of `ClientServer` |
| `AsyncExecutor` | the executor's threads, lock and condition variables | `MCAsyncExecutor`, `AsyncExecutorProofs` |
| `AsyncExecutorProofs` | the executor's inductive invariant, theorems, and refinement of `RequestLifecycle` | |
| `TableStore` | abstract: tables in memory and on disk, without indexes, files or statements | refined by `StorageEngine` |
| `StorageEngine` | query engine and storage, statement by statement, file by file | `MCStorageEngine`, the four modules below |
| `StorageEngineInvariant` | facts about maps, sorted sequences, tables and files; the engine's inductive invariant, and what each kind of effect keeps of it | `StorageEngineProofs` |
| `StorageEngineProofs` | every action of `CrashSpec` keeps it; the safety theorems | `StorageEngineRefinement` |
| `StorageEngineRefinement` | `StorageEngine` implements `TableStore`, with kills | `StorageEngineKeys` |
| `StorageEngineKeys` | indexes are inverses of their columns, without kills | |
| `BStarPlusIndex` | the tree, helper by helper | `MCBStarPlusIndex`, the two modules below |
| `BStarPlusTree` | what a tree in a file is, what its readers find in it, which changes leave a tree | `BStarPlusIndexProofs` |
| `BStarPlusIndexProofs` | the tree's and the file's inductive invariants, every helper keeps them; the theorems | |
| `WhereCondition` | the condition parser and evaluator | `SqlRequest` |
| `SqlText` | a script's text: the client that cuts it, the classifier, the lexer | `SqlRequest` |
| `SqlRequest` | a request from its text to its condition | |
| `ClientServer` | clients, io thread, worker thread and the engine's mutex, with `RequestLifecycle` as executor | `MCClientServer`, `ClientServerProofs` |
| `ClientServerProofs` | inductive invariant and theorems about clients | |

Two pairs fit together by refinement. `AsyncExecutor` is proved to implement
`RequestLifecycle` (and checked to with its fairness), so `ClientServer` can use the latter and leave out the
executor's locks. `StorageEngine` is proved to implement `TableStore`, and takes an index as the map from keys to row ids
that `storage/include/index/index.h` promises; `BStarPlusIndex` shows that the
tree is such a map (`FindIsExact`, proved; `RangeIsExact`, checked), and `StorageEngine` what
happens where the map refuses a key. `SqlRequest` puts `SqlText` before
`WhereCondition`: all tokens are made before the first is parsed.

### AsyncExecutor

A step is one critical section of `mutex_`, or one call made outside it. The window
between `submit`'s unlock and its `notify_one` is a state (`thread[t].pc =
"notifying"`), as are the windows of `processJob`: taken but still pending
(`popped`), running (`handling`, `handled`), published but not logged (`logging`),
logged but not announced (`announcing`). `snapshots` is `snapshots_`, an id without
entry having status `absent`; `accepted` is a history of what `submit` took and
`accessLog` of what the worker logged. Both condition variables may wake without
cause; `notify_all` wakes every thread asleep at that moment. A finish is stamped with
any member of `Readings`, whatever was read before: `finishedAt` comes from
`system_clock`, which may advance, stand still or be set back
(`executor/src/async_executor.cpp:213`). Of snapshots with equal stamps any may be pruned.

### StorageEngine

`execute()` holds a mutex, so statements do not overlap; what interleaves with one
is the end of the process. A step is one effect on the disk with the memory changes
around it, and `Crash` may come between any two. `dbs` is the memory, `files` the
data directory: `.dat` images, which a rename replaces at once, and index files,
which are written through as keys come and go. `cmd` is where the statement is: the
row of an INSERT being stored or indexed, the assignment of an UPDATE between the
erased and the inserted key, the table `save_all` writes next, the index being
attached by CREATE TABLE or by the constructor, the index file that exists but has
no first page yet. An exception ends the statement
with what it changed so far in memory and without `save_all`. `committed`, a
history, is the tables as of the last answer "ok" or the last load.

Modelled as the code has them: a plain INSERT fills missing columns from DEFAULT
while INSERT with a column list leaves them NULL; uniqueness is asked of the index
only; an index file keeps the kind it was made with; `next_id_` is not saved; DROP
TABLE leaves the index files; attaching on start inserts every row's key again; a
key longer than a page's slot (256 bytes) throws, after a split has begun; an index
file without a first page is never accepted again, and the table of a CREATE TABLE
that meets one stays in memory without its index (`indexes`, the code's `indexes_`),
its uniqueness then checked row by row.

A condition is a record of operands as the parser leaves them: a column, NULL, or a
text with the number `stoll` finds in it. `Resolve` is `resolve_operand`, `Parse` is
`parse_literal_for_column`, `Holds` is the row test, and `Candidates` the ids
`collect_candidate_rows` yields through an index (`Probes`) or from the table. DELETE
tests all candidates and then erases (`BeginDelete`), UPDATE tests each one when its
loop comes to it (`MeetRow`), after the assignments to the rows before it: a row an old
key lists twice is updated twice if the condition still holds of it, and DELETE throws
when it meets it again (`EraseThrows`).

### BStarPlusIndex

`insert` and `erase` change a leaf and then call each other's helpers in tail
position, so the pending helper is a variable (`call`) and each helper an action
over all the pages it reads and writes. Leaf and internal versions that differ only
in what they move share an action. A page holds at most `MaxLeaf` or `MaxInternal`
keys by the kind of the keys; the minimum is two thirds rounded up, as in the code.
`held` is a history of the keys that should be found. The loops that go down the tree
(`find_leaf`, `subtree_min_key`, `leftmost_leaf_page_id`) are iterations of a step
(`Loop`), cut where they meet a leaf (`Descent`); the loop of `range_search` is cut at the
last leaf (`Chain`). The `logic_error` branches
have no action: had the code reached one, TLC would report a deadlock. A page that
a merge leaves is never used again, in the model as in the code.

Each helper is also a sequence of page writes (`Written`), in the code's order, and
the process may be killed after any of them: `file` is the first page, which holds
the metadata and is written last, and `Reopen` reads it back. `busy` is the key of the
operation and `moved` the keys it has put under another page so far. What the model
says of the tree then is that `find` meets no page of zeros and loses nothing but
`busy` and `moved`. More is not true: a range may meet a key twice or reach a page of
zeros and throw, and the number of keys may be off by one. A start inserts the keys of all rows again (`StorageEngine`), which throws for
the first key that is still there.

### WhereCondition

A step is one token of a legal clause; the recursion is a stack of frames. With each
condition the model carries the set of rows the clause denotes as SQL reads it, and
compares it at the end with what `evaluate_condition` makes of the tree
`combineConditions` built. Every clause within the bounds is a behaviour.

### SqlText, SqlRequest

`text` grows by one character, each of a class that at least one reader tells from
the others; the letters of CREATE, DROP, INSERT, UPDATE or DELETE are one character.
`Sent` is what the client's loop sends (`Pieces`, `Ignorable`), `Classify` the
classifier, `Tokens` the lexer. `SqlRequest` writes a script, tokenizes a request of
it, and goes on as `WhereCondition`.

### ClientServer

`wire` holds the one message that may be on a connection. The io thread takes one
handler at a time; a SELECT or USE makes it wait for the engine's mutex (`io`,
`engine`) while the worker may hold it. `AcceptWrite`, `TakeJob` and
`PublishOutcome` are the executor's steps, conjoined with `RequestLifecycle`'s.
`log` records the order in which commands were executed. A client may end at any
time (`Disconnect`), with its message delivered or not.

## The runs

| Run | Instance | Distinct states | Shows |
|---|---|---|---|
| `executor_safety` | 3 requests, 2 calling threads, 2 snapshots kept, either of 2 readings of the clock at each finish; symmetric ids and threads | 893 thousand | no job lost or reordered (`JobsInOrder`); snapshots agree with jobs (`SnapshotsFollowJobs`); `waitUntilFinished` right (`WaitAnswersSound`); the destructor drains (`DrainedWhenDestroyed`); what submit may not prune (`RecentResultsKept`) |
| `executor_liveness` | 2 requests, 2 threads, 1 snapshot, 2 readings of the clock | 152 thousand | no lost wakeup (`EveryRequestFinishes`, `WaitersReleased`, `DestructorReturns`); `RequestLifecycle` implemented with its fairness (`ImplementsFairLifecycle`); answers never go back (`OutcomeIsFinal`, `PositionOnlyAdvances`) |
| `executor_bound` | 3 requests, 1 thread | violation | `SnapshotsBounded` fails |
| `storage_rows` | 1 table, 2 columns, 1 or 2 of them indexed, ints or strings, ten conditions, row ids to 4, no crash | 76 thousand | `UniqueKeys`, `IndexMatchesRows`, `IndexIsTransparent`, `ImplementsStore`, `EveryCommandAnswered` |
| `storage_crash` | 2 databases, tables with an int, a string or no index, names reused, an over-long key, row ids to 2, a condition that lists rows by their keys, crash anywhere | 1.7 million | `RowsInOrder`, `RowsFitSchema`, `FilesOldOrNew`, `ActiveIsLoaded`, `FailsOnlyOnIndexedRows`, `ImplementsTypedStore` |
| `storage_restart` | one database, a process that ends between two commands only | violation | `ServerStarts` fails |
| `storage_stale_index` | a table name used again | violation | `FastPathAgrees` fails |
| `storage_long_key` | a string no page can hold | violation | `UniqueKeys` fails |
| `index` | 11 keys in nodes of 2, 3 or 4, kill after any page write | 1.0 million | `FindIsExact`, `RangeIsExact`, `Balanced`, `SeparatorsExact`, `MetadataAgrees`; after a kill `FindReadsOnlyNodes`, `LossIsLocal` |
| `where_condition` | all scripts of 5 characters; all clauses of 5 comparisons, 2 levels of parentheses | 238 thousand | `ReadersAgree`; `NoConditionLost`, `WrongOnlyWhenCrossed` |
| `where_precedence` | 4 comparisons | violation | `ReadAsWritten` fails |
| `client` | 2 clients with 2 and 1 commands, 1 poll, 1 result kept | 259 thousand | `AnswerIsOwn`, `OwnOrder`, `EveryCallReturns`, `AcceptedIsFinished` |

**Why the bounds are enough.** *Executor:* the worker has one job in hand, so with
three requests there are a job in hand, one queued and one finished at once, and the
third is submitted into a full table with none, one or both of the others finished; two
threads are enough for one waiter to be missed while another is told, or to wait while the
other prunes. Two readings of the clock make the second of two finishes later than the
first, level with it, or earlier, which is all that pruning compares. With two
requests and one kept snapshot (`executor_liveness`) a result is pruned while its
caller waits. The safety properties are proved for any number. *Storage:* a statement works on one table and looks at two rows at most
at a time (the row and the one its value clashes with); two rows and two values make
every clash, and the order of saves matters between two files, so two databases of
one table each suffice. Row ids to 4 in `storage_rows` let rows be deleted and
inserted again; two in `storage_crash`, where names and index files are used again,
are enough for a key to name a row that is gone, another row, or a row listed already.
The conditions of `storage_rows` have each kind of operand (a number,
a text that is none, one that starts with a number, NULL, a column) on both kinds of
index. *Index:* leaves of two keys give trees of four levels with eleven
keys; nodes of two and of four keys have pairs that do not fit one page when one is
below the minimum, nodes of three have pairs that do, so sharing, borrowing and
merging all occur for leaves and for internal nodes. Real pages hold hundreds
of keys; what decides the helper is only how the counts compare with maximum and
minimum. A kill may come in each of these operations, from every tree. *Where:* the shortest clause that is read wrong has four comparisons; five
add a chain behind or a parenthesis around it. *Text:* the readers look at one
character at a time, with no memory but the quote they are in; five characters hold
a string with a semicolon and what follows it, or two statements and a space.
*Client:* two commands of one client
are what `OwnOrder` needs, the second client's command competes for the mutex and
for the only stored result; polls beyond the first add nothing but the same read.

**Symmetry and views.** Ids and threads of `executor_safety`, a run
of invariants and of an action property, are compared for equality and nothing else. `index` uses a view of the state
that forgets the numbers of pages and the pages no longer in the tree; no action
but the allocation of the next number depends on them.

**Deadlock** is checked in the executor, storage and index runs. It is not in
`where_condition` and `client`, where the system stops: a clause ends, and a client
that has sent its commands sends no more.

## Fairness

`AsyncExecutor` and `ClientServer` assume that a thread which is not asleep keeps
running (weak fairness of the worker's steps, of a caller inside `submit` and
`waitUntilFinished`, of the destructor once begun) and that the query handler
returns. Nobody has to submit, no timeout has to pass, no wakeup has to be
spurious: liveness then rests on the notifications alone. That handlers return is
what `EveryCommandAnswered` checks of the engine, whose one fairness condition says
that a statement, holding the mutex, goes on.

`std::mutex` is not fair. Weak fairness is nevertheless enough for the io thread's
wait on the engine's mutex: while the io thread waits no request is accepted, so
the worker runs out of jobs to lock it for.

## The proofs

What TLC checks on an instance is proved here for every value of the constants. The
only assumptions are the `ASSUME`s of the modules, which TLC evaluates on each run, and
the two hypotheses that stand in the theorems themselves (`OrdinaryUse`, and
`[][ClockAdvances]_vars` in one of two theorems about pruning). Each invariant below was checked by TLC on the run of its module before it
was proved, but for that of the index, which says that a function exists and is not for
TLC; what follows from it (`FindIsExact`, `Balanced`, `SeparatorsExact`,
`MetadataAgrees`) is what TLC checks.

### The executor: `AsyncExecutorProofs`

For every set of ids and threads, every limit of stored snapshots and every sequence of
readings of the clock, set back or not (`MaxStored \in Nat`, `Readings \subseteq Nat`):

| Theorem | Establishes |
|---|---|
| `TypeCorrect` | `Spec => []TypeOK` |
| `NoJobLost` | `Spec => []JobsInOrder` |
| `SnapshotsAgree` | `Spec => []SnapshotsFollowJobs` |
| `WaitsAreSound` | `Spec => []WaitAnswersSound` |
| `DestructorDrains` | `Spec => []DrainedWhenDestroyed` |
| `ReadyIsFinal` | `Spec => OutcomeIsFinal` |
| `PositionsAdvance` | `Spec => PositionOnlyAdvances` |
| `RecentAreKept` | `Spec => RecentResultsKept` |
| `LastRequestsAreStored` | `Spec /\ [][ClockAdvances]_vars => []LastRequestsStored` |
| `ExecutorIsLifecycle` | `Spec => Lifecycle!Spec` |

All rest on `Invariance == Spec => []IInv`. `JobsInOrder` alone is nearly inductive:
the accepted jobs are what is logged, then what is in hand, then the queue, and each
step moves the boundary by one. `SnapshotsFollowJobs` is not: that a publication
changes no other job's snapshot needs the ids to be distinct (`IdsDistinct`), and
that pruning touches no pending or running one needs the victims to be finished.
`WaitAnswersSound` needs `WaitersKnown`: the predicate of `waitUntilFinished` is
true of an absent snapshot, and only because the id was accepted does absent mean
pruned, and pruned mean settled. `DrainedWhenDestroyed` needs `ExitInOrder`: the
worker leaves with an empty queue after `stop_`, and after `stop_` nothing is
submitted.

`RecentResultsKept` says what can be relied on whatever the clock does: a snapshot with
fewer than `maxStoredRequests` accepted requests after it is not erased, unless an earlier
request that is still stored has a finish time as late as its own. The victim has the
smallest time of the finished snapshots, so if it was stamped after all earlier ones none of
these is stored any more; as one worker finishes requests in order, everything stored was
accepted at the same place or after it, and a full table has at least
`maxStoredRequests - 1` requests there (`VictimIsOldest`, by counting). Where the clock was
set back the exception is real: the newer of two results may be erased; and where two requests finish at one
reading the hash table's order decides.

`LastRequestsAreStored` is the corollary for a clock that behaves: if each finish is later
than the finishes before it (`ClockAdvances`, an assumption about the machine), the times stay in
order (`FinishTimesInOrder`), the exception never applies, and the last `maxStoredRequests`
requests are all there.

`ExecutorIsLifecycle` has one lemma for each step that shows (`SubmitAccepts`,
`StartIsStart`, `PublishIsFinish`); all others are hidden, the pop included, since a
popped job still reads as pending.

### The storage engine: four modules

For every set of databases, tables, columns, schemas, commands and values, with
statements of any length, kills between any two effects on the disk, keys the index
refuses and index files that belong to a table of the past (`CrashSpec`):

| Theorem | Establishes |
|---|---|
| `TypeCorrect` | `CrashSpec => []TypeOK` |
| `RowsStayInOrder` | `CrashSpec => []RowsInOrder` |
| `RowsStayLegal` | `CrashSpec => []RowsFitSchema` |
| `CrashFindsOldOrNew` | `CrashSpec => []FilesOldOrNew` |
| `ActiveDatabaseIsLoaded` | `CrashSpec => []ActiveIsLoaded` |
| `OnlyIndexesStopAStart` | `CrashSpec => []FailsOnlyOnIndexedRows` |
| `EngineIsTableStore` | `CrashSpec => ImplementsTypedStore` |

The invariant (`StorageEngineInvariant`) says of memory that in every table `order`
lists exactly the ids of `rows`, each once and below `nextId`, in rows that fit the
schema (`MemoryOK`); of the disk the same, image by image (`DiskOK`), because a kill
makes it the memory; of the process that attached indexes have their files
(`ProcessOK`). None of it is inductive without `CommandOK`, which says what the command
in progress may point at: the row INSERT is indexing is in the table, and there are ids
for the rows to come; an UPDATE that has erased the old key has validated the row it
will store; what a save has left behind is on the disk as it is in memory; the
constructor, while it attaches indexes, has memory as the files say. `FilesOldOrNew`
needs `FilesFollow`, which places each file: as committed, or as memory has it if a save
is under way; `FailsOnlyOnIndexedRows` needs that the constructor alone meets rows while
it attaches an index.

The refinement maps a row's change, a command's answer, a file's rename and a kill to
one step of `TableStore`, and everything else (keys, index files, the bookkeeping of
loops) to none.

In `StorageEngineKeys`, for a process that is not killed (`Spec`) and under
`OrdinaryUse` (every value fits an index page, and no table gets the name of one that
was dropped), the hypotheses of the run `storage_rows`:

| Theorem | Establishes |
|---|---|
| `KeysAreUnique` | `Spec => []UniqueKeys` |
| `IndexesFollowRows` | `Spec => []IndexMatchesRows` |
| `IndexesAreTransparent` | `Spec => []IndexIsTransparent` |
| `EngineIsKeyedStore` | `Spec => ImplementsStore` |

Neither half of `OrdinaryUse` can be dropped: `storage_long_key` and
`storage_stale_index` are the counterexamples, and `storage_restart` shows why a
process that ends is left out. The invariant `KInv` says at every step, not only
between commands, that an index is the inverse of its column (`IndexesMatch`) but for
the one row whose key the command is about to insert or has just erased (`Pending`).
Uniqueness follows, as two rows with one value cannot both be what the index answers.
It needs `UpdateIsFree` (the new key was free when the row was validated, and is still),
`DeleteIsWhole`, and `AllAttached`: where an index were missing, `Table::validate` would
scan. `IndexIsTransparent` uses `TextsAssumption`, that a text's own value is a string
and the number in it an integer.

### The index: `BStarPlusTree`, `BStarPlusIndexProofs`

For every set of integer keys, every capacity of leaves and internal nodes from two on
(`CapacityAssumption`; the code's page gives room for far more), trees of any height, and
kills between any two page writes:

| Theorem | Establishes |
|---|---|
| `BStarPlusInvariant` | `Spec => []IInv` |
| `BStarPlusTypeOK` | `Spec => []TypeOK` |
| `BStarPlusFindIsExact` | `Spec => []FindIsExact` |
| `BStarPlusBalanced` | `Spec => []Balanced` |
| `BStarPlusSeparatorsExact` | `Spec => []SeparatorsExact` |
| `BStarPlusMetadataAgrees` | `Spec => []MetadataAgrees` |
| `BStarPlusFileInvariant` | `Spec => [](IInv /\ FInv)` |
| `BStarPlusFindReadsOnlyNodes` | `Spec => []FindReadsOnlyNodes` |

The pages alone do not say what a tree is without recursion, so `IInv` says that there
is a `t` that tells of each page of the tree its level, its parent, the keys under it and
the first leaf under it, each of these as its children's determine it (`NodeOK`, `Tree`).
A page that knows its level is not below itself, its one parent makes subtrees disjoint,
and what one would prove by induction over the tree is an induction over `t.level`, for
sets of numbers (`SetInduction`, from the least element of a nonempty set). `Holds` adds that
separators are the least keys to their right and that nodes are neither over-full nor
empty, with room for one exception each: the node in memory of the call in progress,
which may be one too large or have too few, and the separator before the subtree that
begins at the first leaf `f`, which may be out of date. With no call in progress there is
no exception (`Rests`); during a call the exceptions are those of the helper that is due
(`Works`, `Due`), for the file with the call's node in place of its page, and `call.path` is
the way from the root to it (`IsRoute`).

`FindIsExact` would not be inductive without `SeparatorsExact` and both would not be
without the one place where a separator may be wrong: a leaf that loses its least
key leaves a separator behind, some levels up, that the later
`propagate_subtree_min_change` has to find (`PropagatedExact`: there is one at most, and
that is the one it rewrites). `BStarPlusTree` has the lemmas about the
readers (`DescentProperties`, `PathFacts`, `SubtreeMinFacts`, `FindProperties`) and about the
changes: two siblings may share what they hold in any other way that keeps the order, two
may become one, one or two become two or three, a leaf may gain or lose a key, a root may
get a root above it or give way to its only child. `BStarPlusIndexProofs` shows of
each helper that the pages it writes are such a change, in order of its writes and for each
prefix of them as far as `TypeOK` goes, then puts the helpers together (`StepKeeps`).

After a kill there need be no tree (a pair of siblings may be half written), and `IInv` says
only what the variables are. What holds then is `FInv`, which is of the file alone: a node in
it has nodes for children (`Closed`), the root of the metadata in memory and in the file is a
node (`Rooted`), and so are the page of the call in progress, the pages above it and those
below its node in memory (`Placed`). It is what the order of the page writes is for. A list
of writes is `Sound` if no write names a child that is neither a node before the call nor
written earlier in the list, and a page of zeros is only put where there was no node; every
prefix of such a list is one too (`SoundPart`), and leaves a file that is `Closed`
(`SoundWritten`). Each helper's list is shown to be `Sound`, in the order in which the code
writes: the new nodes of a split before the parent or the root that names them. `FInv` needs `IInv`, which says that the pages
a helper writes are those of a tree, so the two are kept together (`Keeps`); `IInv` does not
need `FInv`.

### Clients: `ClientServerProofs`

For any number of clients and commands, any limit of polls and of stored results:

| Theorem | Establishes |
|---|---|
| `TypeCorrect` | `Spec => []TypeOK` |
| `AnswersAreOwn` | `Spec => []AnswerIsOwn` |
| `CommandsInOrder` | `Spec => []OwnOrder` |

The invariant `CSInv` follows a command from the client to the log: what is on a
connection is about the client's last command (`MessageOK`), a write or read that has not
arrived was not executed, a pending request was not executed and a running one was
exactly if the worker is at its announcement (`LogOK`), one request runs at a time
(`QueueOK`). `OwnOrder` needs `Settled`: a client sends its next command only when the
last one was executed or given up, so when a command is executed everything earlier is
in the log, or in `gaveUp`.

### Only model-checked

Liveness (`EveryRequestFinishes`, `WaitersReleased`, `DestructorReturns`,
`EveryCommandAnswered`, `EveryCallReturns`, `AcceptedIsFinished`) and the fairness of
`ImplementsFairLifecycle`: fairness and ENABLED are beyond the prover. Of `BStarPlusIndex`,
`RangeIsExact`, which needs the order of all leaves along their links besides `IInv`, and
`LossIsLocal`, which keys are still found after a kill: that needs to know of each prefix of
each helper's writes what a descent finds in it, where `FInv` says only that it meets nodes. The properties of `WhereCondition` and
`SqlRequest`: these modules are written with recursive operators over trees and texts;
what such an operator computes for every input needs induction over data, which is beyond
the provers used.

## Where the code and its documentation disagree

Each is a run that violates what a comment or document says; details and the quoted
lines are in `PROJECT.json`.

1. `storage_restart`: **a database with a row in an INDEXED table cannot be
   loaded.** The constructor attaches every index with `rebuild = true`
   (`executor/src/query_engine.cpp:479`); the index file still has the keys, the
   first duplicate throws, and the server ends. `FailsOnlyOnIndexedRows` shows what
   else can keep it from starting: only an index file that a kill left without its
   first page (`index/src/DiskManager.cpp:49`).
2. `storage_stale_index`: DROP TABLE leaves the index files; a new table of that
   name refuses values that only dropped rows had, or every value if the column's
   type changed.
3. `storage_long_key`: `Table::insert` stores the row before its key; a string over
   256 bytes throws there, the row stays without a key, and a second one is accepted.
4. `where_precedence`: `a OR b AND c OR d` is read as `a OR (b AND (c OR d))`.
   `WrongOnlyWhenCrossed` shows that only clauses of this shape are affected.
5. `executor_bound`: more snapshots are stored than `maxStoredRequests` when nothing
   has finished, and the surplus stays.

Behaviour worth knowing beside these:

- Finish times are readings of `system_clock`. Once it has been set back, pruning erases
  newer results and keeps older ones until it has caught up; `RecentResultsKept` says
  which results are safe all the same.
- `Table::update` erases the old key before it inserts the new one. If the new one is too
  long for a page, the row stays as it was but its key is gone, and the uniqueness check
  takes its value for free: the cause of `storage_long_key` by another way.
- INSERT with a column list leaves a column with DEFAULT NULL. The active database
  is the server's, not the session's.
- `sendAndWait` returns "accepted" after its last poll, and only then can a client's
  commands overtake one another (`OwnOrder`). `waitUntilFinished` is true at once of
  an unknown id.
- Index files only grow.
- BETWEEN leaves its upper bound out. A text in a condition that looks like a number
  is one, quoted or not (`resolve_operand`): no row with the string `'5'` is ever
  selected by `= '5'`. On an INDEXED int column a comparison with a text that is no
  number, or with NULL, is an error where a scan selects nothing. With a column as upper
  bound, `BETWEEN 1 AND v` on an INDEXED column uses the column's *name* as the key
  (`executor/src/query_engine.cpp:396`); `IndexIsTransparent` leaves this one out.
- The client cuts a script at a semicolon inside a string. The lexer skips an unknown
  character together with the one after it, so that a byte order mark takes the first
  letter of the script along. `ReadersAgree` leaves these out and shows that there is
  nothing else.
- The parser does not look past the end of a statement: `DELETE FROM t WHRE k == 1`
  deletes every row.
- Two columns can share an index file: its name is table, underscore, column, so
  `a_b` + `c` and `a` + `b_c` collide (`executor/src/query_engine.cpp:463`).

## What is not modelled

- In `StorageEngine`, kills inside an index operation: there a key is in the file or
  not. What such a kill does to the file is in `BStarPlusIndex`; there, in turn, what
  the next process makes of the file beyond `find`.
- Two columns that share an index file: names are model values.
- Power cuts and failing system calls: what was written stays written.
- LIKE, aggregates, JSON, the string pool: what they return changes no state.
- Frame sizes, the accept loop, `GET STATUS` (it changes nothing), the access log's
  file and its mutex, statements' syntax other than WHERE: a straight descent
  without state, and the escapes in strings.

## Plan

The order so far was: executor, its proofs, storage, index, conditions, composition,
kills inside index operations, operands of conditions, the text of a request; then the
proofs about the storage engine (types, rows, files, refinement, indexes), about clients,
the executor's refinement, positions and pruning, and the index. What is left:

1. `BStarPlusIndex`: the links of the leaves (`RangeIsExact`), from `t` with the order of
   its leaves, and what a kill loses (`LossIsLocal`), from `FInv` and the prefixes of writes.
2. `WhereCondition`: `NoConditionLost`, with the parser's stack as a function instead of
   a recursive operator.
3. The kinds of use between `Spec` with `OrdinaryUse` and `CrashSpec`: names that are
   used again after their index files were emptied.

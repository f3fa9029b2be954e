# A TLA+ development for libdearsql

libdearsql is a synchronous C++ database client library: one abstraction
(`IConnection` → `IDatabase`) over nine backends. It creates no threads of its
own, but its hosts call it from many: "`IConnection::database()`,
`openDatabase()`, `close()` and `dropDatabase()` may be called from different
threads …; a single `IDatabase` serializes its own calls, except `cancel()`"
(`README.md:34` of the repository). Most of what can go wrong is therefore in
the state that calls share: a server session that is in one namespace at a time
and serves the handles of many, a cache of handles, a session that is replaced
or terminated while somebody uses it, a cancel flag. That is what is modelled
here, in TLA+, checked with TLC on small instances, and proved with TLAPS for all of
them: the session, cancel and pool protocols (Postgres, Redis, Cassandra, SQL
Server, MySQL, MongoDB), the handle caches of the server connections, the Oracle
client. Next to it stand the models of what assembles an answer from several
queries (the catalog calls, proved as well) and of the pure functions an editor
relies on (statement ranges, completion, quoting).

Paths below are relative to the repository root.

## 1. Inventory

| Component | State it keeps | Operations | What is hard, and what makes it correct |
|---|---|---|---|
| `PostgresDatabase`, `PostgresSchema` (`src/postgres_connection.cpp`) | `conn_`, `searchPath_`, `mu_`, `pathMu_`; on the server: search_path, transaction block | `open`, `execute`/`executeIn`, `run`, catalog calls, `schema`, `cancel`, `alive` | the cached path against the server's through transactions, errors and user statements; two round trips per call under two mutexes. A query runs in its handle's schema or not at all; calls return |
| `PostgresDatabase::run` | the result being assembled: `kept`, `seen`, `streaming`, `stopped` | the `PQgetResult` loop | row limit against chunk size, the library's own cancel against the statements of a batch. No rows lost silently, no statement skipped, the loop ends |
| Postgres `ConnectionImpl` | `cache_`, `info_`, `open_`, `mu_` | `open`, `close`, `database`, `openDatabase`, `databases`, `createDatabase`, `dropDatabase`, `renameDatabase` | every call is several sections of `mu_` and several round trips. The default database exists; a cached handle is usable |
| `RedisConnection`, `RedisDatabase` (`src/redis_connection.cpp`) | `RedisState` (`ctx`, `selectedDb`, `mu`), `dbCache`, `selectedDb_` | `open`, `close`, `database`, `selectDatabase`, `execute`, `getTableData`, `getRowCount`, `tables`, key helpers, `databaseInfo` | one context for all logical databases; `getTableData` releases the lock half-way; broken contexts. Each handle works in its own database |
| Cassandra connection and handles (`src/cassandra_connection.cpp`) | `state_` (shared), `activeKeyspace_`, `cache_`, `open_`, `mu_`, `cacheMu_` | `open`, `close`, `execute`, catalog calls, `createDatabase`, `dropDatabase`, `database` | catalog queries run without the lock; `USE` may fail; keyspaces disappear. A session outlives its queries; each handle works in its own keyspace |
| `MSSQLDatabase`, `MSSQLSchema` (`src/mssql_connection.cpp`) | `conn_` (DBPROCESS), `cancelled_`, `inCall_`, `mu_` | `open`, `execute`, `cancel`, `alive` | a cancel flag shared by calls in line for one lock; a server that never answers. A cancel stops one call, not none and not two |
| MSSQL `ConnectionImpl`, `execOnMaster` | handle cache, default database | as Postgres | admin batches through a master connection whose later statements may fail unseen. The default database exists |
| MySQL (`src/mysql_connection.cpp`) | one `MYSQL*` per database handle, `threadId_`, `openMu_`, `mu_`; handle cache, default schema | `open`, `execute`, catalog calls, `cancel` (KILL QUERY from a throwaway connection), DDL | two first calls race to connect; a KILL that arrives late; results left unread; a batch that fails half way. One connection, protocol in step, success means the whole batch |
| MongoDB (`src/mongodb_connection.cpp`) | a client pool, handle cache, `open_`, `mu_` | command dispatch, paging, DDL, `databases` | nested `acquire()` on a bounded pool; pools replaced under calls in flight. No client is lost; nobody waits on everybody |
| Oracle (`src/oracle_connection.cpp`) | the process-wide ODPI context, its failure memo, a login session, one session per schema | `open`, `execute`, `cancel`, `needsClientInstall`, `resetContext` | a re-exec to set the loader's path; a failing fetch. No exec loop; calls return |
| Oracle client installer (`src/oracle_installer.cpp`) | files under the install root | `install`, `isInstalled` | failure, cancel and crash between download and unpack; two installs over one archive. Nothing is left behind |
| SQLite, DuckDB (`src/sqlite_connection.cpp`, `src/duckdb_connection.cpp`) | one handle per file | `open`, `execute`, `cancel`, catalog calls | tables that go away between the queries about them |
| Catalog assembly (all SQL backends), `populateIncomingForeignKeys` (`src/types.cpp`) | the answer being put together | `tables`, `views`, `materializedViews`, `routines`, `describeTable` | several queries outside a transaction, some failures skipped. What nobody touched comes back whole |
| Tokenizer, statement ranges, completion (`src/completion.cpp`) | none: pure functions | `statementRanges`, `statementRangeAt`, `complete`, `resolveIdentifierAt`, `quoteIdentifierIfNeeded` | quotes, comments, `$$` bodies, nested scopes; two walks over the same text that must agree |
| Syntax check, EXPLAIN, SQL builders, DDL helpers, `IDatabase` defaults, connection info, factory | none: formatting, tables, third-party parsers | | quoting |

How they interact: the factory makes an `IConnection`; it makes `IDatabase`
handles, cached per name by `database()` and uncached by `openDatabase()`;
schema handles (`PostgresSchema`, `MSSQLSchema`) hold a pointer to their
database and call its `executeIn`/`execute`. Redis and Cassandra handles share
the connection's own session. There are no callbacks except db-lib's interrupt
hook and the installer's progress function.

Everything hard to test is listed, at its line, under `hazards` in
`PROJECT.json`.

## 2. Modules

| Module | Models | Notes |
|---|---|---|
| `NamespacedSession` | the promise common to the backends whose handles share a session | abstract: a call is waiting, ran (in its own namespace) or refused |
| `PgSession` | `PostgresDatabase`/`PostgresSchema`: `executeIn`, `run` as one round trip, `ensureConn`, `open`, catalog calls; the server's transactional `search_path` | implements `NamespacedSession` |
| `PgSessionProofs` | the TLAPS proofs about `PgSession` | |
| `PgRun` | the inside of that round trip: every `PQgetResult` of a batch | refines the `"sent"` → `"ok"`/`"fail"` of `PgSession` informally |
| `PgConnection` | the Postgres connection above the sessions: handle cache, default database, create/drop/rename | a session here is `none`, `up` or `dead` |
| `ServerConnections`, `MCServerConnections` | the connections of MySQL, SQL Server and Oracle next to it | EXTENDS `PgConnection`: same state and handles, their own create, drop, rename and close; the backend is chosen in the initial state; `MCServerConnections` adds the symmetry of threads |
| `ConnectionProofs` | the TLAPS proofs about `ServerConnections` (with `PgConnection`) and `OracleClient` | extends both; their names are distinct |
| `RedisProofs`, `CassandraProofs`, `MySqlProofs`, `MongoProofs` | the TLAPS proofs about `RedisSession`, `CassandraSession`, `MySqlDatabase` and `MongoPool` | |
| `RedisSession`, `MCRedisSession` | `RedisState`, `RedisDatabase`, `RedisConnection` | implements `NamespacedSession` |
| `CassandraSession`, `MCCassandraSession` | `CassandraConnImpl`, `CassandraDatabase`, `DriverState` | implements `NamespacedSession` |
| `MssqlDatabase` | `MSSQLDatabase::execute`, `cancel`, `open` | |
| `MssqlProofs` | the TLAPS proofs about `MssqlDatabase` | |
| `MySqlDatabase` | one MySQL handle shared by threads | |
| `MongoPool` | the MongoDB connection, its pool and its handles | |
| `OracleClient` | installer, client files on disk, the ODPI context | disk survives a crash, memory does not |
| `CatalogLoad`, `MCCatalogLoad` | the catalog calls of Postgres, SQL Server, Oracle, SQLite, DuckDB | queries of a call in order, other sessions' DDL between them |
| `ResultProofs` | the TLAPS proofs about `PgRun` and `CatalogLoad` | extends both; their names are distinct |
| `SqlText` | tokenizer, statement ranges, quoting, and a reference reader of one character at a time | operators only |
| `SqlScopes` | the completion analyzer, `complete()`, `resolveIdentifierAt()` | operators only, two of them RECURSIVE |
| `MCSqlEditor` | the texts an editor hands to the two modules above | states are texts |

Conventions. `pc[t]` is where thread `t` is inside a library call; an action is
what happens between two points where another thread can be seen: a mutex
operation, a round trip, the end of a critical section. A section that holds the
only lock of its state from start to end is one action (Redis, Cassandra
`execute`); where another lock or no lock covers part of the state it is
several (Postgres: `pathMu_` over `mu_`; MSSQL: the atomics `inCall_` and
`cancelled_`). Variables carry the members' names without the trailing
underscore, except `selectedDb_` of `RedisConnection`, which exists next to
`selectedDb` of `RedisState`. Server state is external and comes last in each
`VARIABLES` list. History variables (`ranIn`, `touched`, `pending`,
`aimed`, `hits`, `orphan`, `execs`, `stable`, `cut`, `detailed`, `lost`, `raced`,
`crossed`, `renamed`) never appear in a guard of the code's actions; `touched` is the
one that also restricts the host, see below.

### PgSession

`Execute`, `Describe` and `Open` begin a call. `LockPath` takes `pathMu_` and
compares `searchPath_` with the handle's schema; `RunOnConn`, `RunConnects`,
`RunConnectFails` are `run()`'s lock and `ensureConn()`; the server then answers
(`UserSqlSucceeds`, `UserSqlFails`, `SetSucceeds`, `SetFails`,
`CatalogSucceeds`, `CatalogFails`, `LostFails`) and `RunEnd` releases `mu_`.
`AfterSet` and `AfterSql` are the two places where `executeIn` assigns
`searchPath_`. Statements are kinds: `query`, `begin`, `commit`, `rollback`,
`abort`, `setPath`, `setSchema`, `reset`. `NamesPath` is the substring test
("search_path", "rollback", "discard", "reset"). The server restores the path
when a block is rolled back or aborts, answers COMMIT of an aborted block with
success, and refuses everything else in one. A connection that is lost stays in
`conn_`: nothing replaces it.

`ensureConn()` writes `searchPath_` under `mu_` alone while `executeIn` reads
and writes it under `pathMu_` alone. In C++ that is a race; the model has the
interleavings (a thread in `open()` or a catalog call connects while another is
anywhere in `executeIn`), each access being one step.

### PgRun

`Chunk`, `LastChunk`, `WholeRows`, `CommandOk`, `EmptyQuery`, `CopyResult`,
`Error` and `NoMoreResults` are the branches of the loop; the server chooses
row counts and where an error comes. `Appended` is `appendPgRows`, `stoppable`
the condition under which the loop may send its own cancel. Rows are counted;
`StatementResult` keeps how many rows it holds, how many there were, and
whether its message says that they were limited.

### PgConnection

`Lookup` is `database()` under `mu_`; a handle object is a record of its name
and an identity; `Keep` closes the sessions of handles nobody refers to any
more (`shared_ptr`). `dropDatabase` is `Drop` (snapshot), `DropErase`,
`DropVia`, `DropMaintenance`/`NoMaintenance`, `Terminate`,
`DropSucceeds`/`DropFails`, `Dropped`; `renameDatabase` is `Rename`,
`RenameErase`, `RenameVia`, `Renamed`; `createDatabase` is `Create`, `Created`;
`open` is `Open`, `Opened`. Every thread makes every call (`Host`), so each of these
stages meets every stage of every call of the other thread.

### RedisSession

`Execute`, `Scan` and `Details` are the critical sections, with the SELECT of
`ensureSelectedLocked` inside (`Selected`); `NotSelected`, `NoReply`,
`NoDetails` and `DetailsNoReply` are their error paths. `getTableData` has four
results: an error, rows, rows marked unknown (the details got no reply, or only
half of them) and blank rows (no context, or SELECT refused, in the second
section); `detailed` and `lost` record what its second section met. `tables()` looks at
`ctx` once before it takes the lock; a later section checks it again, so the
early look adds no behaviour. The server queues commands between MULTI and EXEC,
SELECT included. `open()` with a context already there changes nothing and is
not an action.

`touched` is `"never"` in behaviours whose host sends no SELECT or MULTI of its
own, and otherwise says whether it has done so since the last `open()`: one run
covers both kinds of host, `SelectedDbSound` holds until the host interferes and
the refinement is stated for hosts that do not.

### CassandraSession

`Execute` is `USE` and the statement under one hold of `mu_`, `SwitchKeyspace`
the part before the statement. Catalog calls are `TakeSession` (the copy of
`state_`), then `CatalogReply` or `CatalogFails` for each query of `tables()`,
`views()` or `describeTable()`. `live` is the set of DriverStates whose
reference count is not zero. `close()` is two sections (`CloseCache`, `Close`).
`touched = "never"` here also means that no keyspace is dropped and `USE` does
not fail.

### MssqlDatabase

`CallExecute` (`++inCall_`), `Lock`, `Connect` (dbopen), `Use` (dbuse), `Send`, `Results`,
`Rows`, `Check`, `Clear` (`cancelled_ = false`), `Leave` (`--inCall_` and unlock);
`cancel()` is `CancelCheck` and `CancelMark`; `Interrupt` is the hook that
FreeTDS polls, once `ensureConn()` has set it. The server may never answer: `Use`,
`Send`, `Results` and `Rows` have no fairness, and the hook does not reach `Use`.

### ServerConnections

Every action is one of `PgConnection` or one of the backend's own. MySQL:
`MySqlDrop` (compare and forget under `mu_`), `MySqlDropVia`, `MySqlDropRuns`/
`MySqlDropFails`, `MySqlDropped` ("no default schema from here on"); sessions on
a dropped schema lose it and a MySQL handle never connects twice, so they are
`dead`. SQL Server: `MssqlForget`, `execOnMaster`, `MssqlBatchFails`,
`MssqlDropped`, `MssqlRename`, `MssqlRenamed`; its handles connect again, so a
killed session is `none`. Oracle: a database is a schema, `open` is the login
session, `close()` is two sections under two mutexes. Three history variables record
what the exceptions of the properties speak of: `raced` (databases one thread dropped
while another worked on a handle of them), `crossed` (PostgreSQL's move of the default
to a maintenance database that another thread is taking away) and `renamed` (names
SQL Server's `renameDatabase` took away).

### MySqlDatabase

A query text is the sequence of outcomes its statements will have; `wire` holds
the results the client has not read. `OpenLock`, `Connect`, `ConnectFails` are
`ensureConn()`; `ExecuteSend`, `ExecuteResult`, `Return` are `execute`; a
catalog call is a script of queries, each `CatalogSend` and `Drain`. `Cancel`
reads `threadId_` without a lock; the KILL then hits or misses whatever the
session does by then. A connection that is lost stays in `conn_`.

### MongoPool

A handle is its pool. `Acquire` waits for a client, `AcquireNested` is the second
one that `getTableData` takes through `getColumnNames`; every other call uses one
client and gives it back at its end (`Finish`), whatever the server says.
`open()` holds `mu_` through its smoke test; its handler locks again.
`databases()` copies the pool, lists with a client in hand, and calls
`database()` for each name.

### OracleClient

`install()`: `InstallEarly`, `OpenArchive`, `Downloaded`/`DownloadFails`,
`UnzipLib`, `UnzipRest`/`UnzipFails`, `Clean`, `InstallLibaio`. With two installs
one opens (and truncates) or removes the archive the other is using. The context:
`GetDpiContext` (under its mutex, from `open()` or `needsClientInstall()`),
`Remembered` (the failure memo), `Reexec`, `CreateContext`, `ResetContext`.
`Crash` and `Reexec` forget memory and keep the disk.

### CatalogLoad

`Queries` gives, for a backend and a call, the queries that follow the one for the
names, each with the part of the answer it fills and what its failure does
(throw, skip, or try another form). `NextLoad` begins them: once, about all names,
or (`TableByTable`) for one name after the other as `load()` of SQLite and DuckDB
does; `about` is what the queries in `todo` ask for, `left` the names still without
a load. `Assemble` is the return, with `populateIncomingForeignKeys`. A table is its version; a part of the answer
is the version it was read from. `Ddl` is another session between any two
queries. `Raises` are the queries that are errors when their table is gone.
For Oracle and SQL Server every result may stop half way (`cut`), which `runQuery` and
`extractDbLibResult` take for the end of the rows; whether FreeTDS reports an error
afterwards is left open. A foreign key (`Keys`, per version of a table) has the schema
and the name of its target; the answer has the bare name only (`targetTables`), out of
PostgreSQL's queries for keys inside the schema, out of SQL Server's and Oracle's for
all. Constraint names are taken as unique in a schema, which PostgreSQL's second form
relies on. MySQL's listing is a script of `MySqlDatabase` and not in this module.

### SqlText, SqlScopes, MCSqlEditor

Texts are sequences of characters out of the ones the tokenizer distinguishes;
for the analyzer a text is a sequence of tokens. `tokenAt` has one line per branch
of the tokenizer's loop. `ModeAt` is the reference: the state of a reader that
sees one character at a time. `SqlScopes` follows the `Analyzer`, a record built
once for a statement as the class is by its constructor: groups,
CTEs, relation lists, scopes, the columns of references and select lists, the
context before the cursor. Keyword lists are cut to one word of each role;
`complete` has the column names only, at a cursor after the last token.

## 3. Runs

Passing runs:

| Run | Distinct states | What it shows |
|---|---|---|
| `pg_session` | 703 564 | two threads, two schemas and the database handle, BEGIN/COMMIT/ROLLBACK, user `SET search_path` and `RESET`, failing statements, a lost connection: `PathCacheSound`, `RunsInOwnSchema`, `OneStatementAtATime`, the refinement of `NamespacedSession`, and `CallsReturn` |
| `pg_run` | 108 204 | all batches of at most three statements out of read, write, empty and COPY, 0–5 rows, limits 0–3, chunks of at most 2: `RowsWithinLimit`, `NoSilentTruncation`, `SuccessIsWholeBatch`, `OnlyCopyHangs` |
| `connections` | 1 916 618 | four backends, two threads that call everything, two databases (one of them the one the default moves to): `CachedHandleUsable`, `DefaultDatabaseExists` |
| `redis_session` | 759 740 | two threads, three handles (one index the server does not have), all command kinds, broken contexts, close and reopen: `SelectedDbSound`, `SuccessMeansRan`, the refinement |
| `cassandra_session` | 825 392 | two threads, two keyspaces, three sessions, failing `USE`, drops and creates, open and close during catalog queries: `SessionLifetime`, `ActiveKeyspaceSound`, the refinement |
| `mssql` | 66 754 | two callers, two cancellers, three effective cancels, batches of up to two result sets: `CancelsBoundCalls`, `PendingCancelHonoured`, `OneDriver`, `CancelEndsCall` |
| `mongo` | 74 565 | three threads, a pool of two clients, two pools: `TypeOK` (with the conservation of clients), `WaitsAreServed` |
| `mysql` | 256 629 | two threads, batches of up to three statements, two cancels, a lost connection: `TypeOK` (with one connection per handle), `InSync`, `SuccessIsWholeBatch` |
| `oracle` | 79 950 | two threads, five calls, one crash, all option settings: `ReexecOnce`, `ArchiveIsOwned`, `CallsReturn` |
| `catalog` | 287 038 | five backends, every call, two tables with keys to each other's side, to itself and into another schema that has a namesake, three changes by other sessions: `StableTablesComplete`, `KeysBothWays` |
| `text` | 248 053 | every text of up to five characters in five dialects; up to six tokens after five beginnings: `LiteralsAgree`, `OneStatementAtCursor`, `NamesReadBack`, `NearestWins`, `RelationSlots`, `OfferedResolves` |

`pg_stuck` shows a disagreement between the code and its own comment: a statement
fails in a transaction block, `searchPath_` becomes UNKNOWN, so every later
`execute()`, ROLLBACK included, first sends SET/RESET search_path, which the block
refuses.

### Known differences

What the models contain, or what was read in the code, without a run of its own;
the properties of section 3 are stated so that they hold with these:

- `executeIn` does not recognise ABORT and SET SCHEMA (`src/postgres_connection.cpp:446`), and does not see the failure of its own SET or of a catalog query inside a transaction block (`:438`); with `"abort"` or `"setSchema"` in `Kinds`, or with `QuietFailures` and `"begin"`, `RunsInOwnSchema` fails. The theorems name this condition `Tracked`.
- `describeTable` of an unqualified name on a Postgres database handle uses `current_schema()` without resetting the path (`:536`), although "database-level queries reset it" (`README.md:40`).
- COPY FROM STDIN / TO STDOUT: `PQgetResult` repeats its result and `run()` never returns (`:404`); `OnlyCopyHangs` says that nothing else does that.
- A lookup of a database (`database()`, `open()`, another drop) between the erase and the DROP of a Postgres or MySQL `dropDatabase` (`src/postgres_connection.cpp:988`, `src/mysql_connection.cpp:878`) caches a handle whose session is then taken away; it stays in the cache, dead, and if the database is created again `database()` returns it. `CachedHandleUsable` says that a dead handle comes from such a race (`raced`) and from nothing else.
- `connectedDb` in a Postgres `dropDatabase` is decided on a snapshot (`:987`), and the default moves to the maintenance database at the end (`:1006`) without another look: if a second thread is dropping or renaming that one meanwhile, the default ends on a database that is gone. `DefaultDatabaseExists` has this as its exception (`crossed`).
- SQL Server's `renameDatabase` (`src/mssql_connection.cpp:906`) renames the connected database too and leaves `info_.database` on the old name: later calls go to a database that is not there. `DefaultDatabaseExists` has this as its exception (`renamed`).
- A SELECT or MULTI sent through `execute()` of a Redis handle moves the connection without `selectedDb` noticing (`src/redis_connection.cpp:342`, `:428`); the same holds for a CQL `USE` (`src/cassandra_connection.cpp:321`).
- `close()` or a failing connection between the two halves of a Redis `getTableData` gives blank or "unknown" rows instead of an error (`src/redis_connection.cpp:464`); `SuccessMeansRan` says that nothing else does. An empty list of keys looks the same whether there are none or the context was lost (`:370`).
- The Redis handle cache is not locked (`src/redis_connection.cpp:698`), although "the handle cache is locked" (`README.md:34`); `open()` takes a broken context for an open one (`:562`).
- A Cassandra `USE` that fails is not looked at (`src/cassandra_connection.cpp:326`): the statement of a dropped keyspace's handle runs in the previous keyspace. Catalog calls return what they have when a query fails (`:492`), although they "throw `dearsql::Error` on failure" (`README.md:28`); MySQL's swallow every failure in the same way.
- A cancel that lands while an MSSQL call waits for `mu_` is lowered by the call that holds it (`src/mssql_connection.cpp:787`), although it "is meant for it" (`:785`). `execOnMaster` reports success when only a later statement of its batch fails (`:303`).
- `ensureConn` of SQL Server calls `dbuse()` (`:269`) before it sets the interrupt hook (`:701`) and without a timeout, so a server that goes silent there keeps the call, `mu_` and every call behind it, and no cancel helps. `CancelEndsCall` is about calls that have their session.
- Foreign keys are filed under the bare name of their target (`src/types.cpp:16`), and the queries of SQL Server (`src/mssql_connection.cpp:405`) and Oracle (`src/oracle_connection.cpp:574`) return keys into other schemas: a listed table gets an incoming key that belongs to its namesake elsewhere. PostgreSQL's queries filter by schema; the fallback form (`src/postgres_connection.cpp:607`) joins by constraint name alone, which PostgreSQL does not make unique in a schema.
- An Oracle client that was unpacked in part, by a crash or a failing `unzip`, counts as installed (`src/oracle_installer.cpp:247`), although `isInstalled` "Returns true if a usable Oracle Instant Client is already present" (`include/dearsql/oracle_installer.hpp:27`). A failure to create the context while another thread is still unpacking is remembered until `resetContext()`.
- An Oracle fetch that fails is the end of the rows (`src/oracle_connection.cpp:322`), and so is one of SQL Server (`src/mssql_connection.cpp:155`) unless the next `dbresults` fails as well, also for a "catalog query; throws on failure" (`:350`). The GRANT of Oracle's `createDatabase` is not looked at.
- MongoDB: with every client of a pool in a `getTableData` that needs its second one, all of them wait (`src/mongodb_connection.cpp:446`). `open()` on an open connection keeps the handles of the old pool in the cache; `databases()` may contain null handles when `close()` comes in between.
- `statementRangeAt` trims the spaces at the end of an unclosed literal, `statementRanges` does not; `OneStatementAtCursor` compares without spaces. After a dot, the relation list takes a keyword for a name and the context does not (`RelationSlots` excludes those texts). The columns of a CTE are offered as the target of INSERT INTO but do not resolve.

### Bounds

Two threads are enough for every interleaving of two calls; locks are held by
one thread at a time and no property speaks of three. Two schemas plus the
default give a path that is right, one that is stale and one that is neither.
Redis needs an index the server has, another, and one it refuses. Three
Cassandra sessions: the current one and one for each thread that still holds an
old one, so `open()` always finds a free object. `MaxHandles = |Threads| + 2`
for the same reason. Two databases in `connections`, one of them the one the default
moves to, give a drop of the default, of the maintenance database and both at once;
three and two full threads are beyond the time of a run, and the theorems hold for any
number of both. `PgRun`'s `ChunkCap = 2` with limits 1, 2, 3 puts the limit
below, at and above the chunk size, and rows up to 5 give a last chunk that is
full, partial or missing; three statements put a read before a read and before
a write. MSSQL's three cancels are one more than the calls that can be in
progress. No run uses a state constraint; the bounds are in guards. Threads are
a symmetry set in `connections`, `redis_session` and `cassandra_session` (with the session
objects); those runs check safety only, the refinement included, where symmetry
is sound.

Three MongoDB threads over two clients: two can use the pool up while a third
waits or closes. One MySQL table in a listing gives a call of three queries; three
statements put a failure first, in the middle and last in a batch; two kills can hit one batch twice or two calls. Oracle's five calls let two installs,
two contexts and a reset interleave; one crash separates two process lives. The
two tables give a key to another table, one to the table itself and one to a
namesake in another schema; three
changes drop, create again and alter one of them within a call. Five characters
hold an opened and a closed literal with a doubled quote or a comment mark; the
beginnings of `MCSqlEditor` put the six tokens inside a subquery, a CTE, a nested
scope and an INSERT, where shorter texts would not reach.

`CHECK_DEADLOCK FALSE` is used where a behaviour really ends: a run of `run()`, a
catalog call, a text of full length, and the models whose calls are bounded
(`MaxCalls` in `MySqlDatabase`, `MongoPool`, `OracleClient`).

### Fairness

- `PgSession!FairSpec`: weak fairness for a thread inside the library and for the server's answers to what it received. Mutexes are not fair: `CallsReturn` says that some call returns, not every one.
- `PgSession!RollbackFairSpec` (only for `pg_stuck`): in addition strong fairness for a host that keeps sending ROLLBACK, the most cooperative host there is; the block still never ends.
- `PgRun!FairSpec`: the server answers and the loop keeps asking. An error is never forced to happen.
- `MssqlDatabase!FairSpec`: library threads run, `dbopen` ends (it has a login timeout) and FreeTDS polls its hook once it is set; the server may be silent for ever, in `dbuse` too, which has neither.
- `OracleClient!ClientSpec`: a thread inside a call goes on; downloads have timeouts and `unzip` ends.

## 4. Proofs

`PgSessionProofs` proves, for every set of threads and schemas and every choice
of `Kinds` and `QuietFailures`, from `NameAssumption` and `KindAssumption` only
(distinct names; known kinds):

- `TypeCorrect`: `Spec => []TypeOK` (with `SavedPath`: a path to restore is there exactly in an active block);
- `OneStatement`: `Spec => []OneStatementAtATime`;

and under `Tracked` (the host sends no ABORT and no SET SCHEMA, and if it uses
transaction blocks no SET or catalog query fails unseen):

- `PathCacheCorrect`: `[]PathCacheSound`;
- `OwnSchemaCorrect`: `[]RunsInOwnSchema`;
- `SessionRefines`: `Spec => ImplementsNamespacedSession`.

The argument. `PathCacheSound` is not inductive: it says nothing while a round
trip of `executeIn` is finished and not recorded. `IInv` adds: who holds `mu_`
and `pathMu_` in which stage (`Locking`, from which mutual exclusion follows);
that statements come from the host and only BEGIN opens a block (`Blocks`, which
with `Tracked` makes unseen failures harmless because there is no block to
abort); that without a connection no schema is recorded, and a SET that
succeeded had one (`NoConnection`, `SetReached`: a reconnect by another thread
cannot slip under a recorded path); and `Path`: `CacheAgrees` (a known path is
the server's unless some thread is `Stale`, that is, has a finished round trip
that `executeIn` will record), `SetApplied` (a successful SET put the server on
the caller's schema), `OwnPath` (a statement is sent only when the cached path
is the caller's) and `RanOwn`. The two lower layers are proved on their own
(`LocksCorrect`, `BlocksCorrect`, `NoConnectionCorrect`), `PathStep` then has one
step per action. `AbsStep` maps each action to a step of `NamespacedSession` or
to a stutter: the statement's execution is `Run`, a failed SET, connect or lost
connection is `Refuse`, `AfterSql` and the failing `AfterSet` are `Return`.

`ResultProofs` proves, from `RunAssumption` only, for batches of any length and
any row counts, limits and chunk sizes: `RunTypeCorrect`, `LimitCorrect`
(`RowsWithinLimit`), `TruncationCorrect` (`NoSilentTruncation`) and
`WholeBatchCorrect` (`SuccessIsWholeBatch`). The properties speak of the
statements already in the result, so `RunInv` adds how the counters relate to the
rows sent (`Counters`: while streaming `kept` is the smaller of the limit and
`seen`), that the loop stops only a read that is the whole batch and only past
the limit (`Stopping`), and that without a failure there is one result per
statement executed (`Progressing`).

It also proves, from `CatalogAssumption` only (a number of changes), for any set of tables,
any foreign keys in and out of their schema and any number of changes by other sessions:
`CompleteCorrect` (`StableTablesComplete`) and `KeysCorrect` (`KeysBothWays`). Both
speak of a call that has returned. On the way there (`CatalogInv`), each part an
untouched, listed table is owed is either of the table's version already, or its
query is in `todo`, or the table's load is still to come (`Loaded`): a query that
runs moves a part from the second to the first, which for the primary keys needs
that the columns come before them (`KeysAfterColumns`, a fact about all the scripts
of `Queries`: `QueriesFacts`); one that fails leaves no gap, because the only parts
that are passed over are sizes (`OnlySizes`). A change by another session takes its
table out of `stable`, and the next load begins only when `todo` is empty. The
incoming keys are then those of the answer (`Filed`), and none of an untouched table is
false because whatever was read of it is its present version, also where results were
cut (`ReadAsIs`).

`MssqlProofs` proves, from `MssqlAssumption` only, for any number of calling and
cancelling threads, result sets and cancels: `TypeCorrect`, `OneDriverCorrect`
(`OneDriver`), `PendingCorrect` (`PendingCancelHonoured`) and
`CancelsBoundCorrect` (`CancelsBoundCalls`). `inCall_` is the cardinality of the
set of calls in progress (`Counted`), which is what keeps it from going below
zero; the flag a call found raised stays raised until that call lowers it
(`Honoured`, by mutual exclusion); and every cancel is accounted for (`Budget`):
calls stopped so far, plus cancels between their two steps, plus one if the flag
is up and has not stopped a call yet, are at most the cancels that found a call.

`RedisProofs` proves, from `RedisAssumption` only, for any number of threads,
logical databases and handle indexes: `SelectedDbCorrect` (`SelectedDbSound`),
`SuccessCorrect` (`SuccessMeansRan`) and `SessionRefines`
(`ImplementsNamespacedSession`). `selectedDb` is right by itself once the types
are known (`SelectedMeets`: what `ensureSelectedLocked` leaves behind). Success
needs what the stages of a call know (`Stages`: nothing ran before the first
section under the lock, something did before the second half of `getTableData`),
and that a call on its way to the second half either has its loss of the context
recorded or a context whose SELECT the server takes (`Marked`).
The refinement needs that a host that leaves SELECT and MULTI alone is never seen
sending one (`Polite`) and that what ran, ran in the handle's database
(`RanOwnCorrect`).

`CassandraProofs` proves, from `CassandraAssumption` only, for any number of
threads, keyspaces and sessions: `LifetimeCorrect` (`SessionLifetime`),
`ActiveKeyspaceCorrect` (`ActiveKeyspaceSound`) and `SessionRefines`. The stages
of a call (`Calls`) say that only a catalog query has a reference to a session;
the refinement adds that where nothing is dropped and nobody sends USE every
keyspace is there (`Undisturbed`), so that no USE fails unnoticed
(`ExecuteRunsOwn`). `AbsSteps` matches the steps of `NamespacedSession`, once for
each way the abstract stage of one thread can move; `AbsStep`, in both modules,
has one case per action.

`MySqlProofs` proves, from `MySqlAssumption` only, for any number of threads,
tables of a listing, statements of a batch, calls and cancels: `TypeCorrect`
(with it: one connection per handle), `InSyncCorrect` (`InSync`) and
`SuccessCorrect` (`SuccessIsWholeBatch`). What is left of a call is a tail of its
script (`RestOfCall`, `Left`); `openMu_` and `mu_` exclude (`Opening`, `Locking`);
there is something on the wire exactly while the holder of `mu_` reads (`Wire`);
and as long as a call has reported no failure, a statement of its batch that did
not run is still to be met on the wire (`Reported`), also after a KILL or the loss
of the connection put it there.

`MongoProofs` proves, from `MongoAssumption` only (a finite set of threads, pools
of at least one client), for any number of threads, names, pools, clients and
calls: `TypeCorrect`, which is the conservation of clients, and `WaitsCorrect`
(`WaitsAreServed`). `Types` says how many clients each stage of a call holds and
that calls, handles and the cache only name pools that were made; a step changes
`free` by what the thread that moves takes or gives (`Moved`, by cardinalities),
which makes `Conserved` inductive for all pools, the ones not made yet included:
that is why a new pool is full (`Stock`). `mu_` is held across steps only by
`open()` (`LocksCorrect`). If nobody can go on, `mu_` is free and every call waits
for a client of an empty pool with none or one in hand, so conservation leaves
exactly `MaxPool` calls of `getTableData` with one each: the exception the property
names.

`ConnectionProofs` proves, from `ConnectionAssumption` only, for any number of
threads, databases and handles, and for the connections of PostgreSQL, MySQL,
SQL Server and Oracle:

- `ShapeCorrect`: types; a handle is cached under the name of its own database; at
  each stage a call has the handle and the names it works on; a handle nobody refers
  to has no session;
- `DefaultCorrect` (`DefaultDatabaseExists`) and `CacheCorrect` (`CachedHandleUsable`),
  for threads that make any calls in any interleaving.

The argument. Both properties depend on what a call remembers across its round
trips, and neither is inductive. `Shape` comes first: one
lemma for the calls on handles, one for the ways a call ends (`ShapeEnds`: what a
call returns to the cache, and that closing the last reference drops the session),
one for the steps that erase handles (`ShapeForgets`) and one for those that only
note names. `DefaultInv` then says, server by server, where the default can go.
PostgreSQL: a session that is up is on a database that exists (`Live`, since the server
refuses to drop or rename a database somebody is connected to), so a drop of the default
that reached its DROP through the maintenance database leaves that one there
(`PgCall`); what another thread can still do to it was begun before, and is recorded in
`crossed`. MySQL and SQL Server never drop the database they fall back to, and SQL
Server's rename is recorded in `renamed`; Oracle's default does not move. `UsableInv`
says that a dead session is one of a database in `raced` (`Dead`), for which it needs
that a drop nobody raced with finds nothing under its name in the cache that has a
session other than the one it drops through (`Evicted`). Each step is proved against
these for the step's server only; the steps of the other groups change nothing they
speak of (`QuietSteps`). SQL Server's and Oracle's handles connect again, so that
`CachedHandleUsable` says nothing about them.

It also proves, from `OracleAssumption` only, for any number of threads,
calls and crashes: `LocksCorrect` (the mutex of the context is held by the thread
that creates the context or runs `getDpiContext`'s install and by nobody else),
`ReexecCorrect` (`ReexecOnce`) and `ArchiveCorrect` (`ArchiveIsOwned`). An image
that was exec'ed has the guard in its environment (`Guarded`), and every archive
on disk belongs to a thread in a stage that will remove it, which the check and
the libaio step are not (`Owned`).

No theorem has a hypothesis except those named `Tracked`; the
conditions in the other properties (`touched`, `lost`, `raced`, `crossed`, `renamed`,
`cut`) are part of the properties, in the runs as well as in the theorems.

Only model-checked:

- all liveness (`CallsReturn`, `OnlyCopyHangs`, `CancelEndsCall`): it needs ENABLED and fairness, which the prover does not handle;
- the properties of `MCSqlEditor`: the operators of `SqlText` and `SqlScopes` are recursive over texts and there is no induction over data here.

Every other invariant the runs check is stated by a theorem.

## 5. Not modelled

- Text: assembly of SQL, CQL and Redis commands, value conversion, messages, phase timings, EXPLAIN trees, connection strings. They are data for the properties above.
- Syntax checking hands the text to third-party parsers.
- The statement loops of SQLite, DuckDB and Oracle handles: one statement after the other up to the first failure, under one mutex of the handle (DuckDB, Oracle) or under the engine's own serialisation (SQLite, where the error text and `affectedRows` are read from the shared `sqlite3` after the step and may be another thread's).
- The Redis key helpers and `databaseInfo`; Cassandra paging (`rowLimit <= 0` reads the first page of 1000 only, `src/cassandra_connection.cpp:331`).
- MongoDB's command dispatch and schema inference; an insert or command without a document is reported as success.
- Completion's ranking, keyword and function lists, snippets, DISTINCT ON and TOP expressions, sequences; dollar quotes are in the tokenizer but not in its reference reader.
- TLS and login options. `alive()` and `isOpen()` read a member and change nothing. What a C++ data race does beyond the interleaving of its accesses (the Oracle login session and the MySQL handle are read without their lock in places). Postgres `cancel()` is the failure of whichever statement it hits. FreeTDS's state after a failing `dbresults` is not determined by this code.

## 6. Plan

Modelled and checked: the session protocol of the three backends whose handles
share a session; the Postgres result loop; the connections of the four server
backends with a handle per database; the cancel protocols of SQL Server and MySQL;
the MongoDB pool; the Oracle client; the catalog calls; the text functions of the
editor. Proved: every safety property the runs check, except those of the text functions
(section 4).

What is left is the recursion over texts and liveness (section 4), which this prover
does not reach. Modules are written to be proved about: no RECURSIVE operator outside `SqlScopes`, named
assumptions, one action per step.

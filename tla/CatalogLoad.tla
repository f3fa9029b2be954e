----------------------------- MODULE CatalogLoad -----------------------------
(***************************************************************************)
(* How tables(), views(), describeTable() and the other catalog calls of   *)
(* the PostgreSQL, SQL Server, Oracle, SQLite and DuckDB backends put      *)
(* their answer together: several queries, one after the other, outside    *)
(* any transaction, while other sessions change the catalog.               *)
(*                                                                         *)
(* A table is its version: 0 when it does not exist, and a new number each *)
(* time it is created or altered.  A query returns the versions of its     *)
(* tables at that moment; a part of the answer is the version it was read  *)
(* from, 0 when nothing was found.                                         *)
(***************************************************************************)
EXTENDS Naturals, Sequences

CONSTANTS
    Tables,     \* names of tables (or views) of one schema
    Keys(_, _), \* Keys(t, v): the foreign keys of t's version v, each the schema
                \* ("own" or "other") and the name of the table it refers to
    MaxDdl      \* bound: changes of the catalog during a call

ASSUME CatalogAssumption == MaxDdl \in Nat

VARIABLES
    engine,    \* the backend, fixed
    call,      \* the call, fixed
    version,   \* the server's catalog
    ddl,       \* changes so far
    stable,    \* tables no one changed since the call began
    names,     \* what the names query returned
    left,      \* the names nothing was asked about yet
    about,     \* the tables the queries in todo are about
    todo,      \* queries still to send
    got,       \* the parts of each table's answer
    state,     \* "loading", "returned" or "threw"
    incoming,  \* incomingForeignKeys of each table: the tables that refer to it
    cut        \* a result stopped half way

vars == <<engine, call, version, ddl, stable, names, left, about, todo, got, state, incoming, cut>>

----------------------------------------------------------------------------
(***************************************************************************)
(* The queries of each call, about all listed tables at once or, table by  *)
(* table, about one.  A query reads one part of the answer; its failure    *)
(* makes the call throw, skips the part, or is tried again in another form *)
(* ("retry").                                                              *)
(***************************************************************************)
Reader(part) == [part |-> part, fails |-> "throw"]
Optional(part) == [part |-> part, fails |-> "skip"]
Retried(part) == [part |-> part, fails |-> "retry"]

\* PostgresDatabase::tablesIn: sizes are optional, foreign keys have a second form.
tablesIn == <<Reader("columns"), Retried("foreignKeys"), Optional("size")>>
viewsIn == <<Reader("columns")>>
materializedViewsIn == <<Reader("columns")>>
describeIn ==
    <<Reader("columns"), Reader("primaryKeys"), Reader("indexes"), Reader("foreignKeys"),
      Optional("size")>>

\* loadTablesForSchema and describeTableInSchema of SQL Server.
loadTablesForSchema ==
    <<Reader("columns"), Reader("primaryKeys"), Reader("foreignKeys"), Reader("indexes")>>
loadViewsForSchema == <<Reader("columns")>>
describeTableInSchema ==
    <<Reader("columns"), Reader("primaryKeys"), Reader("foreignKeys"), Reader("indexes")>>

\* OracleDatabase: columns(), primaryKeys(), foreignKeys(), indexes(), for a schema or a table.
oracleReaders ==
    <<Reader("columns"), Reader("primaryKeys"), Reader("foreignKeys"), Reader("indexes")>>
oracleTables == oracleReaders
oracleViews == <<Reader("columns")>>
oracleDescribe == oracleReaders

\* SQLiteDatabaseNode::load and DuckDBDatabaseNode::load.
sqliteSize == Optional("size")
sqliteLoad(isView) ==
    IF isView THEN <<Reader("columns")>>
    ELSE <<Reader("columns"), Reader("foreignKeys"), Reader("indexes"), sqliteSize>>
duckdbLoad(isView) ==
    IF isView THEN <<Reader("columns")>>
    ELSE <<Reader("columns"), Reader("indexes"), Reader("foreignKeys")>>

\* Schemas, sequences and routines are lists of names: nothing is asked after them.
routinesIn == <<>>
loadRoutinesForSchema == <<>>
oracleRoutines == <<>>
sequences == <<>>

Engines == {"postgres", "mssql", "oracle", "sqlite", "duckdb"}
Calls == {"tables", "views", "materializedViews", "names", "describe"}

\* What follows once the names are known, for all of them or for each.
Queries(e, c) ==
    CASE c = "names" /\ e = "postgres" -> routinesIn
      [] c = "names" /\ e = "mssql" -> loadRoutinesForSchema
      [] c = "names" /\ e = "oracle" -> oracleRoutines
      [] c = "names" /\ e \in {"sqlite", "duckdb"} -> sequences
      [] c = "tables" /\ e = "postgres" -> tablesIn
      [] c = "tables" /\ e = "mssql" -> loadTablesForSchema
      [] c = "tables" /\ e = "oracle" -> oracleTables
      [] c \in {"tables", "views", "describe"} /\ e = "sqlite" -> sqliteLoad(c = "views")
      [] c \in {"tables", "views", "describe"} /\ e = "duckdb" -> duckdbLoad(c = "views")
      [] c = "views" /\ e = "postgres" -> viewsIn
      [] c = "views" /\ e = "mssql" -> loadViewsForSchema
      [] c = "views" /\ e = "oracle" -> oracleViews
      [] c = "materializedViews" -> materializedViewsIn
      [] c = "describe" /\ e = "postgres" -> describeIn
      [] c = "describe" /\ e = "mssql" -> describeTableInSchema
      [] c = "describe" /\ e = "oracle" -> oracleDescribe

\* SQLite and DuckDB load one table after the other, the others all in one go.
TableByTable == engine \in {"sqlite", "duckdb"} \/ call = "describe"

Parts == {"columns", "primaryKeys", "foreignKeys", "indexes", "size"}
Nothing == [t \in Tables |-> [p \in Parts |-> 0]]

----------------------------------------------------------------------------
Versions == 0..(MaxDdl + 1)

TypeOK ==
    /\ engine \in Engines /\ call \in Calls
    /\ version \in [Tables -> Versions]
    /\ ddl \in 0..MaxDdl
    /\ stable \subseteq Tables
    /\ names \subseteq Tables /\ left \subseteq names /\ about \subseteq names
    /\ todo \in Seq([part : Parts, fails : {"throw", "skip", "retry"}])
    /\ got \in [Tables -> [Parts -> Versions]]
    /\ state \in {"names", "loading", "returned", "threw"}
    /\ incoming \in [Tables -> SUBSET Tables]
    /\ cut \in BOOLEAN
    /\ \A t \in Tables \ names : got[t] = Nothing[t]

\* describe knows the one name it is asked for; the other calls ask for the names first.
Init ==
    /\ engine \in Engines
    /\ call \in IF engine = "postgres" THEN Calls ELSE Calls \ {"materializedViews"}
    /\ version \in [Tables -> {0, 1}]
    /\ ddl = 0
    /\ stable = Tables
    /\ IF call = "describe"
       THEN (\E t \in Tables : names = {t}) /\ state = "loading"
       ELSE names = {} /\ state = "names"
    /\ left = names
    /\ about = {}
    /\ todo = <<>>
    /\ got = Nothing
    /\ incoming = [t \in Tables |-> {}]
    /\ cut = FALSE

Existing == {t \in Tables : version[t] > 0}

\* Another session creates, alters or drops a table.
Ddl(t) ==
    /\ state \in {"names", "loading"}
    /\ ddl < MaxDdl
    /\ ddl' = ddl + 1
    /\ \E v \in {0, ddl + 2} : v # version[t] /\ version' = [version EXCEPT ![t] = v]
    /\ stable' = stable \ {t}
    /\ UNCHANGED <<engine, call, names, left, about, todo, got, state, incoming, cut>>

(***************************************************************************)
(* Oracle's runQuery and SQL Server's extractDbLibResult leave their row   *)
(* loop when a fetch fails, as at the end of the rows; whether an error    *)
(* follows is up to the client library.                                    *)
(***************************************************************************)
CutsResults == engine \in {"oracle", "mssql"}

\* The answer of the names query: all of them, or the first ones when it stops half way.
NamesQuery ==
    /\ state = "names"
    /\ \E ns \in IF CutsResults THEN SUBSET Existing ELSE {Existing} :
        /\ names' = ns
        /\ left' = ns
        /\ cut' = (cut \/ ns # Existing)
    /\ state' = "loading"
    /\ UNCHANGED <<engine, call, version, ddl, stable, about, todo, got, incoming>>

\* The names query fails: the call throws.
NamesThrow ==
    /\ state = "names"
    /\ state' = "threw"
    /\ UNCHANGED <<engine, call, version, ddl, stable, names, left, about, todo, got, incoming, cut>>

\* load() of the next table (in any order: it does not matter here), or of all the names.
NextLoad ==
    /\ state = "loading"
    /\ todo = <<>>
    /\ left # {}
    /\ \E ts \in IF TableByTable THEN {{t} : t \in left} ELSE {left} :
        /\ about' = ts
        /\ left' = left \ ts
    /\ todo' = Queries(engine, call)
    /\ UNCHANGED <<engine, call, version, ddl, stable, names, got, state, incoming, cut>>

\* The tables a query finds, of those it is about.
Found == about \cap Existing

(***************************************************************************)
(* Queries about one table that is gone: DuckDB's table_info and           *)
(* PostgreSQL's regclass casts are errors, the others find nothing.        *)
(***************************************************************************)
Raises(q) ==
    /\ TableByTable
    /\ Found = {}
    /\ \/ engine = "duckdb" /\ q.part = "columns"
       \/ engine = "postgres" /\ q.part \in {"primaryKeys", "size"}

\* Keys are flags on the columns read before: without columns they go nowhere.
Stored(t, q) == q.part # "primaryKeys" \/ got[t]["columns"] > 0

\* describeIn and the others: nothing more to ask when PostgreSQL finds no column.
Rest(q, found) ==
    IF engine = "postgres" /\ call = "describe" /\ q.part = "columns" /\ found = {}
    THEN <<>> ELSE Tail(todo)

QueryRuns ==
    /\ state = "loading"
    /\ todo # <<>>
    /\ ~Raises(Head(todo))
    /\ \E found \in IF CutsResults THEN SUBSET Found ELSE {Found} :
        /\ got' = [t \in Tables |->
                    IF t \in found /\ Stored(t, Head(todo))
                    THEN [got[t] EXCEPT ![Head(todo).part] = version[t]] ELSE got[t]]
        /\ cut' = (cut \/ found # Found)
        /\ todo' = Rest(Head(todo), found)
    /\ UNCHANGED <<engine, call, version, ddl, stable, names, left, about, state, incoming>>

\* A failed query is passed over as if it had found nothing.
QueryFailsQuietly ==
    /\ state = "loading"
    /\ todo # <<>>
    /\ todo' = Tail(todo)
    /\ UNCHANGED <<engine, call, version, ddl, stable, names, left, about, got, state, incoming, cut>>

\* A query fails: rows() and queryRows() throw; sizes are optional; retry is a second form.
QueryFails ==
    /\ state = "loading"
    /\ todo # <<>>
    /\ \/ Head(todo).fails = "throw" /\ state' = "threw" /\ UNCHANGED todo
       \/ Head(todo).fails = "skip" /\ todo' = Tail(todo) /\ UNCHANGED state
       \/ Head(todo).fails = "retry" /\ todo' = [todo EXCEPT ![1] = Reader(@.part)] /\ UNCHANGED state
    /\ UNCHANGED <<engine, call, version, ddl, stable, names, left, about, got, incoming, cut>>

(***************************************************************************)
(* The bare target names of the rows the foreign key queries return for a  *)
(* version of a table.  PostgreSQL's two forms join the target on the      *)
(* schema of the table and SQLite and DuckDB know no other keys; SQL       *)
(* Server's OBJECT_NAME and Oracle's rc.TABLE_NAME leave the schema out.   *)
(***************************************************************************)
LeavesSchemaOut == engine \in {"mssql", "oracle"}

\* PostgreSQL's join without tgt.relnamespace = src.relnamespace.
targetTablesUnfiltered(t, v) == {k.table : k \in Keys(t, v)}

targetTables(t, v) ==
    {k.table : k \in {k \in Keys(t, v) : k.schema = "own" \/ LeavesSchemaOut}}

\* The keys of each listed table go to the tables of their bare name, if those were listed.
populateIncomingForeignKeys ==
    [t \in Tables |->
        {s \in names : /\ t \in names
                       /\ got[s]["foreignKeys"] > 0
                       /\ t \in targetTables(s, got[s]["foreignKeys"])}]

\* The tables of the answer, in the order of the names, each with its parts.
Assemble ==
    /\ state = "loading"
    /\ todo = <<>>
    /\ left = {}
    /\ incoming' = IF call = "tables" THEN populateIncomingForeignKeys ELSE incoming
    /\ state' = "returned"
    /\ UNCHANGED <<engine, call, version, ddl, stable, names, left, about, todo, got, cut>>

Next ==
    \/ \E t \in Tables : Ddl(t)
    \/ NamesQuery \/ NamesThrow \/ NextLoad \/ QueryRuns \/ QueryFails \/ Assemble

Spec == Init /\ [][Next]_vars

----------------------------------------------------------------------------
\* The parts this backend fills in for this call; a size may be missing.
Owed ==
    {Queries(engine, call)[i].part : i \in DOMAIN Queries(engine, call)} \ {"size"}

(***************************************************************************)
(* A call that returns is complete about every table nobody touched while  *)
(* it ran: it lists the table with all its parts, or not at all if it does *)
(* not exist, whatever other sessions did to other tables in between and   *)
(* whichever queries failed.  (A table that changes during the call may    *)
(* come back torn.)  The exception is a fetch of Oracle or SQL Server that *)
(* fails half way and is taken for the end of the rows.                    *)
(***************************************************************************)
StableTablesComplete ==
    state = "returned" /\ ~cut =>
        \A t \in stable :
            /\ call # "describe" => (t \in names <=> t \in Existing)
            /\ t \in names /\ t \in Existing => \A p \in Owed : got[t][p] = version[t]

\* s has a key to the table t of the schema, or to one of another schema that has its name.
RefersTo(s, t) == \E k \in Keys(s, version[s]) : k.schema = "own" /\ k.table = t
RefersToNamesake(s, t) == \E k \in Keys(s, version[s]) : k.schema # "own" /\ k.table = t

(***************************************************************************)
(* Both directions of the foreign keys of a listing agree with the server: *)
(* a table nobody touched that refers to another such table is among that  *)
(* one's incoming keys, and it is never among those of a table it does not *)
(* refer to, also when that one was dropped or altered between the names   *)
(* and the keys, or a result was cut.  SQL Server and Oracle are promised  *)
(* less: keys are matched by bare name (types.cpp:16), so there a key into *)
(* another schema is also filed under the listed namesake of its target.   *)
(* Nothing is promised about missing keys after a cut result.              *)
(***************************************************************************)
KeysBothWays ==
    state = "returned" /\ call = "tables" =>
        /\ ~cut => \A s, t \in stable \cap Existing : RefersTo(s, t) => s \in incoming[t]
        /\ \A t \in Tables : \A s \in incoming[t] \cap stable :
            RefersTo(s, t) \/ (LeavesSchemaOut /\ RefersToNamesake(s, t))
=============================================================================

------------------------- MODULE ServerConnections -------------------------
(***************************************************************************)
(* The ConnectionImpl of the MySQL, SQL Server and Oracle backends next to *)
(* that of PostgreSQL: the same cache of handles under a mutex, the same   *)
(* default database, and other ways to create, drop and rename.            *)
(*                                                                         *)
(* PgConnection's state is used as follows.  Maintenance is what the       *)
(* default moves to: "" (no schema) for MySQL, master for SQL Server;      *)
(* neither can be dropped.  For Oracle a database is a schema, info is     *)
(* defaultSchema_, which never moves, and open says whether the login      *)
(* session conn_ is there.  A handle whose session lost its database is    *)
(* "dead" for MySQL, which connects once; SQL Server's handles connect     *)
(* again when their session was killed, so that is "none".                 *)
(***************************************************************************)
EXTENDS PgConnection

VARIABLES
    engine,    \* the backend, fixed
    renamed,   \* history: the databases SQL Server's renameDatabase took the name of
    crossed,   \* history: see Crossing
    raced      \* history: the databases of Racing

Engines == {"postgres", "mysql", "mssql", "oracle"}

serverVars == <<vars, engine, renamed, crossed, raced>>

\* open_ is false until open(); an Oracle connection has no handles before that.
ServersInit ==
    /\ Init
    /\ engine \in Engines
    /\ renamed = {}
    /\ crossed = FALSE
    /\ raced = {}

Droppable == Names \ {Maintenance}

----------------------------------------------------------------------------
(* MySQL *)

\* open(), close(): the default handle is opened; the cache is emptied.
MySqlOpenClose(t) == Open(t) \/ Opened(t) \/ Close(t)

\* databases() (its names, then database() for each), database() and openDatabase().
MySqlHandles(t) == \E n \in Names : Database(t, n) \/ OpenDatabase(t, n)

\* createDatabase through the default handle; its session needs no schema for that.
MySqlCreate(t) == \E n \in Droppable : Create(t, n)

MySqlCreated(t) ==
    /\ pc[t] = "create"
    /\ \E c \in EnsureConn(via[t]) :
        /\ exists' \in {exists} \cup (IF c[via[t]] = "none" THEN {} ELSE {exists \cup {name[t]}})
        /\ UNCHANGED cache
        /\ Finish(t, c)
    /\ UNCHANGED <<info, open>>

\* dropDatabase under mu_: is it the default, and the handle is forgotten.
MySqlDrop(t) ==
    \E n \in Names :
        /\ pc[t] = "idle"
        /\ name' = [name EXCEPT ![t] = n]
        /\ connectedDb' = [connectedDb EXCEPT ![t] = (n = info)]
        /\ cache' = [cache EXCEPT ![n] = None]
        /\ conn' = Keep(conn, Referenced(cache', via))
        /\ Goto(t, IF n = info THEN "drop" ELSE "via")
        /\ UNCHANGED <<newName, via, info, open, exists>>

\* Another database is dropped through the default handle.
MySqlDropVia(t) ==
    /\ pc[t] = "via"
    /\ Lookup(t, info)
    /\ Goto(t, "drop")
    /\ UNCHANGED <<call, info, open, exists>>

\* What DROP DATABASE n leaves of the sessions c: those on n have no schema any more.
WithoutSchema(c, n) == [h \in Handles |-> IF h.db = n /\ c[h] = "up" THEN "dead" ELSE c[h]]

\* The sessions to drop with: a temporary one without a schema, or the default handle's.
MySqlDropSessions(t) == IF connectedDb[t] THEN {conn} ELSE EnsureConn(via[t])

MySqlDropRuns(t) ==
    /\ pc[t] = "drop"
    /\ name[t] \in exists \cap Droppable
    /\ exists' = exists \ {name[t]}
    /\ \E c \in MySqlDropSessions(t) :
        IF connectedDb[t]
        THEN Goto(t, "dropped") /\ conn' = WithoutSchema(c, name[t]) /\ UNCHANGED <<call, via, cache>>
        ELSE c[via[t]] # "none" /\ UNCHANGED cache /\ Finish(t, WithoutSchema(c, name[t]))
    /\ UNCHANGED <<info, open>>

MySqlDropFails(t) ==
    /\ pc[t] = "drop"
    /\ UNCHANGED <<cache, info, open, exists>>
    /\ \E c \in MySqlDropSessions(t) : Finish(t, c)

\* The same, without "no default schema from here on".
MySqlDroppedUnmoved(t) ==
    /\ pc[t] = "dropped"
    /\ UNCHANGED <<cache, info, open, exists>>
    /\ Finish(t, conn)

MySqlDropped(t) ==
    /\ pc[t] = "dropped"
    /\ info' = Maintenance
    /\ UNCHANGED <<cache, open, exists>>
    /\ Finish(t, conn)

\* renameDatabase is refused without a call.
MySql(t) ==
    \/ MySqlOpenClose(t) \/ MySqlHandles(t) \/ Query(t)
    \/ MySqlCreate(t) \/ MySqlCreated(t)
    \/ MySqlDrop(t) \/ MySqlDropVia(t) \/ MySqlDropRuns(t) \/ MySqlDropFails(t) \/ MySqlDropped(t)

----------------------------------------------------------------------------
(* SQL Server *)

MssqlOpenClose(t) == Open(t) \/ Opened(t) \/ Close(t)
MssqlHandles(t) == \E n \in Names : Database(t, n) \/ OpenDatabase(t, n)

\* createDatabase: one batch on a session of its own on master.
MssqlCreate(t) ==
    \E n \in Droppable :
        /\ pc[t] = "idle"
        /\ exists' = exists \cup {n}
        /\ UNCHANGED <<pc, call, via, cache, info, open, conn>>

\* forget(name), before the batch of dropDatabase or renameDatabase.
MssqlForget(t, n, p) ==
    /\ pc[t] = "idle"
    /\ name' = [name EXCEPT ![t] = n]
    /\ cache' = [cache EXCEPT ![n] = None]
    /\ conn' = Keep(conn, Referenced(cache', via))
    /\ Goto(t, p)
    /\ UNCHANGED <<connectedDb, via, info, open, exists>>

MssqlDrop(t) == \E n \in Names : MssqlForget(t, n, "drop") /\ UNCHANGED newName

\* SET SINGLE_USER WITH ROLLBACK IMMEDIATE kills the other sessions on n.
Killed(n) == [h \in Handles |-> IF h.db = n THEN "none" ELSE conn[h]]

(***************************************************************************)
(* execOnMaster looks at the first statement of a batch only: when the     *)
(* ALTER worked and the DROP after it fails, drainResults passes over the  *)
(* error and the call goes on as if the database were gone.                *)
(***************************************************************************)
execOnMaster(t) ==
    /\ pc[t] = "drop"
    /\ name[t] \in exists \cap Droppable
    /\ exists' \in {exists, exists \ {name[t]}}
    /\ conn' = Killed(name[t])
    /\ Goto(t, "dropped")
    /\ UNCHANGED <<call, via, cache, info, open>>

MssqlBatchFails(t) ==
    /\ pc[t] \in {"drop", "rename"}
    /\ UNCHANGED <<cache, info, open, exists>>
    /\ Finish(t, conn)

\* The default is compared now, under mu_.
MssqlDropped(t) ==
    /\ pc[t] = "dropped"
    /\ info' = IF name[t] = info THEN Maintenance ELSE info
    /\ UNCHANGED <<cache, open, exists>>
    /\ Finish(t, conn)

\* renameDatabase, of the default too: info_ keeps the old name.
MssqlRename(t) ==
    \E n \in Names, m \in Droppable \cup {None} :
        /\ n # m
        /\ MssqlForget(t, n, "rename")
        /\ newName' = [newName EXCEPT ![t] = m]

MssqlRenamed(t) ==
    /\ pc[t] = "rename"
    /\ name[t] \in exists \cap Droppable /\ newName[t] \notin exists
    /\ \A h \in Handles : h.db = name[t] => conn[h] # "up"
    /\ exists' = (exists \ {name[t]}) \cup ({newName[t]} \cap Names)
    /\ renamed' = renamed \cup {name[t]}
    /\ UNCHANGED <<cache, info, open>>
    /\ Finish(t, conn)

Mssql(t) ==
    \/ MssqlOpenClose(t) \/ MssqlHandles(t) \/ Query(t) \/ MssqlCreate(t)
    \/ MssqlDrop(t) \/ execOnMaster(t) \/ MssqlBatchFails(t) \/ MssqlDropped(t)
    \/ MssqlRename(t)

----------------------------------------------------------------------------
(* Oracle *)

\* open() under connMutex_: the login session, unless there is one.  (A service
\* name that is missing is probed first; that is part of connecting.)
OracleOpen(t) ==
    /\ pc[t] = "idle"
    /\ open' = TRUE
    /\ UNCHANGED <<pc, call, via, cache, info, conn, exists>>

\* close(): the cache under one mutex, then the login session under the other.
OracleCloseCache(t) ==
    /\ pc[t] = "idle"
    /\ cache' = [n \in Names |-> None]
    /\ conn' = Keep(conn, Referenced(cache', via))
    /\ Goto(t, "closing")
    /\ UNCHANGED <<call, via, info, open, exists>>

OracleClose(t) ==
    /\ pc[t] = "closing"
    /\ open' = FALSE
    /\ Goto(t, "idle")
    /\ UNCHANGED <<call, via, cache, info, conn, exists>>

\* databases(), database() and openDatabase(): nothing without the login session.
OracleHandles(t) == open /\ \E n \in Names : Database(t, n) \/ OpenDatabase(t, n)

\* CREATE USER, and a GRANT nobody looks at, under connMutex_.
OracleCreate(t) ==
    \E n \in Names :
        /\ pc[t] = "idle"
        /\ open
        /\ exists' = exists \cup {n}
        /\ UNCHANGED <<pc, call, via, cache, info, open, conn>>

OracleDrop(t) == \E n \in Names : MssqlForget(t, n, "drop") /\ UNCHANGED newName

\* DROP USER CASCADE on the login session; the server refuses the login user itself.
OracleDropRuns(t) ==
    /\ pc[t] = "drop"
    /\ open
    /\ name[t] \in exists \ {InfoDatabase}
    /\ exists' = exists \ {name[t]}
    /\ UNCHANGED <<cache, info, open>>
    /\ Finish(t, conn)

OracleDropFails(t) ==
    /\ pc[t] = "drop"
    /\ UNCHANGED <<cache, info, open, exists>>
    /\ Finish(t, conn)

Oracle(t) ==
    \/ OracleOpen(t) \/ OracleCloseCache(t) \/ OracleClose(t) \/ OracleHandles(t) \/ Query(t)
    \/ OracleCreate(t) \/ OracleDrop(t) \/ OracleDropRuns(t) \/ OracleDropFails(t)

----------------------------------------------------------------------------
(* All backends *)

\* t's dropDatabase(n) has erased the cached handle and has not returned.
Dropping(t, n) == name[t] = n /\ pc[t] \in {"via", "maintenance", "terminate", "drop"}

\* A drop or a rename of n is in progress.
Altering(t, n) ==
    name[t] = n /\ (Dropping(t, n) \/ pc[t] \in {"erase", "renameErase", "renameVia", "rename"})

\* PostgreSQL: the default database has just been dropped, the default is about to
\* move to the maintenance database, and another thread is dropping or renaming that.
Crossing == \E t, u \in Threads : t # u /\ pc[t] = "dropped" /\ Altering(u, Maintenance)

\* The databases that one thread is dropping while another works on a handle of them.
Racing ==
    {n \in Names : \E t, u \in Threads :
        t # u /\ Dropping(t, n) /\ via[u] # None /\ via[u].db = n}

Server(t) ==
    \/ engine = "postgres" /\ (Host(t) \/ Library(t)) /\ UNCHANGED renamed
    \/ engine = "mysql" /\ MySql(t) /\ UNCHANGED renamed
    \/ engine = "mssql" /\ (MssqlRenamed(t) \/ (Mssql(t) /\ UNCHANGED renamed))
    \/ engine = "oracle" /\ Oracle(t) /\ UNCHANGED renamed

\* Every thread of the host makes every call.
ServersNext ==
    /\ \E t \in Threads : Server(t)
    /\ crossed' = (crossed \/ Crossing)
    /\ raced' = raced \cup Racing
    /\ UNCHANGED engine

ServersSpec == ServersInit /\ [][ServersNext]_serverVars

----------------------------------------------------------------------------
(* Properties *)

\* The default database, which every later call goes through, exists, whatever two
\* threads drop, create and rename: "dropping the connected database moves the
\* default".  It is missing between DROP DATABASE and the move, and for good in two
\* cases: PostgreSQL's default moved to a maintenance database that another thread was
\* taking away (Crossing), or SQL Server's renameDatabase renamed the default.
DefaultDatabaseExists ==
    \/ info \in exists
    \/ \E t \in Threads : pc[t] = "dropped" /\ name[t] = info
    \/ engine = "postgres" /\ crossed
    \/ engine = "mssql" /\ info \in renamed

\* database() returns a handle whose session dropDatabase() took away only where one
\* thread dropped a database while another was working on it: the handle is erased
\* before the sessions are, so that later calls find a new one.  About PostgreSQL and
\* MySQL, whose handles connect once; the lookup that comes between the erase and the
\* DROP does leave a dead handle behind, and is what raced records.
CachedHandleUsable ==
    \A n \in Names : cache[n] # None /\ conn[cache[n]] = "dead" => n \in raced
=============================================================================

---------------------------- MODULE PgConnection ----------------------------
(***************************************************************************)
(* ConnectionImpl of src/postgres_connection.cpp: the cache of one         *)
(* PostgresDatabase per database name, the default database info_.database,*)
(* and the calls that create, drop and rename databases through them.      *)
(*                                                                         *)
(* mu_ guards cache_ and info_ and is held for one lookup or update at a   *)
(* time; everything between two of its sections interleaves.  A handle     *)
(* connects on first use and never again: a session the server terminated  *)
(* stays dead (see PgSession).  A handle lives as long as the cache or a   *)
(* call refers to it; its session is closed with it.                       *)
(*                                                                         *)
(* The server's side is external: the databases that exist, and that a     *)
(* database cannot be dropped or renamed by its own session or while       *)
(* another session is connected to it.                                     *)
(***************************************************************************)
EXTENDS Naturals

CONSTANTS
    Threads,       \* the host's threads
    Names,         \* database names
    InfoDatabase,  \* info_.database at the start
    Maintenance,   \* maintenanceDatabase(info_.type)
    MaxHandles,    \* bound: PostgresDatabase objects for one name; |Threads| + 2
                   \* are enough: the cached one, one per call, and a new one
    None

\* PostgresDatabase objects: name_ never changes.
Handles == [db : Names, id : 1 .. MaxHandles]

ASSUME ConnectionAssumption ==
    /\ InfoDatabase \in Names
    /\ Maintenance \in Names
    /\ MaxHandles \in Nat \ {0}
    /\ None \notin Names \cup Handles \cup Threads

VARIABLES
    pc,           \* pc[t]: where t is in its call
    name,         \* name[t]: the call's database, None for the default
    newName,      \* newName[t]: what rename gives it, None for one outside Names
    connectedDb,  \* connectedDb[t]: dropDatabase's, from its snapshot of info_
    via,          \* via[t]: the handle t's call uses, or None
    cache,        \* cache_: the handle cached for a name, or None
    info,         \* info_.database
    open,         \* open_
    conn,         \* conn[h]: "none", "up" or "dead" (terminated by the server)
    exists        \* server: the databases that exist

vars == <<pc, name, newName, connectedDb, via, cache, info, open, conn, exists>>
call == <<name, newName, connectedDb>>

Stages == {"idle", "query", "opening", "create", "erase", "via", "maintenance",
           "terminate", "drop", "dropped", "renameErase", "renameVia", "rename", "closing"}

TypeOK ==
    /\ pc \in [Threads -> Stages]
    /\ name \in [Threads -> Names \cup {None}]
    /\ newName \in [Threads -> Names \cup {None}]
    /\ connectedDb \in [Threads -> BOOLEAN]
    /\ via \in [Threads -> Handles \cup {None}]
    /\ cache \in [Names -> Handles \cup {None}]
    /\ info \in Names
    /\ open \in BOOLEAN
    /\ conn \in [Handles -> {"none", "up", "dead"}]
    /\ exists \subseteq Names

Init ==
    /\ pc = [t \in Threads |-> "idle"]
    /\ name = [t \in Threads |-> None]
    /\ newName = [t \in Threads |-> None]
    /\ connectedDb = [t \in Threads |-> FALSE]
    /\ via = [t \in Threads |-> None]
    /\ cache = [n \in Names |-> None]
    /\ info = InfoDatabase
    /\ open = FALSE
    /\ conn = [h \in Handles |-> "none"]
    /\ exists = Names

----------------------------------------------------------------------------
(* Handles *)

Referenced(c, v) == {c[n] : n \in Names} \cup {v[t] : t \in Threads}

Goto(t, p) == pc' = [pc EXCEPT ![t] = p]

\* make_shared<PostgresDatabase>(info_, n), for a handle not in use.
Fresh(h, n) ==
    /\ h.db = n
    /\ h \notin Referenced(cache, via)
    /\ \A g \in Handles \ Referenced(cache, via) : g.db = n => h.id <= g.id

\* database(n): the cached handle, or a new one that is cached, under mu_.
\* The caller t keeps it in via[t].
Lookup(t, n) ==
    \/ /\ cache[n] # None
       /\ via' = [via EXCEPT ![t] = cache[n]]
       /\ UNCHANGED <<cache, conn>>
    \/ /\ cache[n] = None
       /\ \E h \in Handles :
           /\ Fresh(h, n)
           /\ cache' = [cache EXCEPT ![n] = h]
           /\ via' = [via EXCEPT ![t] = h]
       /\ UNCHANGED conn

\* The sessions c of the handles still referenced; the others are closed.
Keep(c, refs) == [h \in Handles |-> IF h \in refs THEN c[h] ELSE "none"]

\* The call is over: its arguments and its handle go out of scope.
Finish(t, c) ==
    /\ Goto(t, "idle")
    /\ name' = [name EXCEPT ![t] = None]
    /\ newName' = [newName EXCEPT ![t] = None]
    /\ connectedDb' = [connectedDb EXCEPT ![t] = FALSE]
    /\ via' = [via EXCEPT ![t] = None]
    /\ conn' = Keep(c, Referenced(cache', via'))

\* ensureConn() on h, the first part of run() and all of open(): the values conn
\* may have after it.  Connecting may fail.
EnsureConn(h) ==
    IF conn[h] = "none" /\ h.db \in exists
    THEN {conn, [conn EXCEPT ![h] = "up"]}
    ELSE {conn}

----------------------------------------------------------------------------
(* Calls on handles *)

\* database(n) and a first query on the handle it returns; databases() is this on
\* the default database, and then on each name found, without the query.
Database(t, n) ==
    /\ pc[t] = "idle"
    /\ Goto(t, "query")
    /\ Lookup(t, n)
    /\ UNCHANGED <<call, info, open, exists>>

\* openDatabase(n): a handle of the host's own, never cached.
OpenDatabase(t, n) ==
    /\ pc[t] = "idle"
    /\ Goto(t, "query")
    /\ \E h \in Handles : Fresh(h, n) /\ via' = [via EXCEPT ![t] = h]
    /\ UNCHANGED <<call, cache, info, open, conn, exists>>

Query(t) ==
    /\ pc[t] = "query"
    /\ \E c \in EnsureConn(via[t]) :
        /\ UNCHANGED cache
        /\ Finish(t, c)
    /\ UNCHANGED <<info, open, exists>>

\* open(): the default handle is opened, and open_ says whether that worked; a
\* handle with a session, dead or not, is open.
Open(t) ==
    /\ pc[t] = "idle"
    /\ Goto(t, "opening")
    /\ Lookup(t, info)
    /\ UNCHANGED <<call, info, open, exists>>

Opened(t) ==
    /\ pc[t] = "opening"
    /\ \E c \in EnsureConn(via[t]) :
        /\ open' = (c[via[t]] # "none")
        /\ UNCHANGED cache
        /\ Finish(t, c)
    /\ UNCHANGED <<info, exists>>

Close(t) ==
    /\ pc[t] = "idle"
    /\ cache' = [n \in Names |-> None]
    /\ open' = FALSE
    /\ conn' = Keep(conn, Referenced(cache', via))
    /\ UNCHANGED <<pc, call, via, info, exists>>

----------------------------------------------------------------------------
(* createDatabase *)

Create(t, n) ==
    /\ pc[t] = "idle"
    /\ Goto(t, "create")
    /\ name' = [name EXCEPT ![t] = n]
    /\ Lookup(t, info)
    /\ UNCHANGED <<newName, connectedDb, info, open, exists>>

Created(t) ==
    /\ pc[t] = "create"
    /\ \E c \in EnsureConn(via[t]) :
        /\ \/ exists' = exists
           \/ c[via[t]] = "up" /\ exists' = exists \cup {name[t]}
        /\ UNCHANGED cache
        /\ Finish(t, c)
    /\ UNCHANGED <<info, open>>

----------------------------------------------------------------------------
(* dropDatabase *)

\* Sessions connected to n other than that of h.
Others(c, n, h) == {g \in Handles \ {h} : g.db = n /\ c[g] = "up"}

\* The snapshot of info_.
Drop(t, n) ==
    /\ pc[t] = "idle"
    /\ Goto(t, "erase")
    /\ name' = [name EXCEPT ![t] = n]
    /\ connectedDb' = [connectedDb EXCEPT ![t] = (n = info)]
    /\ UNCHANGED <<newName, via, cache, info, open, conn, exists>>

\* Mutant: the cached handle is not erased.
EraseForgotten(t, p) ==
    /\ Goto(t, p)
    /\ UNCHANGED <<call, via, cache, info, open, conn, exists>>

\* cache_.erase(n).
Erase(t, p) ==
    /\ cache' = [cache EXCEPT ![name[t]] = None]
    /\ conn' = Keep(conn, Referenced(cache', via))
    /\ Goto(t, p)
    /\ UNCHANGED <<call, via, info, open, exists>>

DropErase(t) == pc[t] = "erase" /\ Erase(t, "via")

\* defaultDb(), which caches a handle again when n is the default.
DropVia(t) ==
    /\ pc[t] = "via"
    /\ Lookup(t, info)
    /\ Goto(t, IF connectedDb[t] THEN "maintenance" ELSE "terminate")
    /\ UNCHANGED <<call, info, open, exists>>

\* "a session cannot drop its own database: go through the maintenance one": via
\* becomes a new handle, opened at once.
DropMaintenance(t) ==
    /\ pc[t] = "maintenance"
    /\ Maintenance \in exists
    /\ \E h \in Handles :
        /\ Fresh(h, Maintenance)
        /\ via' = [via EXCEPT ![t] = h]
        /\ conn' = Keep([conn EXCEPT ![h] = "up"], Referenced(cache, via'))
    /\ Goto(t, "terminate")
    /\ UNCHANGED <<call, cache, info, open, exists>>

NoMaintenance(t) ==
    /\ pc[t] = "maintenance"
    /\ UNCHANGED <<cache, info, open, exists>>
    /\ Finish(t, conn)

\* pg_terminate_backend for the other sessions on n; its result is not looked at.
Terminate(t) ==
    /\ pc[t] = "terminate"
    /\ Goto(t, "drop")
    /\ \E c \in EnsureConn(via[t]) :
        conn' = [h \in Handles |->
                   IF c[via[t]] = "up" /\ h \in Others(c, name[t], via[t])
                   THEN "dead" ELSE c[h]]
    /\ UNCHANGED <<call, via, cache, info, open, exists>>

\* What the server asks of a session h that drops or renames n.
MayAlter(c, h, n) ==
    /\ c[h] = "up"
    /\ n \in exists
    /\ h.db # n
    /\ Others(c, n, h) = {}

DropSucceeds(t) ==
    /\ pc[t] = "drop"
    /\ \E c \in EnsureConn(via[t]) :
        /\ MayAlter(c, via[t], name[t])
        /\ IF connectedDb[t]
           THEN Goto(t, "dropped") /\ conn' = c /\ UNCHANGED <<call, via, cache>>
           ELSE UNCHANGED cache /\ Finish(t, c)
    /\ exists' = exists \ {name[t]}
    /\ UNCHANGED <<info, open>>

DropFails(t) ==
    /\ pc[t] = "drop"
    /\ UNCHANGED <<cache, info, open, exists>>
    /\ \E c \in EnsureConn(via[t]) : Finish(t, c)

\* The connected database is gone: the default becomes via's database.
Dropped(t) ==
    /\ pc[t] = "dropped"
    /\ info' = via[t].db
    /\ cache' = [cache EXCEPT ![via[t].db] = via[t]]
    /\ Finish(t, conn)
    /\ UNCHANGED <<open, exists>>

----------------------------------------------------------------------------
(* renameDatabase *)

Rename(t, n, m) ==
    /\ pc[t] = "idle"
    /\ Goto(t, "renameErase")
    /\ name' = [name EXCEPT ![t] = n]
    /\ newName' = [newName EXCEPT ![t] = m]
    /\ UNCHANGED <<connectedDb, via, cache, info, open, conn, exists>>

RenameErase(t) == pc[t] = "renameErase" /\ Erase(t, "renameVia")

RenameVia(t) ==
    /\ pc[t] = "renameVia"
    /\ Lookup(t, info)
    /\ Goto(t, "rename")
    /\ UNCHANGED <<call, info, open, exists>>

Renamed(t) ==
    /\ pc[t] = "rename"
    /\ UNCHANGED <<cache, info, open>>
    /\ \E c \in EnsureConn(via[t]) :
        /\ \/ exists' = exists
           \/ /\ MayAlter(c, via[t], name[t])
              /\ newName[t] \notin exists
              /\ exists' = (exists \ {name[t]}) \cup ({newName[t]} \cap Names)
        /\ Finish(t, c)

----------------------------------------------------------------------------
\* Any thread calls anything: "cache_ and info_ are reached from loader, ui, refresh
\* and agent threads".
Host(t) ==
    \/ Open(t)
    \/ Close(t)
    \/ \E n \in Names : Database(t, n) \/ OpenDatabase(t, n) \/ Create(t, n) \/ Drop(t, n)
    \/ \E n \in Names, m \in Names \cup {None} : n # m /\ Rename(t, n, m)

Library(t) ==
    \/ Query(t)
    \/ Opened(t)
    \/ Created(t)
    \/ DropErase(t)
    \/ DropVia(t)
    \/ DropMaintenance(t)
    \/ NoMaintenance(t)
    \/ Terminate(t)
    \/ DropSucceeds(t)
    \/ DropFails(t)
    \/ Dropped(t)
    \/ RenameErase(t)
    \/ RenameVia(t)
    \/ Renamed(t)
=============================================================================

-------------------------- MODULE ConnectionProofs --------------------------
(***************************************************************************)
(* Proofs about the connections of the four servers (ServerConnections):   *)
(* for any number of threads that make any calls in any interleaving, any  *)
(* databases and any handles; and about the Oracle client they are opened  *)
(* with (OracleClient), for any number of threads, calls and crashes.      *)
(*                                                                         *)
(* Shape says which handle a call is using at each of its stages, that a   *)
(* handle is cached under the name of its own database and that a handle   *)
(* nobody refers to has no session.                                        *)
(*                                                                         *)
(* That the default database exists (DefaultInv) follows what a drop or a  *)
(* rename decided on a snapshot through its later round trips.  On         *)
(* PostgreSQL a session that is up is on a database that exists (Live), so *)
(* the drop of the default, which goes through the maintenance database,   *)
(* leaves that one there to move to; only another thread's drop or rename  *)
(* of it, begun through the old default, takes it away (crossed).          *)
(*                                                                         *)
(* That a dead session in the cache comes from a race (UsableInv) needs    *)
(* that what a drop finds in the cache under its own name, when nobody     *)
(* raced with it, has no session or is the one it drops through (Evicted); *)
(* so whatever it terminates or leaves without a schema is some other      *)
(* call's, and that call is what raced records.                            *)
(*                                                                         *)
(* For the client, ReexecOnce needs that a process that replaced itself    *)
(* finds its guard in the environment (Guarded), ArchiveIsOwned that a     *)
(* thread past the opening of the archive is the one that will remove it:  *)
(* neither the look at what is installed nor the libaio step counts        *)
(* (Owned).  The mutex of the context is held through the install() that   *)
(* getDpiContext runs, whose every way out has to release it (Locking).    *)
(***************************************************************************)
EXTENDS ServerConnections, OracleClient, TLAPS

----------------------------------------------------------------------------
Types == TypeOK /\ engine \in Engines

\* A handle is cached under the name of its database.
Keyed == \A n \in Names : cache[n] # None => cache[n].db = n

\* A handle nothing refers to has no session.
Unreferenced == \A h \in Handles : h \notin Referenced(cache, via) => conn[h] = "none"

\* The stages before a call has its handle, and those at which it needs one.
Without == {"idle", "erase", "via", "renameErase", "renameVia", "closing"}
Using == {"query", "opening", "create", "maintenance", "terminate"}
Naming == {"create", "erase", "via", "maintenance", "terminate", "drop", "dropped",
           "renameErase", "renameVia", "rename"}

StageOf(t) ==
    /\ pc[t] \in Without => via[t] = None
    /\ pc[t] \in Using => via[t] # None
    /\ pc[t] \in {"drop", "dropped", "rename"} /\ engine = "postgres" => via[t] # None
    /\ pc[t] = "drop" /\ engine = "mysql" /\ ~connectedDb[t] => via[t] # None
    /\ pc[t] \in Naming => name[t] \in Names

Shape ==
    /\ Types
    /\ Keyed
    /\ Unreferenced
    /\ \A t \in Threads : StageOf(t)

----------------------------------------------------------------------------
\* Where the default database can go, backend by backend.  PostgreSQL's moves to the
\* maintenance database and nowhere else.  Until then a drop knows whether it is of the
\* default, and the others go through it; afterwards what goes through another database
\* and still takes the maintenance database away began before the move (crossed).
Live == \A h \in Handles : conn[h] = "up" => h.db \in exists

PgCall(t) ==
    /\ info # Maintenance /\ pc[t] \in {"erase", "via", "maintenance", "terminate", "drop"} =>
            (connectedDb[t] <=> name[t] = info)
    /\ pc[t] \in {"maintenance", "dropped"} => connectedDb[t]
    /\ pc[t] \in {"terminate", "drop", "dropped"} /\ connectedDb[t] => via[t].db = Maintenance
    /\ pc[t] = "dropped" => Maintenance \in exists \/ crossed
    /\ pc[t] = "rename" \/ (pc[t] \in {"terminate", "drop"} /\ ~connectedDb[t]) =>
            /\ info # Maintenance => via[t].db = info
            /\ info = Maintenance /\ name[t] = Maintenance => via[t].db = Maintenance \/ crossed

Settled == info \in exists \/ \E t \in Threads : pc[t] = "dropped" /\ name[t] = info

PgDefault ==
    engine = "postgres" =>
        /\ Live
        /\ Settled \/ (info = Maintenance /\ crossed)
        /\ \A t \in Threads : PgCall(t)

\* MySQL's moves to a schema that is never dropped, once the drop has run.
MySqlCall(t) ==
    /\ pc[t] = "via" => ~connectedDb[t]
    /\ pc[t] \in {"via", "drop"} /\ ~connectedDb[t] => name[t] # info \/ name[t] = Maintenance
    /\ pc[t] = "drop" /\ connectedDb[t] => via[t] = None
    /\ pc[t] = "drop" /\ ~connectedDb[t] => via[t].db # name[t] \/ name[t] = Maintenance

MySqlDefault ==
    engine = "mysql" =>
        /\ Maintenance \in exists
        /\ Settled
        /\ \A t \in Threads : MySqlCall(t)

\* So does SQL Server's, which a rename may leave behind.
MssqlDefault ==
    engine = "mssql" =>
        /\ Maintenance \in exists
        /\ Settled \/ info \in renamed

\* Oracle's is the schema of the login and stays.
OracleDefault == engine = "oracle" => info = InfoDatabase /\ info \in exists

DefaultInv == PgDefault /\ MySqlDefault /\ MssqlDefault /\ OracleDefault

----------------------------------------------------------------------------
\* A session dies only in a race.  What a drop finds in the cache under its name, if
\* no other thread has worked on that database meanwhile, is nothing, a handle that
\* has no session yet, or the handle the drop itself goes through.
Dead == \A h \in Handles : conn[h] = "dead" => h.db \in raced

Evicted(t) ==
    Dropping(t, name[t]) /\ name[t] \notin raced \cup Racing /\ cache[name[t]] # None =>
        \/ conn[cache[name[t]]] = "none"
        \/ pc[t] \in {"terminate", "drop"} /\ cache[name[t]] = via[t]

UsableInv ==
    /\ Dead
    /\ engine \in {"postgres", "mysql"} => \A t \in Threads : Evicted(t)

----------------------------------------------------------------------------
(* The steps, by who may take them *)

CallStep(t) == Query(t) \/ Close(t) \/ \E n \in Names : OpenDatabase(t, n)

HandleStep(t) == Open(t) \/ Opened(t) \/ \E n \in Names : Database(t, n) \/ Create(t, n)

PgStep(t) ==
    /\ engine = "postgres"
    /\ \/ Created(t) \/ DropErase(t) \/ DropVia(t) \/ DropMaintenance(t) \/ NoMaintenance(t)
       \/ Terminate(t) \/ DropSucceeds(t) \/ DropFails(t) \/ Dropped(t)
       \/ RenameErase(t) \/ RenameVia(t) \/ Renamed(t)
       \/ \E n \in Names : Drop(t, n) \/ \E m \in Names \cup {None} : Rename(t, n, m)

MySqlStep(t) ==
    /\ engine = "mysql"
    /\ \/ MySqlCreated(t) \/ MySqlDrop(t) \/ MySqlDropVia(t) \/ MySqlDropRuns(t)
       \/ MySqlDropFails(t) \/ MySqlDropped(t)

MssqlStep(t) ==
    /\ engine = "mssql"
    /\ \/ MssqlCreate(t) \/ MssqlDrop(t) \/ execOnMaster(t) \/ MssqlBatchFails(t)
       \/ MssqlDropped(t) \/ MssqlRename(t) \/ MssqlRenamed(t)

OracleStep(t) ==
    /\ engine = "oracle"
    /\ \/ OracleCloseCache(t) \/ OracleClose(t) \/ OracleOpen(t) \/ OracleCreate(t)
       \/ OracleDrop(t) \/ OracleDropRuns(t) \/ OracleDropFails(t)

AnyStep(t) ==
    CallStep(t) \/ HandleStep(t) \/ PgStep(t) \/ MySqlStep(t) \/ MssqlStep(t) \/ OracleStep(t)

\* The histories only grow: what a step notes down is what was going on before it.
Noted == /\ engine' = engine
         /\ renamed \subseteq renamed'
         /\ crossed \/ Crossing => crossed'
         /\ raced' = raced \cup Racing

\* Every step of ServersNext is one of these.
LEMMA StepCases ==
  ASSUME ServersNext
  PROVE  Noted /\ \E t \in Threads : AnyStep(t)
<1>1. engine' = engine /\ raced' = raced \cup Racing
  BY DEF ServersNext
<1>2. crossed \/ Crossing => crossed'
  BY Zenon DEF ServersNext
<1>3. PICK t \in Threads : Server(t)
  BY DEF ServersNext
<1>4. CASE engine = "postgres" /\ (Host(t) \/ Library(t)) /\ renamed' = renamed
  <2>1. AnyStep(t)
    BY <1>4 DEF Host, Library, AnyStep, CallStep, HandleStep, PgStep
  <2>2. QED
    BY <1>1, <1>2, <1>4, <2>1 DEF Noted
<1>5. CASE engine = "mysql" /\ MySql(t) /\ renamed' = renamed
  <2>1. AnyStep(t)
    BY <1>5 DEF MySql, MySqlOpenClose, MySqlHandles, MySqlCreate, Droppable, AnyStep, CallStep,
       HandleStep, MySqlStep
  <2>2. QED
    BY <1>1, <1>2, <1>5, <2>1 DEF Noted
<1>6. CASE engine = "mssql" /\ Mssql(t) /\ renamed' = renamed
  <2>1. AnyStep(t)
    BY <1>6 DEF Mssql, MssqlOpenClose, MssqlHandles, AnyStep, CallStep, HandleStep, MssqlStep
  <2>2. QED
    BY <1>1, <1>2, <1>6, <2>1 DEF Noted
<1>7. CASE engine = "mssql" /\ MssqlRenamed(t)
  BY <1>1, <1>2, <1>7 DEF Noted, AnyStep, MssqlStep, MssqlRenamed
<1>8. CASE engine = "oracle" /\ Oracle(t) /\ renamed' = renamed
  <2>1. AnyStep(t)
    BY <1>8 DEF Oracle, OracleHandles, AnyStep, CallStep, HandleStep, OracleStep
  <2>2. QED
    BY <1>1, <1>2, <1>8, <2>1 DEF Noted
<1>9. QED
  BY <1>3, <1>4, <1>5, <1>6, <1>7, <1>8 DEF Server

----------------------------------------------------------------------------
(* Handles and their sessions *)

Sessions == {"none", "up", "dead"}

\* A handle is not None, and belongs to a database.
LEMMA HandleIsHandle == \A h \in Handles : h # None /\ h.db \in Names
BY ConnectionAssumption DEF Handles

\* What ensureConn can do to the sessions: connect the one handle it is called on,
\* if that had no session and its database exists.
LEMMA EnsureConnFacts ==
  ASSUME TypeOK, NEW h \in Handles, NEW c \in EnsureConn(h)
  PROVE  /\ c \in [Handles -> Sessions]
         /\ \A g \in Handles : g # h => c[g] = conn[g]
         /\ c[h] = conn[h] \/ (conn[h] = "none" /\ c[h] = "up")
<1>1. conn \in [Handles -> Sessions]
  BY DEF TypeOK, Sessions
<1>2. c = conn \/ (conn[h] = "none" /\ c = [conn EXCEPT ![h] = "up"])
  BY DEF EnsureConn
<1>3. QED
  BY <1>1, <1>2 DEF Sessions

\* Keep closes the sessions of the handles that are no longer referenced.
LEMMA KeepFacts ==
  ASSUME NEW c \in [Handles -> Sessions], NEW refs
  PROVE  /\ Keep(c, refs) \in [Handles -> Sessions]
         /\ \A h \in Handles : Keep(c, refs)[h] = IF h \in refs THEN c[h] ELSE "none"
BY DEF Keep, Sessions

\* database(n) by a call that has no handle yet: the handle it gets is n's, the cache
\* stays keyed by name, and a handle it creates has no session and was nobody's.
LEMMA LookupFacts ==
  ASSUME TypeOK, Keyed, Unreferenced, NEW t \in Threads, NEW n \in Names, via[t] = None,
         Lookup(t, n)
  PROVE  /\ cache' \in [Names -> Handles \cup {None}]
         /\ via' \in [Threads -> Handles \cup {None}]
         /\ conn' = conn
         /\ via'[t] \in Handles /\ via'[t].db = n /\ cache'[n] = via'[t]
         /\ \A u \in Threads : u # t => via'[u] = via[u]
         /\ \A m \in Names : m # n => cache'[m] = cache[m]
         /\ cache[n] # None => cache'[n] = cache[n]
         /\ cache[n] = None => via'[t] \notin Referenced(cache, via) /\ conn[via'[t]] = "none"
         /\ Keyed' /\ Unreferenced'
<1> USE HandleIsHandle
<1>0. cache \in [Names -> Handles \cup {None}] /\ via \in [Threads -> Handles \cup {None}]
  BY DEF TypeOK
<1>1. CASE cache[n] # None
  <2>1. via' = [via EXCEPT ![t] = cache[n]] /\ cache' = cache /\ conn' = conn
    BY <1>1 DEF Lookup
  <2>2. cache[n] \in Handles /\ cache[n].db = n
    BY <1>0, <1>1 DEF Keyed
  <2>3. Keyed'
    BY <2>1 DEF Keyed
  <2>4. Unreferenced'
    <3> SUFFICES ASSUME NEW h \in Handles, h \notin Referenced(cache, via)'
                 PROVE  conn'[h] = "none"
      BY DEF Unreferenced
    <3>1. h \notin Referenced(cache, via)
      BY <1>0, <2>1, via[t] = None DEF Referenced
    <3>2. QED
      BY <2>1, <3>1 DEF Unreferenced
  <2>5. QED
    BY <1>0, <1>1, <2>1, <2>2, <2>3, <2>4
<1>2. CASE cache[n] = None
  <2>1. PICK h \in Handles : /\ Fresh(h, n)
                             /\ cache' = [cache EXCEPT ![n] = h]
                             /\ via' = [via EXCEPT ![t] = h]
    BY <1>2 DEF Lookup
  <2>2. conn' = conn
    BY <1>2 DEF Lookup
  <2>3. h.db = n /\ h \notin Referenced(cache, via)
    BY <2>1 DEF Fresh
  <2>4. Keyed'
    BY <1>0, <2>1, <2>3 DEF Keyed
  <2>5. Unreferenced'
    <3> SUFFICES ASSUME NEW g \in Handles, g \notin Referenced(cache, via)'
                 PROVE  conn'[g] = "none"
      BY DEF Unreferenced
    <3>1. g \notin Referenced(cache, via)
      BY <1>0, <1>2, <2>1, via[t] = None DEF Referenced
    <3>2. QED
      BY <2>2, <3>1 DEF Unreferenced
  <2>6. conn[h] = "none"
    BY <2>3 DEF Unreferenced
  <2>7. QED
    BY <1>0, <1>2, <2>1, <2>2, <2>3, <2>4, <2>5, <2>6
<1>3. QED
  BY <1>1, <1>2

\* The end of a call: only its own handle is let go, and the sessions that stay are those of c.
LEMMA FinishFacts ==
  ASSUME TypeOK, NEW t \in Threads, NEW c \in [Handles -> Sessions],
         Finish(t, c), cache' \in [Names -> Handles \cup {None}]
  PROVE  /\ pc' \in [Threads -> Stages] /\ pc'[t] = "idle"
         /\ name' \in [Threads -> Names \cup {None}]
         /\ newName' \in [Threads -> Names \cup {None}]
         /\ connectedDb' \in [Threads -> BOOLEAN]
         /\ via' \in [Threads -> Handles \cup {None}] /\ via'[t] = None
         /\ conn' \in [Handles -> Sessions]
         /\ \A u \in Threads : u # t =>
                /\ pc'[u] = pc[u] /\ name'[u] = name[u] /\ newName'[u] = newName[u]
                /\ connectedDb'[u] = connectedDb[u] /\ via'[u] = via[u]
         /\ \A h \in Handles : conn'[h] = c[h] \/ conn'[h] = "none"
         /\ \A h \in Handles : h \in Referenced(cache', via') => conn'[h] = c[h]
         /\ Unreferenced'
<1>1. /\ pc' = [pc EXCEPT ![t] = "idle"]
      /\ name' = [name EXCEPT ![t] = None]
      /\ newName' = [newName EXCEPT ![t] = None]
      /\ connectedDb' = [connectedDb EXCEPT ![t] = FALSE]
      /\ via' = [via EXCEPT ![t] = None]
      /\ conn' = Keep(c, Referenced(cache', via'))
  BY DEF Finish, Goto
<1>2. connectedDb' \in [Threads -> BOOLEAN] /\ \A u \in Threads : u # t => connectedDb'[u] = connectedDb[u]
  BY <1>1, Zenon DEF TypeOK
<1>3. /\ conn' \in [Handles -> Sessions]
      /\ \A h \in Handles : conn'[h] = IF h \in Referenced(cache', via') THEN c[h] ELSE "none"
  BY <1>1, KeepFacts
<1>4. Unreferenced'
  BY <1>3 DEF Unreferenced
<1>5. pc' \in [Threads -> Stages] /\ pc'[t] = "idle"
  BY <1>1 DEF TypeOK, Stages
<1>6. QED
  BY <1>1, <1>2, <1>3, <1>4, <1>5 DEF TypeOK

\* The cached handles of some names are forgotten: nothing else changes but the sessions
\* that nobody holds any more.
LEMMA ForgetFacts ==
  ASSUME TypeOK, Keyed, cache' \in [Names -> Handles \cup {None}],
         \A n \in Names : cache'[n] = cache[n] \/ cache'[n] = None,
         via' = via, conn' = Keep(conn, Referenced(cache', via))
  PROVE  /\ conn' \in [Handles -> Sessions]
         /\ \A h \in Handles : conn'[h] = conn[h] \/ conn'[h] = "none"
         /\ \A h \in Handles : h \in Referenced(cache', via') => conn'[h] = conn[h]
         /\ Keyed' /\ Unreferenced'
<1>1. conn \in [Handles -> Sessions]
  BY DEF TypeOK, Sessions
<1>2. /\ conn' \in [Handles -> Sessions]
      /\ \A h \in Handles : conn'[h] = IF h \in Referenced(cache', via) THEN conn[h] ELSE "none"
  BY <1>1, KeepFacts
<1>3. Keyed'
  BY DEF Keyed
<1>4. Unreferenced'
  BY <1>2 DEF Unreferenced
<1>5. QED
  BY <1>2, <1>3, <1>4

\* What a step of another thread leaves of u's call.
Untouched(u) ==
    /\ pc'[u] = pc[u] /\ name'[u] = name[u] /\ newName'[u] = newName[u]
    /\ connectedDb'[u] = connectedDb[u] /\ via'[u] = via[u]

\* A step of t keeps the stages of the other calls.
LEMMA ShapeStep ==
  ASSUME Shape, engine' = engine, NEW t \in Threads, TypeOK', Keyed', Unreferenced', StageOf(t)',
         \A u \in Threads \ {t} : Untouched(u)
  PROVE  Shape'
<1>1. ASSUME NEW u \in Threads PROVE StageOf(u)'
  <2>1. CASE u = t
    BY <2>1
  <2>2. CASE u # t
    <3>1. StageOf(u) /\ Untouched(u)
      BY <2>2 DEF Shape
    <3>2. QED
      BY <3>1 DEF StageOf, Untouched
  <2>3. QED
    BY <2>1, <2>2
<1>2. Types'
  BY DEF Shape, Types
<1>3. QED
  BY <1>1, <1>2 DEF Shape

\* The steps that take a handle: database(), open(), createDatabase(), openDatabase().
LEMMA ShapeHandles ==
  ASSUME Shape, engine' = engine, NEW t \in Threads,
         \/ HandleStep(t) /\ ~Opened(t)
         \/ \E n \in Names : OpenDatabase(t, n)
  PROVE  Shape'
<1> USE HandleIsHandle
<1>0. TypeOK /\ Keyed /\ Unreferenced /\ StageOf(t) /\ info \in Names
  BY DEF Shape, Types, TypeOK
<1>1. ASSUME NEW n \in Names, Lookup(t, n), pc[t] = "idle",
             NEW p \in {"query", "opening", "create"}, Goto(t, p),
             name' \in [Threads -> Names \cup {None}], \A u \in Threads \ {t} : name'[u] = name[u],
             p = "create" => name'[t] \in Names,
             UNCHANGED <<newName, connectedDb, info, open, exists>>
      PROVE  Shape'
  <2>1. via[t] = None
    BY <1>0, <1>1 DEF StageOf, Without
  <2>2. /\ cache' \in [Names -> Handles \cup {None}]
        /\ via' \in [Threads -> Handles \cup {None}]
        /\ conn' = conn
        /\ via'[t] \in Handles
        /\ \A u \in Threads : u # t => via'[u] = via[u]
        /\ Keyed' /\ Unreferenced'
    BY <1>0, <1>1, <2>1, LookupFacts
  <2>3. pc' = [pc EXCEPT ![t] = p] /\ pc \in [Threads -> Stages] /\ p \in Stages
    BY <1>0, <1>1 DEF Goto, TypeOK, Stages
  <2>4. TypeOK'
    BY <1>0, <1>1, <2>2, <2>3 DEF TypeOK
  <2>5. StageOf(t)'
    BY <1>1, <2>2, <2>3 DEF StageOf, Without, Using, Naming
  <2>6. \A u \in Threads \ {t} : Untouched(u)
    BY <1>1, <2>2, <2>3 DEF Untouched
  <2>7. QED
    BY <2>2, <2>4, <2>5, <2>6, ShapeStep
<1>2. CASE Open(t)
  BY <1>0, <1>1, <1>2 DEF Open, call, TypeOK
<1>3. ASSUME NEW n \in Names, Database(t, n) PROVE Shape'
  BY <1>0, <1>1, <1>3 DEF Database, call, TypeOK
<1>4. ASSUME NEW n \in Names, Create(t, n) PROVE Shape'
  <2>1. /\ name' \in [Threads -> Names \cup {None}] /\ name'[t] \in Names
        /\ \A u \in Threads \ {t} : name'[u] = name[u]
    BY <1>0, <1>4 DEF Create, TypeOK
  <2>2. QED
    BY <1>0, <1>1, <1>4, <2>1 DEF Create
<1>5. ASSUME NEW n \in Names, OpenDatabase(t, n) PROVE Shape'
  <2>1. PICK h \in Handles : Fresh(h, n) /\ via' = [via EXCEPT ![t] = h]
    BY <1>5 DEF OpenDatabase
  <2>2. /\ pc[t] = "idle" /\ pc' = [pc EXCEPT ![t] = "query"]
        /\ UNCHANGED <<call, cache, info, open, conn, exists>>
    BY <1>5 DEF OpenDatabase, Goto
  <2>3. /\ via \in [Threads -> Handles \cup {None}] /\ pc \in [Threads -> Stages]
        /\ "query" \in Stages /\ via[t] = None
    BY <1>0, <2>2 DEF TypeOK, StageOf, Without, Stages
  <2>4. TypeOK'
    BY <1>0, <2>1, <2>2, <2>3 DEF TypeOK, call
  <2>5. Keyed'
    BY <1>0, <2>2 DEF Keyed
  <2>6. Unreferenced'
    <3> SUFFICES ASSUME NEW g \in Handles, g \notin Referenced(cache, via)'
                 PROVE  conn'[g] = "none"
      BY DEF Unreferenced
    <3>1. g \notin Referenced(cache, via)
      BY <2>1, <2>2, <2>3 DEF Referenced
    <3>2. QED
      BY <1>0, <2>2, <3>1 DEF Unreferenced
  <2>7. StageOf(t)'
    BY <2>1, <2>2, <2>3 DEF StageOf, Without, Using, Naming
  <2>8. \A u \in Threads \ {t} : Untouched(u)
    BY <2>1, <2>2, <2>3 DEF Untouched, call
  <2>9. QED
    BY <2>4, <2>5, <2>6, <2>7, <2>8, ShapeStep
<1>6. QED
  BY <1>2, <1>3, <1>4, <1>5 DEF HandleStep

\* The steps that end a call without touching the cache.
Ends(t) ==
    /\ cache' = cache /\ info' \in Names /\ open' \in BOOLEAN /\ exists' \subseteq Names
    /\ \E c \in [Handles -> Sessions] : Finish(t, c)

\* What such an end leaves of its own call and of the others.
LEMMA EndsFacts ==
  ASSUME TypeOK, NEW t \in Threads, Ends(t)
  PROVE  /\ pc'[t] = "idle" /\ via'[t] = None /\ cache' = cache
         /\ \A u \in Threads \ {t} : Untouched(u)
<1>1. PICK c \in [Handles -> Sessions] : Finish(t, c)
  BY DEF Ends
<1>2. cache' \in [Names -> Handles \cup {None}] /\ cache' = cache
  BY DEF Ends, TypeOK
<1>3. QED
  BY <1>1, <1>2, FinishFacts DEF Untouched

\* The end of a call keeps the shape of the rest.
LEMMA ShapeEnds ==
  ASSUME Shape, engine' = engine, NEW t \in Threads, Ends(t)
  PROVE  Shape'
<1>0. TypeOK /\ Keyed /\ StageOf(t) /\ cache \in [Names -> Handles \cup {None}]
  BY DEF Shape, Types, TypeOK
<1>1. PICK c \in [Handles -> Sessions] : Finish(t, c)
  BY DEF Ends
<1>2. cache' \in [Names -> Handles \cup {None}]
  BY <1>0 DEF Ends
<1>3. /\ pc' \in [Threads -> Stages] /\ pc'[t] = "idle"
      /\ name' \in [Threads -> Names \cup {None}]
      /\ newName' \in [Threads -> Names \cup {None}]
      /\ connectedDb' \in [Threads -> BOOLEAN]
      /\ via' \in [Threads -> Handles \cup {None}] /\ via'[t] = None
      /\ conn' \in [Handles -> Sessions]
      /\ \A u \in Threads \ {t} : Untouched(u)
      /\ Unreferenced'
  BY <1>0, <1>1, <1>2, FinishFacts DEF Untouched
<1>4. info' \in Names /\ open' \in BOOLEAN /\ exists' \subseteq Names
  BY DEF Ends
<1>5. TypeOK'
  BY <1>2, <1>3, <1>4, Zenon DEF TypeOK, Sessions
<1>6. Keyed'
  BY <1>0 DEF Keyed, Ends
<1>7. StageOf(t)'
  BY <1>3 DEF StageOf, Without, Using, Naming
<1>8. QED
  BY <1>3, <1>5, <1>6, <1>7, ShapeStep

\* Which steps those are, and what they do to the default and to what exists.
LEMMA EndingSteps ==
  ASSUME Shape, NEW t \in Threads,
         \/ Query(t) \/ Opened(t)
         \/ engine = "postgres" /\
              (Created(t) \/ NoMaintenance(t) \/ DropFails(t) \/ Renamed(t)
               \/ (DropSucceeds(t) /\ ~connectedDb[t]))
         \/ engine = "mysql" /\
              (MySqlCreated(t) \/ MySqlDropFails(t) \/ MySqlDropped(t)
               \/ (MySqlDropRuns(t) /\ ~connectedDb[t]))
         \/ engine = "mssql" /\ (MssqlBatchFails(t) \/ MssqlDropped(t) \/ MssqlRenamed(t))
         \/ engine = "oracle" /\ (OracleDropRuns(t) \/ OracleDropFails(t))
  PROVE  Ends(t)
<1>0. /\ TypeOK /\ StageOf(t) /\ info \in Names /\ open \in BOOLEAN /\ exists \subseteq Names
      /\ conn \in [Handles -> Sessions] /\ via[t] \in Handles \cup {None}
      /\ name[t] \in Names \cup {None} /\ newName[t] \in Names \cup {None}
      /\ Maintenance \in Names
  BY ConnectionAssumption DEF Shape, Types, TypeOK, Sessions
<1>e. ASSUME via[t] # None PROVE \A c \in EnsureConn(via[t]) : c \in [Handles -> Sessions]
  BY <1>0, <1>e, EnsureConnFacts
<1>1. CASE Query(t)
  <2>1. via[t] # None
    BY <1>0, <1>1 DEF Query, StageOf, Using
  <2>2. QED
    BY <1>0, <1>1, <1>e, <2>1 DEF Query, Ends
<1>2. CASE Opened(t)
  <2>1. via[t] # None
    BY <1>0, <1>2 DEF Opened, StageOf, Using
  <2>2. PICK c \in EnsureConn(via[t]) :
          open' = (c[via[t]] # "none") /\ cache' = cache /\ Finish(t, c)
    BY <1>2 DEF Opened
  <2>3. open' \in BOOLEAN
    BY <2>2, Zenon
  <2>4. c \in [Handles -> Sessions]
    BY <1>e, <2>1
  <2>5. info' = info /\ exists' = exists
    BY <1>2 DEF Opened
  <2>6. QED
    BY <1>0, <2>2, <2>3, <2>4, <2>5 DEF Ends
<1>3. CASE engine = "postgres" /\ Created(t)
  <2>1. via[t] # None /\ name[t] \in Names
    BY <1>0, <1>3 DEF Created, StageOf, Using, Naming
  <2>2. QED
    BY <1>0, <1>3, <1>e, <2>1 DEF Created, Ends
<1>4. CASE engine = "postgres" /\ NoMaintenance(t)
  BY <1>0, <1>4 DEF NoMaintenance, Ends
<1>5. CASE engine = "postgres" /\ DropFails(t)
  <2>1. via[t] # None
    BY <1>0, <1>5 DEF DropFails, StageOf
  <2>2. QED
    BY <1>0, <1>5, <1>e, <2>1 DEF DropFails, Ends
<1>6. CASE engine = "postgres" /\ Renamed(t)
  <2>1. via[t] # None
    BY <1>0, <1>6 DEF Renamed, StageOf
  <2>2. exists' \subseteq Names
    BY <1>0, <1>6, <2>1 DEF Renamed
  <2>3. QED
    BY <1>0, <1>6, <1>e, <2>1, <2>2 DEF Renamed, Ends
<1>7. CASE engine = "postgres" /\ DropSucceeds(t) /\ ~connectedDb[t]
  <2>1. via[t] # None
    BY <1>0, <1>7 DEF DropSucceeds, StageOf
  <2>2. QED
    BY <1>0, <1>7, <1>e, <2>1 DEF DropSucceeds, Ends
<1>8. CASE engine = "mysql" /\ MySqlCreated(t)
  <2>1. via[t] # None /\ name[t] \in Names
    BY <1>0, <1>8 DEF MySqlCreated, StageOf, Using, Naming
  <2>2. QED
    BY <1>0, <1>8, <1>e, <2>1 DEF MySqlCreated, Ends
<1>9. CASE engine = "mysql" /\ MySqlDropFails(t)
  <2>1. \A c \in MySqlDropSessions(t) : c \in [Handles -> Sessions]
    <3>1. CASE connectedDb[t]
      BY <1>0, <3>1 DEF MySqlDropSessions
    <3>2. CASE ~connectedDb[t]
      <4>1. via[t] # None
        BY <1>0, <1>9, <3>2 DEF MySqlDropFails, StageOf
      <4>2. QED
        BY <1>e, <3>2, <4>1 DEF MySqlDropSessions
    <3>3. QED
      BY <3>1, <3>2
  <2>2. QED
    BY <1>0, <1>9, <2>1 DEF MySqlDropFails, Ends
<1>10. CASE engine = "mysql" /\ MySqlDropped(t)
  BY <1>0, <1>10 DEF MySqlDropped, Ends
<1>11. CASE engine = "mysql" /\ MySqlDropRuns(t) /\ ~connectedDb[t]
  <2>1. via[t] # None
    BY <1>0, <1>11 DEF MySqlDropRuns, StageOf
  <2>2. PICK c \in EnsureConn(via[t]) : cache' = cache /\ Finish(t, WithoutSchema(c, name[t]))
    BY <1>11 DEF MySqlDropRuns, MySqlDropSessions
  <2>3. WithoutSchema(c, name[t]) \in [Handles -> Sessions]
    BY <1>e, <2>1 DEF WithoutSchema, Sessions
  <2>4. info' = info /\ open' = open /\ exists' \subseteq Names
    BY <1>0, <1>11 DEF MySqlDropRuns
  <2>5. QED
    BY <1>0, <2>2, <2>3, <2>4 DEF Ends
<1>12. CASE engine = "mssql" /\ MssqlBatchFails(t)
  BY <1>0, <1>12 DEF MssqlBatchFails, Ends
<1>13. CASE engine = "mssql" /\ MssqlDropped(t)
  BY <1>0, <1>13 DEF MssqlDropped, Ends
<1>14. CASE engine = "mssql" /\ MssqlRenamed(t)
  BY <1>0, <1>14 DEF MssqlRenamed, Ends
<1>15. CASE engine = "oracle" /\ OracleDropRuns(t)
  BY <1>0, <1>15 DEF OracleDropRuns, Ends
<1>16. CASE engine = "oracle" /\ OracleDropFails(t)
  BY <1>0, <1>16 DEF OracleDropFails, Ends
<1>17. QED
  BY <1>1, <1>2, <1>3, <1>4, <1>5, <1>6, <1>7, <1>8, <1>9, <1>10, <1>11, <1>12, <1>13, <1>14,
     <1>15, <1>16

\* The steps that forget cached handles: close(), and erase() at the start of a drop or rename.
LEMMA ShapeForgets ==
  ASSUME Shape, engine' = engine, NEW t \in Threads,
         \/ Close(t)
         \/ PgStep(t) /\ (DropErase(t) \/ RenameErase(t))
         \/ MySqlStep(t) /\ MySqlDrop(t)
         \/ MssqlStep(t) /\ (MssqlDrop(t) \/ MssqlRename(t))
         \/ OracleStep(t) /\ (OracleCloseCache(t) \/ OracleDrop(t))
  PROVE  Shape'
<1>0. /\ TypeOK /\ Keyed /\ StageOf(t) /\ cache \in [Names -> Handles \cup {None}]
      /\ pc \in [Threads -> Stages] /\ name \in [Threads -> Names \cup {None}]
      /\ newName \in [Threads -> Names \cup {None}] /\ connectedDb \in [Threads -> BOOLEAN]
      /\ via \in [Threads -> Handles \cup {None}] /\ open \in BOOLEAN
  BY DEF Shape, Types, TypeOK
<1>1. ASSUME NEW p \in Stages, pc' = [pc EXCEPT ![t] = p],
             cache' \in [Names -> Handles \cup {None}],
             \A n \in Names : cache'[n] = cache[n] \/ cache'[n] = None,
             conn' = Keep(conn, Referenced(cache', via)),
             name' \in [Threads -> Names \cup {None}], \A u \in Threads \ {t} : name'[u] = name[u],
             newName' \in [Threads -> Names \cup {None}],
             \A u \in Threads \ {t} : newName'[u] = newName[u],
             connectedDb' \in [Threads -> BOOLEAN],
             \A u \in Threads \ {t} : connectedDb'[u] = connectedDb[u],
             open' \in BOOLEAN, UNCHANGED <<via, info, exists>>, StageOf(t)'
      PROVE  Shape'
  <2>1. conn' \in [Handles -> Sessions] /\ Keyed' /\ Unreferenced'
    BY <1>0, <1>1, ForgetFacts
  <2>2. pc' \in [Threads -> Stages] /\ \A u \in Threads \ {t} : pc'[u] = pc[u]
    BY <1>0, <1>1
  <2>3. info' \in Names /\ exists' \subseteq Names /\ via' \in [Threads -> Handles \cup {None}]
    BY <1>0, <1>1 DEF TypeOK
  <2>4. TypeOK'
    BY <1>1, <2>1, <2>2, <2>3, Zenon DEF TypeOK, Sessions
  <2>5. \A u \in Threads \ {t} : Untouched(u)
    BY <1>1, <2>2 DEF Untouched
  <2>6. QED
    BY <1>1, <2>1, <2>4, <2>5, ShapeStep
<1>2. CASE Close(t)
  <2>1. /\ pc[t] = "idle" /\ pc' = pc /\ UNCHANGED <<name, newName, connectedDb, via, info, exists>>
        /\ cache' = [n \in Names |-> None] /\ conn' = Keep(conn, Referenced(cache', via))
        /\ open' \in BOOLEAN
    BY <1>2 DEF Close, call
  <2>2. pc' = [pc EXCEPT ![t] = "idle"] /\ "idle" \in Stages
    BY <1>0, <2>1 DEF Stages
  <2>3. StageOf(t)'
    BY <1>0, <2>1 DEF StageOf
  <2>4. QED
    BY <1>0, <1>1, <2>1, <2>2, <2>3
<1>3. CASE PgStep(t) /\ (DropErase(t) \/ RenameErase(t))
  <2>1. PICK p \in {"via", "renameVia"} :
          /\ cache' = [cache EXCEPT ![name[t]] = None] /\ conn' = Keep(conn, Referenced(cache', via))
          /\ pc' = [pc EXCEPT ![t] = p] /\ UNCHANGED <<call, via, info, open, exists>>
          /\ pc[t] \in {"erase", "renameErase"} /\ (p = "renameVia" => pc[t] = "renameErase")
    BY <1>3 DEF DropErase, RenameErase, Erase, Goto
  <2>2. p \in Stages /\ pc'[t] = p
    BY <1>0, <2>1 DEF Stages
  <2>3. UNCHANGED <<name, newName, connectedDb>>
    BY <2>1 DEF call
  <2>4. StageOf(t)'
    BY <1>0, <2>1, <2>2, <2>3 DEF StageOf, Without, Using, Naming
  <2>5. QED
    BY <1>0, <1>1, <2>1, <2>2, <2>3, <2>4
<1>4. CASE MySqlStep(t) /\ MySqlDrop(t)
  <2>1. PICK n \in Names :
          /\ pc[t] = "idle"
          /\ name' = [name EXCEPT ![t] = n]
          /\ connectedDb' = [connectedDb EXCEPT ![t] = (n = info)]
          /\ cache' = [cache EXCEPT ![n] = None]
          /\ conn' = Keep(conn, Referenced(cache', via))
          /\ pc' = [pc EXCEPT ![t] = IF n = info THEN "drop" ELSE "via"]
          /\ UNCHANGED <<newName, via, info, open, exists>>
    BY <1>4 DEF MySqlDrop, Goto
  <2>2. /\ connectedDb' \in [Threads -> BOOLEAN] /\ connectedDb'[t] = (n = info)
        /\ \A u \in Threads \ {t} : connectedDb'[u] = connectedDb[u]
    BY <1>0, <2>1, Zenon
  <2>3. PICK p \in {"drop", "via"} : pc' = [pc EXCEPT ![t] = p] /\ (p = "drop" <=> n = info)
    BY <2>1
  <2>4. p \in Stages /\ pc'[t] = p
    BY <1>0, <2>3 DEF Stages
  <2>5. engine = "mysql" /\ via'[t] = None /\ name'[t] = n
    BY <1>0, <1>4, <2>1 DEF MySqlStep, StageOf, Without
  <2>6. p = "drop" => connectedDb'[t]
    BY <2>2, <2>3, Zenon
  <2>7. StageOf(t)'
    BY <2>3, <2>4, <2>5, <2>6 DEF StageOf, Without, Using, Naming
  <2>8. QED
    BY <1>0, <1>1, <2>1, <2>2, <2>3, <2>4, <2>7
<1>5. ASSUME NEW n \in Names, NEW p \in {"drop", "rename"}, MssqlForget(t, n, p),
             newName' \in [Threads -> Names \cup {None}],
             \A u \in Threads \ {t} : newName'[u] = newName[u],
             engine \in {"mssql", "oracle"}
      PROVE  Shape'
  <2>1. /\ pc[t] = "idle"
        /\ name' = [name EXCEPT ![t] = n]
        /\ cache' = [cache EXCEPT ![n] = None]
        /\ conn' = Keep(conn, Referenced(cache', via))
        /\ pc' = [pc EXCEPT ![t] = p]
        /\ UNCHANGED <<connectedDb, via, info, open, exists>>
    BY <1>5 DEF MssqlForget, Goto
  <2>2. p \in Stages /\ pc'[t] = p /\ name'[t] = n
    BY <1>0, <2>1 DEF Stages
  <2>3. StageOf(t)'
    BY <1>5, <2>2 DEF StageOf, Without, Using, Naming
  <2>4. QED
    BY <1>0, <1>1, <1>5, <2>1, <2>2, <2>3
<1>6. CASE MssqlStep(t) /\ MssqlDrop(t)
  BY <1>0, <1>5, <1>6 DEF MssqlStep, MssqlDrop
<1>7. CASE MssqlStep(t) /\ MssqlRename(t)
  <2>1. PICK n \in Names, m \in Names \cup {None} :
          MssqlForget(t, n, "rename") /\ newName' = [newName EXCEPT ![t] = m]
    BY <1>7 DEF MssqlRename, Droppable
  <2>2. QED
    BY <1>0, <1>5, <1>7, <2>1 DEF MssqlStep
<1>8. CASE OracleStep(t) /\ OracleDrop(t)
  BY <1>0, <1>5, <1>8 DEF OracleStep, OracleDrop
<1>9. CASE OracleStep(t) /\ OracleCloseCache(t)
  <2>1. /\ pc[t] = "idle" /\ pc' = [pc EXCEPT ![t] = "closing"]
        /\ UNCHANGED <<name, newName, connectedDb, via, info, open, exists>>
        /\ cache' = [n \in Names |-> None] /\ conn' = Keep(conn, Referenced(cache', via))
    BY <1>9 DEF OracleCloseCache, call, Goto
  <2>2. "closing" \in Stages /\ pc'[t] = "closing"
    BY <1>0, <2>1 DEF Stages
  <2>3. StageOf(t)'
    BY <1>0, <2>1, <2>2 DEF StageOf, Without, Using, Naming
  <2>4. QED
    BY <1>0, <1>1, <2>1, <2>2, <2>3
<1>10. QED
  BY <1>2, <1>3, <1>4, <1>6, <1>7, <1>8, <1>9

\* The steps that leave cache, handles and sessions alone.
LEMMA ShapeNotes ==
  ASSUME Shape, engine' = engine, NEW t \in Threads,
         \/ PgStep(t) /\ \E n \in Names : Drop(t, n) \/ \E m \in Names \cup {None} : Rename(t, n, m)
         \/ MssqlStep(t) /\ MssqlCreate(t)
         \/ OracleStep(t) /\ (OracleClose(t) \/ OracleOpen(t) \/ OracleCreate(t))
  PROVE  Shape'
<1>0. /\ TypeOK /\ Keyed /\ Unreferenced /\ StageOf(t)
      /\ pc \in [Threads -> Stages] /\ name \in [Threads -> Names \cup {None}]
      /\ newName \in [Threads -> Names \cup {None}] /\ connectedDb \in [Threads -> BOOLEAN]
      /\ via \in [Threads -> Handles \cup {None}] /\ open \in BOOLEAN /\ exists \subseteq Names
  BY DEF Shape, Types, TypeOK
<1>1. ASSUME NEW p \in Stages, pc' = [pc EXCEPT ![t] = p],
             name' \in [Threads -> Names \cup {None}], \A u \in Threads \ {t} : name'[u] = name[u],
             newName' \in [Threads -> Names \cup {None}],
             \A u \in Threads \ {t} : newName'[u] = newName[u],
             connectedDb' \in [Threads -> BOOLEAN],
             \A u \in Threads \ {t} : connectedDb'[u] = connectedDb[u],
             open' \in BOOLEAN, exists' \subseteq Names,
             UNCHANGED <<via, cache, info, conn>>, StageOf(t)'
      PROVE  Shape'
  <2>1. Keyed' /\ Unreferenced'
    BY <1>0, <1>1 DEF Keyed, Unreferenced, Referenced
  <2>2. pc' \in [Threads -> Stages] /\ \A u \in Threads \ {t} : pc'[u] = pc[u]
    BY <1>0, <1>1
  <2>3. TypeOK'
    BY <1>0, <1>1, <2>2, Zenon DEF TypeOK
  <2>4. \A u \in Threads \ {t} : Untouched(u)
    BY <1>1, <2>2 DEF Untouched
  <2>5. QED
    BY <1>1, <2>1, <2>3, <2>4, ShapeStep
<1>2. ASSUME NEW n \in Names, PgStep(t), Drop(t, n) PROVE Shape'
  <2>1. /\ pc[t] = "idle" /\ pc' = [pc EXCEPT ![t] = "erase"] /\ name' = [name EXCEPT ![t] = n]
        /\ connectedDb' = [connectedDb EXCEPT ![t] = (n = info)]
        /\ UNCHANGED <<newName, via, cache, info, open, conn, exists>>
    BY <1>2 DEF Drop, Goto
  <2>2. /\ connectedDb' \in [Threads -> BOOLEAN]
        /\ \A u \in Threads \ {t} : connectedDb'[u] = connectedDb[u]
    BY <1>0, <2>1, Zenon
  <2>3. "erase" \in Stages /\ pc'[t] = "erase" /\ name'[t] = n
    BY <1>0, <2>1 DEF Stages
  <2>4. StageOf(t)'
    BY <1>0, <2>1, <2>3 DEF StageOf, Without, Using, Naming
  <2>5. QED
    BY <1>0, <1>1, <2>1, <2>2, <2>3, <2>4
<1>3. ASSUME NEW n \in Names, NEW m \in Names \cup {None}, PgStep(t), Rename(t, n, m) PROVE Shape'
  <2>1. /\ pc[t] = "idle" /\ pc' = [pc EXCEPT ![t] = "renameErase"] /\ name' = [name EXCEPT ![t] = n]
        /\ newName' = [newName EXCEPT ![t] = m]
        /\ UNCHANGED <<connectedDb, via, cache, info, open, conn, exists>>
    BY <1>3 DEF Rename, Goto
  <2>2. "renameErase" \in Stages /\ pc'[t] = "renameErase" /\ name'[t] = n /\ newName'[t] = m
    BY <1>0, <2>1 DEF Stages
  <2>3. StageOf(t)'
    BY <1>0, <2>1, <2>2 DEF StageOf, Without, Using, Naming
  <2>4. QED
    BY <1>0, <1>1, <2>1, <2>2, <2>3
<1>4. ASSUME pc' = pc, UNCHANGED <<call, via, cache, info, conn>>, open' \in BOOLEAN, exists' \subseteq Names
      PROVE  Shape'
  <2>1. UNCHANGED <<name, newName, connectedDb>>
    BY <1>4 DEF call
  <2>2. pc' = [pc EXCEPT ![t] = pc[t]] /\ pc[t] \in Stages
    BY <1>0, <1>4
  <2>3. StageOf(t)'
    BY <1>0, <1>4, <2>1 DEF StageOf
  <2>4. QED
    BY <1>0, <1>1, <1>4, <2>1, <2>2, <2>3
<1>5. CASE MssqlStep(t) /\ MssqlCreate(t)
  BY <1>0, <1>4, <1>5 DEF MssqlCreate, Droppable
<1>6. CASE OracleStep(t) /\ (OracleOpen(t) \/ OracleCreate(t))
  BY <1>0, <1>4, <1>6 DEF OracleOpen, OracleCreate
<1>7. CASE OracleStep(t) /\ OracleClose(t)
  <2>1. /\ pc[t] = "closing" /\ pc' = [pc EXCEPT ![t] = "idle"] /\ open' \in BOOLEAN
        /\ UNCHANGED <<name, newName, connectedDb, via, cache, info, conn, exists>>
    BY <1>7 DEF OracleClose, call, Goto
  <2>2. "idle" \in Stages /\ pc'[t] = "idle"
    BY <1>0, <2>1 DEF Stages
  <2>3. StageOf(t)'
    BY <1>0, <2>1, <2>2 DEF StageOf, Without, Using, Naming
  <2>4. QED
    BY <1>0, <1>1, <2>1, <2>2, <2>3
<1>8. QED
  BY <1>2, <1>3, <1>5, <1>6, <1>7

\* The steps inside a drop or rename: a handle is looked up, the server is asked, and
\* PostgreSQL's default moves with the handle it went through.
LEMMA ShapeAdmin ==
  ASSUME Shape, engine' = engine, NEW t \in Threads,
         \/ PgStep(t) /\ (DropVia(t) \/ RenameVia(t) \/ DropMaintenance(t) \/ Terminate(t)
                          \/ (DropSucceeds(t) /\ connectedDb[t]) \/ Dropped(t))
         \/ MySqlStep(t) /\ (MySqlDropVia(t) \/ (MySqlDropRuns(t) /\ connectedDb[t]))
         \/ MssqlStep(t) /\ execOnMaster(t)
  PROVE  Shape'
<1> USE HandleIsHandle
<1>0. /\ TypeOK /\ Keyed /\ Unreferenced /\ StageOf(t) /\ info \in Names
      /\ pc \in [Threads -> Stages] /\ name \in [Threads -> Names \cup {None}]
      /\ newName \in [Threads -> Names \cup {None}] /\ connectedDb \in [Threads -> BOOLEAN]
      /\ via \in [Threads -> Handles \cup {None}] /\ open \in BOOLEAN /\ exists \subseteq Names
      /\ cache \in [Names -> Handles \cup {None}] /\ conn \in [Handles -> Sessions]
      /\ Maintenance \in Names
  BY ConnectionAssumption DEF Shape, Types, TypeOK, Sessions
<1>1. ASSUME NEW p \in Stages, pc' = [pc EXCEPT ![t] = p], UNCHANGED <<call, info, open>>,
             via' \in [Threads -> Handles \cup {None}], \A u \in Threads \ {t} : via'[u] = via[u],
             cache' \in [Names -> Handles \cup {None}], conn' \in [Handles -> Sessions],
             exists' \subseteq Names, Keyed', Unreferenced', StageOf(t)'
      PROVE  Shape'
  <2>1. pc' \in [Threads -> Stages] /\ \A u \in Threads \ {t} : pc'[u] = pc[u]
    BY <1>0, <1>1
  <2>2. UNCHANGED <<name, newName, connectedDb>>
    BY <1>1 DEF call
  <2>3. TypeOK'
    BY <1>0, <1>1, <2>1, <2>2, Zenon DEF TypeOK, Sessions
  <2>4. \A u \in Threads \ {t} : Untouched(u)
    BY <1>1, <2>1, <2>2 DEF Untouched
  <2>5. QED
    BY <1>1, <2>3, <2>4, ShapeStep
<1>2. CASE \/ PgStep(t) /\ (DropVia(t) \/ RenameVia(t))
           \/ MySqlStep(t) /\ MySqlDropVia(t)
  <2>1. PICK p \in {"maintenance", "terminate", "rename", "drop"} :
          /\ pc' = [pc EXCEPT ![t] = p]
          /\ pc[t] \in {"via", "renameVia"} /\ (p = "rename" => pc[t] = "renameVia")
          /\ Lookup(t, info) /\ UNCHANGED <<call, info, open, exists>>
    <3>1. CASE PgStep(t) /\ DropVia(t)
      BY <3>1, Zenon DEF DropVia, Goto, PgStep
    <3>2. CASE PgStep(t) /\ RenameVia(t)
      BY <3>2 DEF RenameVia, Goto, PgStep
    <3>3. CASE MySqlStep(t) /\ MySqlDropVia(t)
      BY <3>3 DEF MySqlDropVia, Goto, MySqlStep
    <3>4. QED
      BY <1>2, <3>1, <3>2, <3>3
  <2>2. via[t] = None
    BY <1>0, <2>1 DEF StageOf, Without
  <2>3. /\ cache' \in [Names -> Handles \cup {None}]
        /\ via' \in [Threads -> Handles \cup {None}]
        /\ conn' = conn
        /\ via'[t] \in Handles
        /\ \A u \in Threads : u # t => via'[u] = via[u]
        /\ Keyed' /\ Unreferenced'
    BY <1>0, <2>1, <2>2, LookupFacts
  <2>4. p \in Stages /\ pc'[t] = p /\ UNCHANGED <<name, newName>>
    BY <1>0, <2>1 DEF Stages, call
  <2>5. StageOf(t)'
    BY <1>0, <2>1, <2>3, <2>4 DEF StageOf, Without, Using, Naming
  <2>6. QED
    BY <1>0, <1>1, <2>1, <2>3, <2>4, <2>5
<1>3. CASE PgStep(t) /\ DropMaintenance(t)
  <2>1. PICK h \in Handles :
          /\ Fresh(h, Maintenance) /\ via' = [via EXCEPT ![t] = h]
          /\ conn' = Keep([conn EXCEPT ![h] = "up"], Referenced(cache, via'))
    BY <1>3 DEF DropMaintenance
  <2>2. /\ pc[t] = "maintenance" /\ pc' = [pc EXCEPT ![t] = "terminate"]
        /\ UNCHANGED <<call, cache, info, open, exists>>
    BY <1>3 DEF DropMaintenance, Goto, PgStep
  <2>3. PICK c \in [Handles -> Sessions] : conn' = Keep(c, Referenced(cache, via'))
    BY <1>0, <2>1 DEF Sessions
  <2>4. /\ conn' \in [Handles -> Sessions]
        /\ \A g \in Handles : g \notin Referenced(cache, via') => conn'[g] = "none"
    BY <2>3, KeepFacts
  <2>5. Keyed' /\ Unreferenced'
    BY <1>0, <2>2, <2>4 DEF Keyed, Unreferenced
  <2>6. "terminate" \in Stages /\ pc'[t] = "terminate" /\ UNCHANGED <<name, newName>>
    BY <1>0, <2>2 DEF Stages, call
  <2>7. StageOf(t)'
    BY <1>0, <2>1, <2>2, <2>6 DEF StageOf, Without, Using, Naming
  <2>8. QED
    BY <1>0, <1>1, <2>1, <2>2, <2>4, <2>5, <2>6, <2>7
<1>4. ASSUME NEW p \in {"drop", "dropped"}, pc' = [pc EXCEPT ![t] = p],
             pc[t] \in {"terminate", "drop"},
             UNCHANGED <<call, via, cache, info, open>>, exists' \subseteq Names,
             conn' \in [Handles -> Sessions], engine \notin {"postgres"} \/ via[t] # None,
             engine = "mysql" /\ p = "drop" => via[t] # None,
             \A g \in Handles : g \notin Referenced(cache, via) => conn'[g] = "none"
      PROVE  Shape'
  <2>1. Keyed' /\ Unreferenced'
    BY <1>0, <1>4 DEF Keyed, Unreferenced
  <2>2. p \in Stages /\ pc'[t] = p /\ UNCHANGED <<name, newName>>
    BY <1>0, <1>4 DEF Stages, call
  <2>3. StageOf(t)'
    BY <1>0, <1>4, <2>2 DEF StageOf, Without, Using, Naming
  <2>4. QED
    BY <1>0, <1>1, <1>4, <2>1, <2>2, <2>3
<1>5. CASE PgStep(t) /\ Terminate(t)
  <2>1. via[t] \in Handles
    BY <1>0, <1>5 DEF Terminate, StageOf, Using
  <2>2. PICK c \in EnsureConn(via[t]) :
          conn' = [h \in Handles |-> IF c[via[t]] = "up" /\ h \in Others(c, name[t], via[t])
                                     THEN "dead" ELSE c[h]]
    BY <1>5 DEF Terminate
  <2>3. /\ c \in [Handles -> Sessions]
        /\ \A g \in Handles : g # via[t] => c[g] = conn[g]
    BY <1>0, <2>1, EnsureConnFacts
  <2>4. conn' \in [Handles -> Sessions]
    BY <2>2, <2>3 DEF Sessions
  <2>5. ASSUME NEW g \in Handles, g \notin Referenced(cache, via) PROVE conn'[g] = "none"
    <3>1. g # via[t] /\ conn[g] = "none"
      BY <1>0, <2>5 DEF Referenced, Unreferenced
    <3>2. QED
      BY <2>2, <2>3, <3>1 DEF Others
  <2>6. QED
    BY <1>0, <1>4, <1>5, <2>1, <2>4, <2>5 DEF Terminate, Goto, PgStep
<1>6. CASE PgStep(t) /\ DropSucceeds(t) /\ connectedDb[t]
  <2>1. via[t] \in Handles
    BY <1>0, <1>6 DEF PgStep, DropSucceeds, StageOf
  <2>2. PICK c \in EnsureConn(via[t]) :
          pc' = [pc EXCEPT ![t] = "dropped"] /\ conn' = c /\ UNCHANGED <<call, via, cache>>
    BY <1>6 DEF DropSucceeds, Goto
  <2>3. /\ c \in [Handles -> Sessions]
        /\ \A g \in Handles : g # via[t] => c[g] = conn[g]
    BY <1>0, <2>1, EnsureConnFacts
  <2>4. ASSUME NEW g \in Handles, g \notin Referenced(cache, via) PROVE conn'[g] = "none"
    <3>1. g # via[t] /\ conn[g] = "none"
      BY <1>0, <2>4 DEF Referenced, Unreferenced
    <3>2. QED
      BY <2>2, <2>3, <3>1
  <2>5. QED
    BY <1>0, <1>4, <1>6, <2>1, <2>2, <2>3, <2>4 DEF DropSucceeds, PgStep
<1>7. CASE PgStep(t) /\ Dropped(t)
  <2>1. /\ pc[t] = "dropped" /\ info' = via[t].db
        /\ cache' = [cache EXCEPT ![via[t].db] = via[t]] /\ Finish(t, conn)
        /\ UNCHANGED <<open, exists>>
    BY <1>7 DEF Dropped, PgStep
  <2>2. via[t] \in Handles
    BY <1>0, <1>7, <2>1 DEF PgStep, StageOf
  <2>3. cache' \in [Names -> Handles \cup {None}] /\ info' \in Names
    BY <1>0, <2>1, <2>2
  <2>4. Keyed'
    BY <1>0, <2>1, <2>2 DEF Keyed
  <2>5. /\ pc' \in [Threads -> Stages] /\ pc'[t] = "idle"
        /\ name' \in [Threads -> Names \cup {None}]
        /\ newName' \in [Threads -> Names \cup {None}]
        /\ connectedDb' \in [Threads -> BOOLEAN]
        /\ via' \in [Threads -> Handles \cup {None}] /\ via'[t] = None
        /\ conn' \in [Handles -> Sessions]
        /\ \A u \in Threads \ {t} : Untouched(u)
        /\ Unreferenced'
    BY <1>0, <2>1, <2>3, FinishFacts DEF Untouched
  <2>6. TypeOK'
    BY <1>0, <2>1, <2>3, <2>5, Zenon DEF TypeOK, Sessions
  <2>7. StageOf(t)'
    BY <2>5 DEF StageOf, Without, Using, Naming
  <2>8. QED
    BY <2>4, <2>5, <2>6, <2>7, ShapeStep
<1>8. CASE MySqlStep(t) /\ MySqlDropRuns(t) /\ connectedDb[t]
  <2>1. /\ pc[t] = "drop" /\ pc' = [pc EXCEPT ![t] = "dropped"]
        /\ conn' = WithoutSchema(conn, name[t]) /\ UNCHANGED <<call, via, cache, info, open>>
        /\ exists' \subseteq Names /\ engine = "mysql"
    BY <1>0, <1>8 DEF MySqlDropRuns, MySqlDropSessions, Goto, MySqlStep
  <2>2. conn' \in [Handles -> Sessions]
    BY <1>0, <2>1 DEF WithoutSchema, Sessions
  <2>3. \A g \in Handles : g \notin Referenced(cache, via) => conn'[g] = "none"
    BY <1>0, <2>1 DEF WithoutSchema, Unreferenced
  <2>4. QED
    BY <1>4, <2>1, <2>2, <2>3
<1>9. CASE MssqlStep(t) /\ execOnMaster(t)
  <2>1. /\ pc[t] = "drop" /\ pc' = [pc EXCEPT ![t] = "dropped"]
        /\ conn' = Killed(name[t]) /\ UNCHANGED <<call, via, cache, info, open>>
        /\ exists' \subseteq Names /\ engine = "mssql"
    BY <1>0, <1>9 DEF execOnMaster, Goto, MssqlStep
  <2>2. conn' \in [Handles -> Sessions]
    BY <1>0, <2>1 DEF Killed, Sessions
  <2>3. \A g \in Handles : g \notin Referenced(cache, via) => conn'[g] = "none"
    BY <1>0, <2>1 DEF Killed, Unreferenced
  <2>4. QED
    BY <1>4, <2>1, <2>2, <2>3
<1>10. QED
  BY <1>2, <1>3, <1>5, <1>6, <1>7, <1>8, <1>9

\* Every step keeps the shape.
LEMMA ShapeNext == Shape /\ [ServersNext]_serverVars => Shape'
<1> SUFFICES ASSUME Shape, [ServersNext]_serverVars PROVE Shape'
  OBVIOUS
<1>1. CASE UNCHANGED serverVars
  <2>1. /\ UNCHANGED <<pc, name, newName, connectedDb, via, cache, info, open, conn, exists>>
        /\ UNCHANGED engine
    BY <1>1 DEF serverVars, vars
  <2>2. Types' /\ Keyed'
    BY <2>1 DEF Shape, Types, TypeOK, Keyed
  <2>3. Unreferenced'
    BY <2>1 DEF Shape, Unreferenced, Referenced
  <2>4. \A t \in Threads : StageOf(t)'
    BY <2>1 DEF Shape, StageOf
  <2>5. QED
    BY <2>2, <2>3, <2>4 DEF Shape
<1>2. CASE ServersNext
  <2>1. engine' = engine
    BY <1>2, StepCases DEF Noted
  <2>2. PICK t \in Threads : AnyStep(t)
    BY <1>2, StepCases
  <2>3. CASE CallStep(t)
    BY <2>1, <2>3, EndingSteps, ShapeEnds, ShapeForgets, ShapeHandles DEF CallStep
  <2>4. CASE HandleStep(t)
    BY <2>1, <2>4, EndingSteps, ShapeEnds, ShapeHandles
  <2>5. CASE PgStep(t)
    <3>1. engine = "postgres"
      BY <2>5 DEF PgStep
    <3>2. CASE Created(t) \/ NoMaintenance(t) \/ DropFails(t) \/ Renamed(t)
               \/ (DropSucceeds(t) /\ ~connectedDb[t])
      BY <2>1, <3>1, <3>2, EndingSteps, ShapeEnds
    <3>3. CASE DropErase(t) \/ RenameErase(t)
      BY <2>1, <2>5, <3>3, ShapeForgets
    <3>4. CASE \E n \in Names : Drop(t, n) \/ \E m \in Names \cup {None} : Rename(t, n, m)
      BY <2>1, <2>5, <3>4, ShapeNotes
    <3>5. CASE DropVia(t) \/ RenameVia(t) \/ DropMaintenance(t) \/ Terminate(t)
               \/ (DropSucceeds(t) /\ connectedDb[t]) \/ Dropped(t)
      BY <2>1, <2>5, <3>5, ShapeAdmin
    <3>6. QED
      BY <2>5, <3>2, <3>3, <3>4, <3>5 DEF PgStep
  <2>6. CASE MySqlStep(t)
    <3>1. engine = "mysql"
      BY <2>6 DEF MySqlStep
    <3>2. CASE MySqlCreated(t) \/ MySqlDropFails(t) \/ MySqlDropped(t)
               \/ (MySqlDropRuns(t) /\ ~connectedDb[t])
      BY <2>1, <3>1, <3>2, EndingSteps, ShapeEnds
    <3>3. CASE MySqlDrop(t)
      BY <2>1, <2>6, <3>3, ShapeForgets
    <3>4. CASE MySqlDropVia(t) \/ (MySqlDropRuns(t) /\ connectedDb[t])
      BY <2>1, <2>6, <3>4, ShapeAdmin
    <3>5. QED
      BY <2>6, <3>2, <3>3, <3>4 DEF MySqlStep
  <2>7. CASE MssqlStep(t)
    <3>1. engine = "mssql"
      BY <2>7 DEF MssqlStep
    <3>2. CASE MssqlBatchFails(t) \/ MssqlDropped(t) \/ MssqlRenamed(t)
      BY <2>1, <3>1, <3>2, EndingSteps, ShapeEnds
    <3>3. CASE MssqlDrop(t) \/ MssqlRename(t)
      BY <2>1, <2>7, <3>3, ShapeForgets
    <3>4. CASE MssqlCreate(t)
      BY <2>1, <2>7, <3>4, ShapeNotes
    <3>5. CASE execOnMaster(t)
      BY <2>1, <2>7, <3>5, ShapeAdmin
    <3>6. QED
      BY <2>7, <3>2, <3>3, <3>4, <3>5 DEF MssqlStep
  <2>8. CASE OracleStep(t)
    <3>1. engine = "oracle"
      BY <2>8 DEF OracleStep
    <3>2. CASE OracleDropRuns(t) \/ OracleDropFails(t)
      BY <2>1, <3>1, <3>2, EndingSteps, ShapeEnds
    <3>3. CASE OracleCloseCache(t) \/ OracleDrop(t)
      BY <2>1, <2>8, <3>3, ShapeForgets
    <3>4. CASE OracleClose(t) \/ OracleOpen(t) \/ OracleCreate(t)
      BY <2>1, <2>8, <3>4, ShapeNotes
    <3>5. QED
      BY <2>8, <3>2, <3>3, <3>4 DEF OracleStep
  <2>9. QED
    BY <2>2, <2>3, <2>4, <2>5, <2>6, <2>7, <2>8 DEF AnyStep
<1>3. QED
  BY <1>1, <1>2

\* The connections start in that shape.
LEMMA ShapeInit == ServersInit => Shape
<1> SUFFICES ASSUME ServersInit PROVE Shape
  OBVIOUS
<1>1. Init /\ engine \in Engines
  BY DEF ServersInit
<1>2. connectedDb \in [Threads -> BOOLEAN] /\ open \in BOOLEAN
  BY <1>1, Zenon DEF Init
<1>3. TypeOK
  BY <1>1, <1>2, ConnectionAssumption DEF Init, TypeOK, Stages
<1>4. Keyed /\ Unreferenced
  BY <1>1 DEF Init, Keyed, Unreferenced
<1>5. \A t \in Threads : StageOf(t)
  BY <1>1 DEF Init, StageOf, Without, Using, Naming
<1>6. QED
  BY <1>1, <1>3, <1>4, <1>5 DEF Shape, Types

\* The calls, handles and sessions of all four connections keep their types, and a
\* handle is always cached under its own database and closed with its last reference.
THEOREM ShapeCorrect == ServersSpec => []Shape
BY ShapeInit, ShapeNext, PTL DEF ServersSpec

----------------------------------------------------------------------------
(* The default database *)

Quiet == {"idle", "query", "opening", "create"}

\* The calls on handles leave the default and the server's databases alone, and the
\* calls of the other threads.
LEMMA QuietSteps ==
  ASSUME Shape, NEW t \in Threads, CallStep(t) \/ HandleStep(t)
  PROVE  /\ info' = info /\ exists' = exists
         /\ pc[t] \in Quiet /\ pc'[t] \in Quiet
         /\ \A u \in Threads \ {t} : Untouched(u)
<1>0. TypeOK /\ pc \in [Threads -> Stages] /\ via \in [Threads -> Handles \cup {None}]
      /\ name \in [Threads -> Names \cup {None}]
  BY DEF Shape, Types, TypeOK
<1>1. CASE Query(t) \/ Opened(t)
  <2>1. Ends(t)
    BY <1>1, EndingSteps
  <2>2. info' = info /\ exists' = exists /\ pc[t] \in Quiet
    BY <1>1 DEF Query, Opened, Quiet
  <2>3. QED
    BY <1>0, <2>1, <2>2, EndsFacts DEF Quiet
<1>2. CASE Close(t)
  BY <1>2 DEF Close, call, Quiet, Untouched
<1>3. ASSUME NEW p \in Quiet, pc[t] = "idle", Goto(t, p), NEW h, via' = [via EXCEPT ![t] = h],
             UNCHANGED <<newName, connectedDb, info, exists>>,
             name' = name \/ \E n \in Names : name' = [name EXCEPT ![t] = n]
      PROVE  /\ info' = info /\ exists' = exists
             /\ pc[t] \in Quiet /\ pc'[t] \in Quiet
             /\ \A u \in Threads \ {t} : Untouched(u)
  BY <1>0, <1>3 DEF Goto, Quiet, Untouched
<1>4. ASSUME NEW n \in Names, OpenDatabase(t, n)
      PROVE  \E p \in Quiet, h \in Handles : pc[t] = "idle" /\ Goto(t, p) /\ via' = [via EXCEPT ![t] = h]
               /\ UNCHANGED <<name, newName, connectedDb, info, exists>>
  BY <1>4 DEF OpenDatabase, call, Quiet
<1>5. ASSUME NEW n, Lookup(t, n) PROVE \E h : via' = [via EXCEPT ![t] = h]
  BY <1>5 DEF Lookup
<1>6. CASE \E n \in Names : OpenDatabase(t, n)
  BY <1>3, <1>4, <1>6
<1>7. CASE Open(t)
  BY <1>3, <1>5, <1>7 DEF Open, call, Quiet
<1>8. CASE \E n \in Names : Database(t, n) \/ Create(t, n)
  BY <1>3, <1>5, <1>8 DEF Database, Create, call, Quiet
<1>9. QED
  BY <1>1, <1>2, <1>6, <1>7, <1>8 DEF CallStep, HandleStep

\* What ensureConn connects is a database that exists.
LEMMA EnsureConnLive ==
  ASSUME TypeOK, Live, NEW h \in Handles, NEW c \in EnsureConn(h), NEW g \in Handles, c[g] = "up"
  PROVE  g.db \in exists
<1>1. conn \in [Handles -> Sessions]
  BY DEF TypeOK, Sessions
<1>2. c = conn \/ (h.db \in exists /\ c = [conn EXCEPT ![h] = "up"])
  BY DEF EnsureConn
<1>3. QED
  BY <1>1, <1>2 DEF Live

\* The calls on handles connect to databases that exist, too.
LEMMA LiveQuiet ==
  ASSUME Shape, Live, NEW t \in Threads, CallStep(t) \/ HandleStep(t)
  PROVE  Live'
<1>0. /\ TypeOK /\ Keyed /\ Unreferenced /\ StageOf(t) /\ info \in Names
      /\ cache \in [Names -> Handles \cup {None}] /\ via \in [Threads -> Handles \cup {None}]
      /\ conn \in [Handles -> Sessions]
  BY DEF Shape, Types, TypeOK, Sessions
<1>1. exists' = exists
  BY QuietSteps
<1>2. CASE Query(t) \/ Opened(t)
  <2>1. via[t] \in Handles
    BY <1>0, <1>2 DEF Query, Opened, StageOf, Using
  <2>2. PICK c \in EnsureConn(via[t]) : cache' = cache /\ Finish(t, c)
    BY <1>2 DEF Query, Opened
  <2>3. c \in [Handles -> Sessions]
    BY <1>0, <2>1, EnsureConnFacts
  <2>4. \A h \in Handles : conn'[h] = c[h] \/ conn'[h] = "none"
    BY <1>0, <2>2, <2>3, FinishFacts
  <2>5. QED
    BY <1>0, <1>1, <2>1, <2>4, EnsureConnLive DEF Live
<1>3. CASE Close(t)
  <2>1. conn' = Keep(conn, Referenced(cache', via))
    BY <1>3 DEF Close
  <2>2. QED
    BY <1>0, <1>1, <2>1, KeepFacts DEF Live
<1>4. ASSUME conn' = conn PROVE Live'
  BY <1>1, <1>4 DEF Live
<1>5. CASE \E n \in Names : OpenDatabase(t, n)
  BY <1>4, <1>5 DEF OpenDatabase
<1>6. CASE Open(t) \/ \E n \in Names : Database(t, n) \/ Create(t, n)
  BY <1>4, <1>6 DEF Open, Database, Create, Lookup
<1>7. QED
  BY <1>2, <1>3, <1>5, <1>6 DEF CallStep, HandleStep

\* A step of t that moves the default, or takes the maintenance database away, while
\* u is about to do the other of the two, is a Crossing.
LEMMA PgOther ==
  ASSUME Shape, PgDefault, engine = "postgres", Noted, NEW t \in Threads,
         NEW u \in Threads \ {t}, Untouched(u),
         info' = info \/ (info' = Maintenance /\ pc[t] = "dropped"),
         Maintenance \in exists => Maintenance \in exists' \/ Altering(t, Maintenance)
  PROVE  PgCall(u)'
<1>1. PgCall(u) /\ (crossed => crossed') /\ (Crossing => crossed')
  BY DEF PgDefault, Noted
<1>2. pc'[u] = "dropped" => Maintenance \in exists' \/ crossed'
  BY <1>1 DEF PgCall, Crossing, Untouched
<1>3. ASSUME pc[u] \in {"rename", "terminate", "drop"}, name[u] = Maintenance, info # Maintenance,
             info' = Maintenance
      PROVE  crossed'
  BY <1>1, <1>3 DEF Crossing, Altering, Dropping
<1>4. QED
  BY <1>1, <1>2, <1>3 DEF PgCall, Untouched

\* PostgreSQL, any number of threads.
LEMMA PgDefaultStep ==
  ASSUME Shape, PgDefault, engine = "postgres", Noted, NEW t \in Threads,
         CallStep(t) \/ HandleStep(t) \/ PgStep(t)
  PROVE  PgDefault'
<1> DEFINE Fine == Settled \/ (info = Maintenance /\ crossed)
<1>0. /\ TypeOK /\ Keyed /\ Unreferenced /\ StageOf(t) /\ info \in Names /\ PgCall(t)
      /\ pc \in [Threads -> Stages] /\ name \in [Threads -> Names \cup {None}]
      /\ connectedDb \in [Threads -> BOOLEAN]
      /\ via \in [Threads -> Handles \cup {None}] /\ exists \subseteq Names
      /\ cache \in [Names -> Handles \cup {None}] /\ conn \in [Handles -> Sessions]
      /\ newName \in [Threads -> Names \cup {None}]
  BY DEF Shape, Types, TypeOK, PgDefault, Sessions
<1>00. Live /\ Fine /\ (crossed => crossed')
  BY DEF PgDefault, Noted
<1>a. ASSUME PgCall(t)', Live', Fine', \A u \in Threads \ {t} : Untouched(u),
             info' = info \/ (info' = Maintenance /\ pc[t] = "dropped"),
             Maintenance \in exists => Maintenance \in exists' \/ Altering(t, Maintenance)
      PROVE  PgDefault'
  <2>1. ASSUME NEW u \in Threads PROVE PgCall(u)'
    <3>1. CASE u = t
      BY <1>a, <3>1
    <3>2. CASE u # t
      BY <1>a, <3>2, PgOther
    <3>3. QED
      BY <3>1, <3>2
  <2>2. QED
    BY <1>a, <2>1 DEF PgDefault
<1>b. ASSUME info' = info, exists \subseteq exists', pc[t] # "dropped",
             \A u \in Threads \ {t} : Untouched(u)
      PROVE  Fine'
  BY <1>00, <1>b DEF Settled, Untouched
<1>c. ASSUME info' = info, exists \subseteq exists', pc[t] # "dropped", PgCall(t)', Live',
             \A u \in Threads \ {t} : Untouched(u)
      PROVE  PgDefault'
  BY <1>a, <1>b, <1>c
<1>d. ASSUME exists' = exists, conn' = conn PROVE Live'
  BY <1>00, <1>d DEF Live
<1>e. ASSUME NEW h \in Handles, NEW c \in EnsureConn(h), exists \subseteq exists',
             \A g \in Handles : conn'[g] = c[g] \/ conn'[g] # "up"
      PROVE  Live'
  <2>1. \A g \in Handles : c[g] = "up" => g.db \in exists
    BY <1>0, <1>00, <1>e, EnsureConnLive
  <2>2. QED
    BY <1>e, <2>1 DEF Live
<1>f. ASSUME \A g \in Handles : conn'[g] = conn[g] \/ conn'[g] = "none", exists \subseteq exists'
      PROVE  Live'
  BY <1>00, <1>f DEF Live
<1>1. CASE CallStep(t) \/ HandleStep(t)
  <2>1. /\ info' = info /\ exists' = exists
        /\ pc[t] \in Quiet /\ pc'[t] \in Quiet
        /\ \A u \in Threads \ {t} : Untouched(u)
    BY <1>1, QuietSteps
  <2>2. PgCall(t)'
    BY <2>1 DEF PgCall, Quiet
  <2>3. Live'
    BY <1>1, <1>00, LiveQuiet
  <2>4. QED
    BY <1>c, <2>1, <2>2, <2>3 DEF Quiet
<1>3. ASSUME NEW h \in Handles, NEW c \in EnsureConn(h) \cup {conn}, Finish(t, c), cache' = cache,
             info' = info, exists \subseteq exists', pc[t] # "dropped"
      PROVE  PgDefault'
  <2>1. c \in [Handles -> Sessions] /\ c \in EnsureConn(h) \cup {conn}
    BY <1>0, <1>3, EnsureConnFacts
  <2>2. /\ pc'[t] = "idle" /\ \A u \in Threads \ {t} : Untouched(u)
        /\ \A g \in Handles : conn'[g] = c[g] \/ conn'[g] = "none"
    BY <1>0, <1>3, <2>1, FinishFacts DEF Untouched
  <2>3. PgCall(t)'
    BY <2>2 DEF PgCall
  <2>4. Live'
    BY <1>3, <1>e, <1>f, <2>2
  <2>5. QED
    BY <1>3, <1>c, <2>2, <2>3, <2>4
<1>4. CASE PgStep(t) /\ Created(t)
  <2>1. via[t] \in Handles
    BY <1>0, <1>4 DEF Created, StageOf, Using
  <2>2. PICK c \in EnsureConn(via[t]) : exists \subseteq exists' /\ cache' = cache /\ Finish(t, c)
    BY <1>4 DEF Created
  <2>3. info' = info /\ pc[t] # "dropped"
    BY <1>4 DEF Created
  <2>4. QED
    BY <1>3, <2>1, <2>2, <2>3
<1>5. CASE PgStep(t) /\ (NoMaintenance(t) \/ DropFails(t))
  <2>1. via[t] \in Handles
    BY <1>0, <1>5 DEF PgStep, NoMaintenance, DropFails, StageOf, Using
  <2>2. PICK c \in EnsureConn(via[t]) \cup {conn} : Finish(t, c)
    BY <1>5 DEF NoMaintenance, DropFails
  <2>3. info' = info /\ pc[t] # "dropped" /\ exists' = exists /\ cache' = cache
    BY <1>5 DEF NoMaintenance, DropFails
  <2>4. QED
    BY <1>3, <2>1, <2>2, <2>3
<1>6. CASE PgStep(t) /\ (DropErase(t) \/ RenameErase(t))
  <2>1. /\ pc[t] \in {"erase", "renameErase"} /\ (pc[t] = "erase" => pc' = [pc EXCEPT ![t] = "via"])
        /\ (pc[t] = "renameErase" => pc' = [pc EXCEPT ![t] = "renameVia"])
        /\ UNCHANGED <<name, newName, connectedDb, via, info, exists>>
        /\ conn' = Keep(conn, Referenced(cache', via))
    BY <1>6 DEF DropErase, RenameErase, Erase, Goto, call
  <2>2. PgCall(t)'
    BY <1>0, <2>1 DEF PgCall
  <2>3. \A u \in Threads \ {t} : Untouched(u)
    BY <1>0, <2>1 DEF Untouched
  <2>4. Live'
    BY <1>0, <1>f, <2>1, KeepFacts
  <2>5. QED
    BY <1>c, <2>1, <2>2, <2>3, <2>4
<1>7. CASE PgStep(t) /\ DropVia(t)
  <2>1. via[t] = None
    BY <1>0, <1>7 DEF DropVia, StageOf, Without
  <2>2. via'[t].db = info /\ conn' = conn /\ \A u \in Threads : u # t => via'[u] = via[u]
    BY <1>0, <1>7, <2>1, LookupFacts DEF DropVia
  <2>3. /\ pc[t] = "via" /\ pc' = [pc EXCEPT ![t] = IF connectedDb[t] THEN "maintenance" ELSE "terminate"]
        /\ UNCHANGED <<name, newName, connectedDb, info, exists>>
    BY <1>7 DEF DropVia, Goto, call
  <2>4. PgCall(t)'
    BY <1>0, <2>2, <2>3 DEF PgCall
  <2>5. \A u \in Threads \ {t} : Untouched(u)
    BY <1>0, <2>2, <2>3 DEF Untouched
  <2>6. QED
    BY <1>c, <1>d, <2>2, <2>3, <2>4, <2>5
<1>8. CASE PgStep(t) /\ DropMaintenance(t)
  <2>1. PICK h \in Handles :
          /\ Fresh(h, Maintenance) /\ via' = [via EXCEPT ![t] = h]
          /\ conn' = Keep([conn EXCEPT ![h] = "up"], Referenced(cache, via'))
    BY <1>8 DEF DropMaintenance
  <2>2. /\ pc[t] = "maintenance" /\ pc' = [pc EXCEPT ![t] = "terminate"] /\ Maintenance \in exists
        /\ UNCHANGED <<name, newName, connectedDb, info, exists>>
    BY <1>8 DEF DropMaintenance, Goto, call
  <2>3. h.db = Maintenance
    BY <2>1 DEF Fresh
  <2>4. PgCall(t)'
    BY <1>0, <2>1, <2>2, <2>3 DEF PgCall
  <2>5. \A u \in Threads \ {t} : Untouched(u)
    BY <1>0, <2>1, <2>2 DEF Untouched
  <2>6. PICK c \in [Handles -> Sessions] : c = [conn EXCEPT ![h] = "up"]
    BY <1>0 DEF Sessions
  <2>7. \A g \in Handles : conn'[g] = c[g] \/ conn'[g] = "none"
    <3>1. conn' = Keep(c, Referenced(cache, via'))
      BY <2>1, <2>6
    <3>2. QED
      BY <3>1, KeepFacts
  <2>8. Live'
    BY <1>0, <1>00, <2>2, <2>3, <2>6, <2>7 DEF Live
  <2>9. QED
    BY <1>c, <2>2, <2>4, <2>5, <2>8
<1>9. CASE PgStep(t) /\ Terminate(t)
  <2>1. /\ pc[t] = "terminate" /\ pc' = [pc EXCEPT ![t] = "drop"]
        /\ UNCHANGED <<name, newName, connectedDb, via, info, exists>>
    BY <1>9 DEF Terminate, Goto, call
  <2>2. PgCall(t)'
    <3>1. pc'[t] = "drop" /\ (crossed => crossed')
      BY <1>0, <1>00, <2>1
    <3>2. connectedDb[t] => via[t].db = Maintenance
      BY <1>0, <2>1 DEF PgCall
    <3>3. info # Maintenance => (connectedDb[t] <=> name[t] = info)
      BY <1>0, <2>1 DEF PgCall
    <3>4. ~connectedDb[t] =>
            /\ info # Maintenance => via[t].db = info
            /\ info = Maintenance /\ name[t] = Maintenance => via[t].db = Maintenance \/ crossed
      BY <1>0, <2>1 DEF PgCall
    <3>5. QED
      BY <2>1, <3>1, <3>2, <3>3, <3>4, Zenon DEF PgCall
  <2>3. \A u \in Threads \ {t} : Untouched(u)
    BY <1>0, <2>1 DEF Untouched
  <2>4. via[t] \in Handles
    BY <1>0, <2>1 DEF StageOf, Using
  <2>5. PICK c \in EnsureConn(via[t]) :
          conn' = [h \in Handles |-> IF c[via[t]] = "up" /\ h \in Others(c, name[t], via[t])
                                     THEN "dead" ELSE c[h]]
    BY <1>9 DEF Terminate
  <2>6. \A g \in Handles : conn'[g] = c[g] \/ conn'[g] # "up"
    BY <2>5
  <2>7. Live'
    BY <1>e, <2>1, <2>4, <2>6
  <2>8. QED
    BY <1>c, <2>1, <2>2, <2>3, <2>7
<1>10. ASSUME NEW c \in EnsureConn(via[t]), MayAlter(c, via[t], name[t]), via[t] \in Handles,
              exists \ {name[t]} \subseteq exists',
              \A g \in Handles : conn'[g] = c[g] \/ conn'[g] = "none"
       PROVE  Live' /\ via[t].db \in exists' /\ via[t].db # name[t]
  <2>1. \A g \in Handles : c[g] = "up" => g.db \in exists
    BY <1>0, <1>00, <1>10, EnsureConnLive
  <2>2. \A g \in Handles : c[g] = "up" => g.db # name[t]
    BY <1>10 DEF MayAlter, Others
  <2>3. QED
    BY <1>10, <2>1, <2>2 DEF MayAlter, Live
<1>11. ASSUME info' = info, exists \ {name[t]} \subseteq exists', pc[t] # "dropped", name[t] # info,
              \A u \in Threads \ {t} : Untouched(u)
       PROVE  Fine'
  BY <1>00, <1>11 DEF Settled, Untouched
<1>12. CASE PgStep(t) /\ DropSucceeds(t)
  <2>1. pc[t] = "drop" /\ exists' = exists \ {name[t]} /\ info' = info
    BY <1>12 DEF DropSucceeds
  <2>2. via[t] \in Handles
    BY <1>0, <1>12, <2>1 DEF PgStep, StageOf
  <2>3. Maintenance \in exists => Maintenance \in exists' \/ Altering(t, Maintenance)
    BY <2>1 DEF Altering, Dropping
  <2>4. CASE connectedDb[t]
    <3>1. PICK c \in EnsureConn(via[t]) :
            /\ MayAlter(c, via[t], name[t]) /\ conn' = c /\ pc' = [pc EXCEPT ![t] = "dropped"]
            /\ UNCHANGED <<name, newName, connectedDb, via>>
      BY <1>12, <2>4 DEF DropSucceeds, Goto, call
    <3>2. Live' /\ via[t].db \in exists'
      BY <1>10, <2>1, <2>2, <3>1
    <3>3. \A u \in Threads \ {t} : Untouched(u)
      BY <1>0, <3>1 DEF Untouched
    <3>4. PgCall(t)'
      BY <1>0, <2>1, <2>4, <3>1, <3>2 DEF PgCall
    <3>5. CASE name[t] = info
      <4>1. pc'[t] = "dropped" /\ name'[t] = info'
        BY <1>0, <2>1, <3>1, <3>5
      <4>2. QED
        BY <1>a, <2>1, <2>3, <3>2, <3>3, <3>4, <4>1 DEF Settled
    <3>6. CASE name[t] # info
      BY <1>a, <1>11, <2>1, <2>3, <3>2, <3>3, <3>4, <3>6
    <3>7. QED
      BY <3>5, <3>6
  <2>5. CASE ~connectedDb[t]
    <3>1. PICK c \in EnsureConn(via[t]) : MayAlter(c, via[t], name[t]) /\ cache' = cache /\ Finish(t, c)
      BY <1>12, <2>5 DEF DropSucceeds
    <3>2. c \in [Handles -> Sessions]
      BY <1>0, <2>2, EnsureConnFacts
    <3>3. /\ pc'[t] = "idle" /\ \A u \in Threads \ {t} : Untouched(u)
          /\ \A g \in Handles : conn'[g] = c[g] \/ conn'[g] = "none"
      BY <1>0, <3>1, <3>2, FinishFacts DEF Untouched
    <3>4. Live' /\ via[t].db # name[t]
      BY <1>10, <2>1, <2>2, <3>1, <3>3
    <3>5. PgCall(t)'
      BY <3>3 DEF PgCall
    <3>6. name[t] # info \/ (info = Maintenance /\ crossed)
      BY <1>0, <2>1, <2>5, <3>4 DEF PgCall
    <3>7. Fine'
      BY <1>00, <1>11, <2>1, <3>3, <3>6
    <3>8. QED
      BY <1>a, <2>1, <2>3, <3>3, <3>4, <3>5, <3>7
  <2>6. QED
    BY <2>4, <2>5
<1>13. CASE PgStep(t) /\ Dropped(t)
  <2>1. /\ pc[t] = "dropped" /\ info' = via[t].db /\ exists' = exists
        /\ cache' = [cache EXCEPT ![via[t].db] = via[t]] /\ Finish(t, conn)
    BY <1>13 DEF Dropped
  <2>2. via[t] \in Handles /\ via[t].db = Maintenance
    BY <1>0, <1>13, <2>1 DEF PgStep, StageOf, PgCall
  <2>3. cache' \in [Names -> Handles \cup {None}]
    BY <1>0, <2>1, <2>2, HandleIsHandle
  <2>4. /\ pc'[t] = "idle" /\ \A u \in Threads \ {t} : Untouched(u)
        /\ \A g \in Handles : conn'[g] = conn[g] \/ conn'[g] = "none"
    BY <1>0, <2>1, <2>3, FinishFacts DEF Untouched
  <2>5. PgCall(t)' /\ Live'
    BY <1>f, <2>1, <2>4 DEF PgCall
  <2>6. Fine'
    BY <1>0, <1>00, <2>1, <2>2 DEF PgCall, Settled
  <2>7. QED
    BY <1>a, <2>1, <2>2, <2>4, <2>5, <2>6
<1>14. CASE PgStep(t) /\ RenameVia(t)
  <2>1. via[t] = None
    BY <1>0, <1>14 DEF RenameVia, StageOf, Without
  <2>2. via'[t].db = info /\ conn' = conn /\ \A u \in Threads : u # t => via'[u] = via[u]
    BY <1>0, <1>14, <2>1, LookupFacts DEF RenameVia
  <2>3. /\ pc[t] = "renameVia" /\ pc' = [pc EXCEPT ![t] = "rename"]
        /\ UNCHANGED <<name, newName, connectedDb, info, exists>>
    BY <1>14 DEF RenameVia, Goto, call
  <2>4. PgCall(t)'
    BY <1>0, <2>2, <2>3 DEF PgCall
  <2>5. \A u \in Threads \ {t} : Untouched(u)
    BY <1>0, <2>2, <2>3 DEF Untouched
  <2>6. QED
    BY <1>c, <1>d, <2>2, <2>3, <2>4, <2>5
<1>15. CASE PgStep(t) /\ Renamed(t)
  <2>1. pc[t] = "rename" /\ info' = info /\ cache' = cache
    BY <1>15 DEF Renamed
  <2>2. via[t] \in Handles
    BY <1>0, <1>15, <2>1 DEF PgStep, StageOf
  <2>3. PICK c \in EnsureConn(via[t]) :
          /\ \/ exists' = exists
             \/ /\ MayAlter(c, via[t], name[t])
                /\ exists' = (exists \ {name[t]}) \cup ({newName[t]} \cap Names)
          /\ Finish(t, c)
    BY <1>15 DEF Renamed
  <2>4. CASE exists' = exists
    BY <1>3, <2>1, <2>2, <2>3, <2>4
  <2>5. CASE exists' # exists
    <3>1. MayAlter(c, via[t], name[t]) /\ exists \ {name[t]} \subseteq exists'
      BY <2>3, <2>5
    <3>2. c \in [Handles -> Sessions]
      BY <1>0, <2>2, EnsureConnFacts
    <3>3. /\ pc'[t] = "idle" /\ \A u \in Threads \ {t} : Untouched(u)
          /\ \A g \in Handles : conn'[g] = c[g] \/ conn'[g] = "none"
      BY <1>0, <2>1, <2>3, <3>2, FinishFacts DEF Untouched
    <3>4. Live' /\ via[t].db # name[t]
      BY <1>10, <2>2, <3>1, <3>3
    <3>5. PgCall(t)'
      BY <3>3 DEF PgCall
    <3>6. name[t] # info \/ (info = Maintenance /\ crossed)
      BY <1>0, <2>1, <3>4 DEF PgCall
    <3>7. Fine'
      BY <1>00, <1>11, <2>1, <3>1, <3>3, <3>6
    <3>8. Maintenance \in exists => Maintenance \in exists' \/ Altering(t, Maintenance)
      BY <2>1, <3>1 DEF Altering
    <3>9. QED
      BY <1>a, <2>1, <3>3, <3>4, <3>5, <3>7, <3>8
  <2>6. QED
    BY <2>4, <2>5
<1>16. ASSUME NEW n \in Names, Drop(t, n) PROVE PgDefault'
  <2>1. /\ pc[t] = "idle" /\ pc' = [pc EXCEPT ![t] = "erase"] /\ name' = [name EXCEPT ![t] = n]
        /\ connectedDb' = [connectedDb EXCEPT ![t] = (n = info)]
        /\ UNCHANGED <<newName, via, info, conn, exists>>
    BY <1>16 DEF Drop, Goto
  <2>2. connectedDb'[t] = (n = info) /\ name'[t] = n /\ info' = info /\ pc'[t] = "erase"
    BY <1>0, <2>1
  <2>3. connectedDb'[t] <=> name'[t] = info'
    BY <2>2
  <2>4. PgCall(t)'
    BY <2>2, <2>3 DEF PgCall
  <2>5. \A u \in Threads \ {t} : Untouched(u)
    BY <1>0, <2>1 DEF Untouched
  <2>6. QED
    BY <1>c, <1>d, <2>1, <2>4, <2>5
<1>17. ASSUME NEW n \in Names, NEW m \in Names \cup {None}, Rename(t, n, m) PROVE PgDefault'
  <2>1. /\ pc[t] = "idle" /\ pc' = [pc EXCEPT ![t] = "renameErase"]
        /\ name' = [name EXCEPT ![t] = n] /\ newName' = [newName EXCEPT ![t] = m]
        /\ UNCHANGED <<connectedDb, via, info, conn, exists>>
    BY <1>17 DEF Rename, Goto
  <2>2. PgCall(t)'
    BY <1>0, <2>1 DEF PgCall
  <2>3. \A u \in Threads \ {t} : Untouched(u)
    BY <1>0, <2>1 DEF Untouched
  <2>4. QED
    BY <1>c, <1>d, <2>1, <2>2, <2>3
<1>18. QED
  BY <1>1, <1>4, <1>5, <1>6, <1>7, <1>8, <1>9, <1>12, <1>13, <1>14, <1>15, <1>16, <1>17 DEF PgStep

\* MySQL, any number of threads: the default only ever moves to "no schema".
LEMMA MySqlDefaultStep ==
  ASSUME Shape, MySqlDefault, engine = "mysql", NEW t \in Threads,
         CallStep(t) \/ HandleStep(t) \/ MySqlStep(t)
  PROVE  MySqlDefault'
<1>0. /\ TypeOK /\ Keyed /\ Unreferenced /\ StageOf(t) /\ info \in Names /\ Maintenance \in exists
      /\ Settled
      /\ pc \in [Threads -> Stages] /\ name \in [Threads -> Names \cup {None}]
      /\ connectedDb \in [Threads -> BOOLEAN]
      /\ via \in [Threads -> Handles \cup {None}]
      /\ \A u \in Threads : MySqlCall(u)
  BY DEF Shape, Types, TypeOK, MySqlDefault
<1>1. ASSUME MySqlCall(t)', \A u \in Threads \ {t} : Untouched(u),
             info' = info \/ info' = Maintenance, Maintenance \in exists',
             Settled'
      PROVE  MySqlDefault'
  <2>1. ASSUME NEW u \in Threads PROVE MySqlCall(u)'
    <3>1. CASE u = t
      BY <1>1, <3>1
    <3>2. CASE u # t
      BY <1>0, <1>1, <3>2 DEF Untouched, MySqlCall
    <3>3. QED
      BY <3>1, <3>2
  <2>2. QED
    BY <1>1, <2>1 DEF MySqlDefault
<1>2. CASE CallStep(t) \/ HandleStep(t)
  <2>1. /\ info' = info /\ exists' = exists
        /\ pc[t] \in Quiet /\ pc'[t] \in Quiet
        /\ \A u \in Threads \ {t} : Untouched(u)
    BY <1>2, QuietSteps
  <2>2. Settled'
    BY <1>0, <2>1 DEF Quiet, Untouched, Settled
  <2>3. MySqlCall(t)'
    BY <2>1 DEF Quiet, MySqlCall
  <2>4. QED
    BY <1>0, <1>1, <2>1, <2>2, <2>3
<1>3. CASE MySqlCreated(t) \/ MySqlDropFails(t)
  <2>1. Ends(t)
    BY <1>3, EndingSteps
  <2>2. pc'[t] = "idle" /\ \A u \in Threads \ {t} : Untouched(u)
    BY <1>0, <2>1, EndsFacts
  <2>3. pc[t] # "dropped" /\ info' = info /\ exists \subseteq exists'
    BY <1>3 DEF MySqlCreated, MySqlDropFails
  <2>4. Settled'
    BY <1>0, <2>2, <2>3 DEF Untouched, Settled
  <2>5. MySqlCall(t)'
    BY <2>2 DEF MySqlCall
  <2>6. QED
    BY <1>0, <1>1, <2>2, <2>3, <2>4, <2>5
<1>4. CASE MySqlDropped(t)
  <2>1. Ends(t)
    BY <1>4, EndingSteps
  <2>2. pc'[t] = "idle" /\ \A u \in Threads \ {t} : Untouched(u)
    BY <1>0, <2>1, EndsFacts
  <2>3. info' = Maintenance /\ exists' = exists
    BY <1>4 DEF MySqlDropped
  <2>4. MySqlCall(t)'
    BY <2>2 DEF MySqlCall
  <2>5. QED
    BY <1>0, <1>1, <2>2, <2>3, <2>4 DEF Settled
<1>5. CASE MySqlDrop(t)
  <2>1. PICK n \in Names :
          /\ pc[t] = "idle"
          /\ name' = [name EXCEPT ![t] = n]
          /\ connectedDb' = [connectedDb EXCEPT ![t] = (n = info)]
          /\ pc' = [pc EXCEPT ![t] = IF n = info THEN "drop" ELSE "via"]
          /\ UNCHANGED <<newName, via, info, exists>>
    BY <1>5 DEF MySqlDrop, Goto
  <2>2. /\ \A u \in Threads \ {t} : Untouched(u)
        /\ connectedDb'[t] = (n = info) /\ name'[t] = n
    BY <1>0, <2>1 DEF Untouched
  <2>3. connectedDb'[t] <=> n = info
    BY <2>2
  <2>4. MySqlCall(t)'
    <3>1. via'[t] = None
      BY <1>0, <2>1 DEF StageOf, Without
    <3>2. (pc'[t] = "drop" => n = info) /\ (pc'[t] = "via" => n # info)
      BY <1>0, <2>1
    <3>3. QED
      BY <2>1, <2>2, <2>3, <3>1, <3>2 DEF MySqlCall
  <2>5. Settled'
    BY <1>0, <2>1, <2>2 DEF Untouched, Settled
  <2>6. QED
    BY <1>0, <1>1, <2>1, <2>2, <2>4, <2>5
<1>6. CASE MySqlDropVia(t)
  <2>1. /\ pc[t] = "via" /\ pc' = [pc EXCEPT ![t] = "drop"]
        /\ UNCHANGED <<name, newName, connectedDb, info, exists>> /\ Lookup(t, info)
    BY <1>6 DEF MySqlDropVia, Goto, call
  <2>2. via[t] = None
    BY <1>0, <2>1 DEF StageOf, Without
  <2>3. \A u \in Threads \ {t} : Untouched(u)
    BY <1>0, <2>1, <2>2, LookupFacts DEF Untouched
  <2>4. MySqlCall(t)'
    <3>1. via'[t].db = info
      BY <1>0, <2>1, <2>2, LookupFacts
    <3>2. ~connectedDb[t]
      BY <1>0, <2>1 DEF MySqlCall
    <3>3. QED
      BY <1>0, <2>1, <3>1, <3>2 DEF MySqlCall
  <2>5. Settled'
    BY <1>0, <2>1, <2>3 DEF Untouched, Settled
  <2>6. QED
    BY <1>0, <1>1, <2>1, <2>3, <2>4, <2>5
<1>7. CASE MySqlDropRuns(t) /\ connectedDb[t]
  <2>1. /\ pc[t] = "drop" /\ pc' = [pc EXCEPT ![t] = "dropped"]
        /\ UNCHANGED <<name, newName, connectedDb, via, info>> /\ name[t] # Maintenance
        /\ exists' = exists \ {name[t]}
    BY <1>7 DEF MySqlDropRuns, Goto, call, Droppable
  <2>2. \A u \in Threads \ {t} : Untouched(u)
    BY <1>0, <2>1 DEF Untouched
  <2>3. MySqlCall(t)' /\ pc'[t] = "dropped" /\ name'[t] = name[t]
    BY <1>0, <2>1 DEF MySqlCall
  <2>4. Settled'
    BY <1>0, <2>1, <2>2, <2>3 DEF Settled, Untouched
  <2>5. QED
    BY <1>0, <1>1, <2>1, <2>2, <2>3, <2>4
<1>8. CASE MySqlDropRuns(t) /\ ~connectedDb[t]
  <2>1. Ends(t)
    BY <1>8, EndingSteps
  <2>2. pc'[t] = "idle" /\ \A u \in Threads \ {t} : Untouched(u)
    BY <1>0, <2>1, EndsFacts
  <2>3. /\ pc[t] = "drop" /\ info' = info /\ name[t] # Maintenance
        /\ exists' = exists \ {name[t]}
    BY <1>8 DEF MySqlDropRuns, Droppable
  <2>4. name[t] # info
    BY <1>0, <1>8, <2>3 DEF MySqlCall
  <2>5. Settled'
    BY <1>0, <2>2, <2>3, <2>4 DEF Untouched, Settled
  <2>6. MySqlCall(t)'
    BY <2>2 DEF MySqlCall
  <2>7. QED
    BY <1>0, <1>1, <2>2, <2>3, <2>5, <2>6
<1>9. QED
  BY <1>2, <1>3, <1>4, <1>5, <1>6, <1>7, <1>8 DEF MySqlStep

\* SQL Server, any number of threads: the thread that dropped the default moves it;
\* the one that renamed it does not.
LEMMA MssqlDefaultStep ==
  ASSUME Shape, MssqlDefault, engine = "mssql", Noted, NEW t \in Threads,
         CallStep(t) \/ HandleStep(t) \/ MssqlStep(t)
  PROVE  MssqlDefault'
<1> DEFINE Fine == Settled \/ info \in renamed
<1>0. /\ TypeOK /\ info \in Names /\ Maintenance \in exists /\ Fine /\ renamed \subseteq renamed'
      /\ pc \in [Threads -> Stages] /\ name \in [Threads -> Names \cup {None}]
      /\ newName \in [Threads -> Names \cup {None}]
  BY DEF Shape, Types, TypeOK, MssqlDefault, Noted
<1>1. ASSUME Maintenance \in exists', Fine'
      PROVE  MssqlDefault'
  BY <1>1 DEF MssqlDefault
<1>2. CASE CallStep(t) \/ HandleStep(t)
  <2>1. /\ info' = info /\ exists' = exists
        /\ pc[t] \in Quiet /\ pc'[t] \in Quiet
        /\ \A u \in Threads \ {t} : Untouched(u)
    BY <1>2, QuietSteps
  <2>2. Fine'
    BY <1>0, <2>1 DEF Quiet, Untouched, Settled
  <2>3. QED
    BY <1>0, <1>1, <2>1, <2>2
<1>3. CASE MssqlCreate(t)
  <2>1. /\ UNCHANGED <<pc, name, newName, connectedDb, via, info>> /\ exists \subseteq exists'
    BY <1>3 DEF MssqlCreate, call
  <2>2. Fine' /\ \A u \in Threads \ {t} : Untouched(u)
    BY <1>0, <2>1 DEF Untouched, Settled
  <2>3. QED
    BY <1>0, <1>1, <2>1, <2>2
<1>4. ASSUME NEW n \in Names, NEW p \in {"drop", "rename"}, MssqlForget(t, n, p),
             \A u \in Threads \ {t} : newName'[u] = newName[u]
      PROVE  MssqlDefault'
  <2>1. /\ pc[t] = "idle" /\ pc' = [pc EXCEPT ![t] = p] /\ name' = [name EXCEPT ![t] = n]
        /\ UNCHANGED <<connectedDb, via, info, exists>>
    BY <1>4 DEF MssqlForget, Goto
  <2>2. \A u \in Threads \ {t} : Untouched(u)
    BY <1>0, <1>4, <2>1 DEF Untouched, Settled
  <2>3. Fine'
    BY <1>0, <2>1, <2>2 DEF Untouched, Settled
  <2>4. QED
    BY <1>0, <1>1, <2>1, <2>3
<1>5. CASE MssqlDrop(t)
  BY <1>4, <1>5 DEF MssqlDrop
<1>6. CASE MssqlRename(t)
  <2>1. PICK n \in Names, m \in Droppable \cup {None} :
          MssqlForget(t, n, "rename") /\ newName' = [newName EXCEPT ![t] = m]
    BY <1>6 DEF MssqlRename
  <2>2. \A u \in Threads \ {t} : newName'[u] = newName[u]
    BY <1>0, <2>1
  <2>3. QED
    BY <1>4, <2>1, <2>2
<1>7. CASE execOnMaster(t)
  <2>1. /\ pc[t] = "drop" /\ pc' = [pc EXCEPT ![t] = "dropped"]
        /\ UNCHANGED <<name, newName, connectedDb, via, info>> /\ name[t] # Maintenance
        /\ exists \ {name[t]} \subseteq exists'
    BY <1>7 DEF execOnMaster, Goto, call, Droppable
  <2>2. \A u \in Threads \ {t} : Untouched(u)
    BY <1>0, <2>1 DEF Untouched, Settled
  <2>3. Fine'
    <3>1. pc'[t] = "dropped" /\ name'[t] = name[t]
      BY <1>0, <2>1
    <3>2. QED
      BY <1>0, <2>1, <2>2, <3>1 DEF Settled, Untouched
  <2>4. QED
    BY <1>0, <1>1, <2>1, <2>2, <2>3
<1>8. CASE MssqlBatchFails(t) \/ MssqlDropped(t) \/ MssqlRenamed(t)
  <2>1. Ends(t)
    BY <1>8, EndingSteps
  <2>2. pc'[t] = "idle" /\ \A u \in Threads \ {t} : Untouched(u)
    BY <1>0, <2>1, EndsFacts
  <2>3. CASE MssqlBatchFails(t)
    <3>1. pc[t] # "dropped" /\ UNCHANGED <<info, exists>>
      BY <2>3 DEF MssqlBatchFails
    <3>2. Fine'
      BY <1>0, <2>2, <3>1 DEF Untouched, Settled
    <3>3. QED
      BY <1>0, <1>1, <3>1, <3>2
  <2>4. CASE MssqlDropped(t)
    <3>1. pc[t] = "dropped" /\ info' = (IF name[t] = info THEN Maintenance ELSE info) /\ exists' = exists
      BY <2>4 DEF MssqlDropped
    <3>2. Fine'
      BY <1>0, <2>2, <3>1 DEF Untouched, Settled
    <3>3. QED
      BY <1>0, <1>1, <3>1, <3>2
  <2>5. CASE MssqlRenamed(t)
    <3>1. /\ pc[t] = "rename" /\ exists \ {name[t]} \subseteq exists' /\ info' = info
          /\ name[t] # Maintenance /\ name[t] \in renamed'
      BY <2>5 DEF MssqlRenamed, Droppable
    <3>2. Fine'
      BY <1>0, <2>2, <3>1 DEF Untouched, Settled
    <3>3. QED
      BY <1>0, <1>1, <3>1, <3>2
  <2>6. QED
    BY <1>8, <2>3, <2>4, <2>5
<1>9. QED
  BY <1>2, <1>3, <1>5, <1>6, <1>7, <1>8 DEF MssqlStep

\* Oracle, any number of threads: the default never moves, and its user is the one
\* the server does not drop.
LEMMA OracleDefaultStep ==
  ASSUME Shape, OracleDefault, engine = "oracle", NEW t \in Threads,
         CallStep(t) \/ HandleStep(t) \/ OracleStep(t)
  PROVE  OracleDefault'
<1>0. info = InfoDatabase /\ info \in exists
  BY DEF OracleDefault
<1>1. CASE CallStep(t) \/ HandleStep(t)
  BY <1>0, <1>1, QuietSteps DEF OracleDefault
<1>2. CASE OracleStep(t)
  BY <1>0, <1>2 DEF OracleStep, OracleDefault, OracleCloseCache, OracleClose, OracleOpen,
     OracleCreate, OracleDrop, OracleDropRuns, OracleDropFails, MssqlForget
<1>3. QED
  BY <1>1, <1>2

\* The default database and the calls that may move it stay in step.
LEMMA DefaultInvCorrect == ServersSpec => []DefaultInv
<1>1. ServersInit => DefaultInv
  <2> SUFFICES ASSUME ServersInit PROVE DefaultInv
    OBVIOUS
  <2>1. /\ pc = [t \in Threads |-> "idle"] /\ info = InfoDatabase /\ exists = Names
        /\ InfoDatabase \in Names /\ Maintenance \in Names
    BY ConnectionAssumption DEF ServersInit, Init
  <2>2. \A t \in Threads : PgCall(t) /\ MySqlCall(t)
    BY <2>1 DEF PgCall, MySqlCall
  <2>3. Live
    BY DEF ServersInit, Init, Live
  <2>4. QED
    BY <2>1, <2>2, <2>3 DEF DefaultInv, PgDefault, MySqlDefault, MssqlDefault, OracleDefault, Settled
<1>2. Shape /\ DefaultInv /\ [ServersNext]_serverVars => DefaultInv'
  <2> SUFFICES ASSUME Shape, DefaultInv, [ServersNext]_serverVars PROVE DefaultInv'
    OBVIOUS
  <2>1. CASE UNCHANGED serverVars
    <3>1. /\ UNCHANGED <<pc, name, newName, connectedDb, via, cache, info, open, conn, exists>>
          /\ UNCHANGED <<engine, renamed, crossed>>
      BY <2>1 DEF serverVars, vars
    <3>2. PgDefault'
      BY <3>1 DEF DefaultInv, PgDefault, PgCall, Live, Settled
    <3>3. MySqlDefault' /\ MssqlDefault' /\ OracleDefault'
      BY <3>1 DEF DefaultInv, MySqlDefault, MySqlCall, MssqlDefault, OracleDefault, Settled
    <3>4. QED
      BY <3>2, <3>3 DEF DefaultInv
  <2>2. CASE ServersNext
    <3>1. engine' = engine /\ Noted
      BY <2>2, StepCases DEF Noted
    <3>2. PICK t \in Threads : AnyStep(t)
      BY <2>2, StepCases
    <3>3. CASE engine = "postgres"
      <4>1. CallStep(t) \/ HandleStep(t) \/ PgStep(t)
        BY <3>2, <3>3 DEF AnyStep, MySqlStep, MssqlStep, OracleStep
      <4>2. PgDefault'
        BY <3>1, <3>3, <4>1, PgDefaultStep DEF DefaultInv
      <4>3. QED
        BY <3>1, <3>3, <4>2 DEF DefaultInv, MySqlDefault, MssqlDefault, OracleDefault
    <3>4. CASE engine = "mysql"
      <4>1. CallStep(t) \/ HandleStep(t) \/ MySqlStep(t)
        BY <3>2, <3>4 DEF AnyStep, PgStep, MssqlStep, OracleStep
      <4>2. MySqlDefault'
        BY <3>4, <4>1, MySqlDefaultStep DEF DefaultInv
      <4>3. QED
        BY <3>1, <3>4, <4>2 DEF DefaultInv, PgDefault, MssqlDefault, OracleDefault
    <3>5. CASE engine = "mssql"
      <4>1. CallStep(t) \/ HandleStep(t) \/ MssqlStep(t)
        BY <3>2, <3>5 DEF AnyStep, PgStep, MySqlStep, OracleStep
      <4>2. MssqlDefault'
        BY <3>1, <3>5, <4>1, MssqlDefaultStep DEF DefaultInv
      <4>3. QED
        BY <3>1, <3>5, <4>2 DEF DefaultInv, PgDefault, MySqlDefault, OracleDefault
    <3>6. CASE engine = "oracle"
      <4>1. CallStep(t) \/ HandleStep(t) \/ OracleStep(t)
        BY <3>2, <3>6 DEF AnyStep, PgStep, MySqlStep, MssqlStep
      <4>2. OracleDefault'
        BY <3>6, <4>1, OracleDefaultStep DEF DefaultInv
      <4>3. QED
        BY <3>1, <3>6, <4>2 DEF DefaultInv, PgDefault, MySqlDefault, MssqlDefault
    <3>7. QED
      BY <3>3, <3>4, <3>5, <3>6 DEF Shape, Types, Engines
  <2>3. QED
    BY <2>1, <2>2
<1>3. QED
  BY <1>1, <1>2, ShapeCorrect, PTL DEF ServersSpec

\* The default database exists, its own drop is about to move it, or one of the two
\* things has happened that no later call repairs: for any number of threads that make
\* any calls, any databases, and each backend.
THEOREM DefaultCorrect == ServersSpec => []DefaultDatabaseExists
<1>1. Shape /\ DefaultInv => DefaultDatabaseExists
  BY DEF Shape, Types, Engines, DefaultInv, PgDefault, MySqlDefault, MssqlDefault, OracleDefault,
     DefaultDatabaseExists, Settled
<1>2. QED
  BY <1>1, ShapeCorrect, DefaultInvCorrect, PTL

----------------------------------------------------------------------------
(* The cached handles *)

\* A step of t connects no handle but its own or a new one, and what it puts into the
\* cache is the handle it works on.
Gentle(t) ==
    /\ \A m \in Names : \/ cache'[m] = cache[m]
                        \/ cache'[m] = None
                        \/ via'[t] # None /\ via'[t].db = m
                        \/ via[t] # None /\ via[t].db = m
    /\ \A h \in Handles : conn[h] = "none" /\ conn'[h] # "none" =>
                              h = via[t] \/ h \notin Referenced(cache, via)

\* Such a step leaves the cache as u's drop needs it, or is one that raced records.
LEMMA EvictedOther ==
  ASSUME Shape, NEW t \in Threads, NEW u \in Threads \ {t}, Evicted(u), Untouched(u), Gentle(t),
         raced' = raced \cup Racing
  PROVE  Evicted(u)'
<1> DEFINE n == name[u]
<1>0. /\ Keyed /\ StageOf(u) /\ cache \in [Names -> Handles \cup {None}]
      /\ via \in [Threads -> Handles \cup {None}]
  BY DEF Shape, Types, TypeOK
<1>1. SUFFICES ASSUME Dropping(u, n), n \notin raced \cup Racing, n \notin Racing', cache'[n] # None,
                      Dropping(u, n)'
               PROVE  \/ conn'[cache'[n]] = "none"
                      \/ pc[u] \in {"terminate", "drop"} /\ cache'[n] = via[u]
  BY DEF Evicted, Untouched, Dropping
<1>2. n \in Names /\ n \notin raced /\ n \notin Racing
  BY <1>0, <1>1 DEF StageOf, Naming, Dropping
<1>3. ~(via[t] # None /\ via[t].db = n)
  BY <1>1, <1>2 DEF Racing
<1>4. ~(via'[t] # None /\ via'[t].db = n)
  <2>1. name'[u] = name[u] /\ pc'[u] = pc[u]
    BY DEF Untouched
  <2>2. name'[u] = name[u] /\ pc'[u] \in {"via", "maintenance", "terminate", "drop"}
    BY <1>1, <2>1 DEF Dropping
  <2>3. QED
    BY <1>1, <1>2, <2>2 DEF Racing, Dropping
<1>5. cache'[n] = cache[n] /\ cache[n] # None
  BY <1>1, <1>2, <1>3, <1>4 DEF Gentle
<1>6. cache[n] \in Handles /\ cache[n] # via[t] /\ cache[n] \in Referenced(cache, via)
  BY <1>0, <1>2, <1>3, <1>5 DEF Keyed, Referenced
<1>7. conn[cache[n]] = "none" => conn'[cache[n]] = "none"
  BY <1>6 DEF Gentle
<1>8. QED
  BY <1>1, <1>2, <1>5, <1>7 DEF Evicted

\* What is left to show for a step of t.
LEMMA UsableStep ==
  ASSUME Shape, UsableInv, Noted, NEW t \in Threads, Gentle(t), Dead',
         \A u \in Threads \ {t} : Untouched(u), Evicted(t)'
  PROVE  UsableInv'
<1>1. raced' = raced \cup Racing /\ engine' = engine
  BY DEF Noted
<1>2. ASSUME engine \in {"postgres", "mysql"}, NEW u \in Threads PROVE Evicted(u)'
  <2>1. CASE u = t
    BY <2>1
  <2>2. CASE u # t
    BY <1>1, <1>2, <2>2, EvictedOther DEF UsableInv
  <2>3. QED
    BY <2>1, <2>2
<1>3. QED
  BY <1>1, <1>2 DEF UsableInv

\* A step after which t is not dropping, and that ends no session.
LEMMA UsableCalm ==
  ASSUME Shape, UsableInv, Noted, NEW t \in Threads, Gentle(t),
         \A h \in Handles : conn'[h] = "dead" => conn[h] = "dead",
         \A u \in Threads \ {t} : Untouched(u),
         pc'[t] \notin {"via", "maintenance", "terminate", "drop"}
  PROVE  UsableInv'
<1>1. Evicted(t)'
  BY DEF Evicted, Dropping
<1>2. Dead'
  BY DEF Noted, UsableInv, Dead
<1>3. QED
  BY <1>1, <1>2, UsableStep

\* The end of a call, with the session that ensureConn may have opened.
LEMMA UsableFinish ==
  ASSUME Shape, UsableInv, Noted, NEW t \in Threads,
         NEW c, c = conn \/ (via[t] \in Handles /\ c \in EnsureConn(via[t])),
         cache' = cache, Finish(t, c)
  PROVE  UsableInv'
<1>0. TypeOK /\ conn \in [Handles -> Sessions] /\ cache \in [Names -> Handles \cup {None}]
  BY DEF Shape, Types, TypeOK, Sessions
<1>1. /\ c \in [Handles -> Sessions]
      /\ \A h \in Handles : h # via[t] => c[h] = conn[h]
      /\ \A h \in Handles : c[h] = "dead" => conn[h] = "dead"
  <2>1. CASE c = conn
    BY <1>0, <2>1
  <2>2. CASE via[t] \in Handles /\ c \in EnsureConn(via[t])
    BY <1>0, <2>2, EnsureConnFacts
  <2>3. QED
    BY <2>1, <2>2
<1>2. /\ pc'[t] = "idle" /\ \A u \in Threads \ {t} : Untouched(u)
      /\ \A h \in Handles : conn'[h] = c[h] \/ conn'[h] = "none"
  BY <1>0, <1>1, FinishFacts DEF Untouched
<1>3. Gentle(t)
  BY <1>1, <1>2 DEF Gentle
<1>4. QED
  BY <1>1, <1>2, <1>3, UsableCalm

\* A lookup: database(), open(), createDatabase(), and the ones inside a drop or a rename.
LEMMA UsableLookup ==
  ASSUME Shape, UsableInv, Noted, NEW t \in Threads, NEW n \in Names, via[t] = None, Lookup(t, n),
         pc[t] # "via" => pc'[t] \notin {"via", "maintenance", "terminate", "drop"},
         pc[t] = "via" => name'[t] = name[t],
         \A u \in Threads \ {t} : pc'[u] = pc[u] /\ name'[u] = name[u] /\ newName'[u] = newName[u]
                                  /\ connectedDb'[u] = connectedDb[u],
         engine \in {"postgres", "mysql"} \/ pc[t] # "via"
  PROVE  UsableInv'
<1>0. /\ TypeOK /\ Keyed /\ Unreferenced /\ StageOf(t)
      /\ cache \in [Names -> Handles \cup {None}]
  BY DEF Shape, Types, TypeOK
<1>1. /\ conn' = conn /\ via'[t] \in Handles /\ via'[t].db = n /\ cache'[n] = via'[t]
      /\ \A u \in Threads : u # t => via'[u] = via[u]
      /\ \A m \in Names : m # n => cache'[m] = cache[m]
      /\ cache[n] # None => cache'[n] = cache[n]
      /\ cache[n] = None => conn[via'[t]] = "none"
  BY <1>0, LookupFacts
<1>2. Gentle(t)
  BY <1>1, HandleIsHandle DEF Gentle
<1>3. \A u \in Threads \ {t} : Untouched(u)
  BY <1>1 DEF Untouched
<1>4. CASE pc[t] # "via"
  BY <1>1, <1>2, <1>3, <1>4, UsableCalm
<1>5. CASE pc[t] = "via"
  <2>1. Evicted(t)'
    <3>1. SUFFICES ASSUME name[t] \notin raced \cup Racing, cache'[name[t]] # None
                   PROVE  conn'[cache'[name[t]]] = "none"
      BY <1>5 DEF Evicted, Noted
    <3>2. name[t] \in Names
      BY <1>0, <1>5 DEF StageOf, Naming
    <3>3. cache[name[t]] # None => conn[cache[name[t]]] = "none"
      BY <1>5, <3>1 DEF UsableInv, Evicted, Dropping
    <3>4. QED
      BY <1>1, <3>1, <3>2, <3>3
  <2>2. Dead'
    BY <1>1 DEF Noted, UsableInv, Dead
  <2>3. QED
    BY <1>2, <1>3, <2>1, <2>2, UsableStep
<1>6. QED
  BY <1>4, <1>5

\* Cached handles are forgotten, among them the one of the database t is dropping.
LEMMA UsableForget ==
  ASSUME Shape, UsableInv, Noted, NEW t \in Threads, cache' \in [Names -> Handles \cup {None}],
         \A n \in Names : cache'[n] = cache[n] \/ cache'[n] = None,
         via' = via, conn' = Keep(conn, Referenced(cache', via)),
         \A u \in Threads \ {t} : Untouched(u),
         \/ pc'[t] \notin {"via", "maintenance", "terminate", "drop"}
         \/ cache'[name'[t]] = None
  PROVE  UsableInv'
<1>0. TypeOK /\ Keyed
  BY DEF Shape, Types
<1>1. \A h \in Handles : conn'[h] = conn[h] \/ conn'[h] = "none"
  BY <1>0, ForgetFacts
<1>2. Gentle(t)
  BY <1>1 DEF Gentle
<1>3. Evicted(t)'
  BY DEF Evicted, Dropping
<1>4. Dead'
  BY <1>1 DEF Noted, UsableInv, Dead
<1>5. QED
  BY <1>2, <1>3, <1>4, UsableStep

\* The calls on handles.
LEMMA UsableCalls ==
  ASSUME Shape, UsableInv, Noted, NEW t \in Threads, CallStep(t) \/ HandleStep(t)
  PROVE  UsableInv'
<1>0. /\ TypeOK /\ Keyed /\ Unreferenced /\ StageOf(t) /\ info \in Names
      /\ cache \in [Names -> Handles \cup {None}] /\ via \in [Threads -> Handles \cup {None}]
      /\ conn \in [Handles -> Sessions] /\ pc \in [Threads -> Stages]
  BY DEF Shape, Types, TypeOK, Sessions
<1>1. /\ pc[t] \in Quiet /\ pc'[t] \in Quiet /\ \A u \in Threads \ {t} : Untouched(u)
  BY QuietSteps
<1>2. CASE Query(t) \/ Opened(t)
  <2>1. via[t] \in Handles
    BY <1>0, <1>2 DEF Query, Opened, StageOf, Using
  <2>2. PICK c \in EnsureConn(via[t]) : cache' = cache /\ Finish(t, c)
    BY <1>2 DEF Query, Opened
  <2>3. QED
    BY <2>1, <2>2, UsableFinish
<1>3. CASE Close(t)
  <2>1. /\ cache' = [n \in Names |-> None] /\ conn' = Keep(conn, Referenced(cache', via)) /\ via' = via
    BY <1>3 DEF Close
  <2>2. QED
    BY <1>1, <2>1, UsableForget DEF Quiet
<1>4. CASE \E n \in Names : OpenDatabase(t, n)
  <2>1. cache' = cache /\ conn' = conn
    BY <1>4 DEF OpenDatabase
  <2>2. Gentle(t)
    BY <2>1 DEF Gentle
  <2>3. QED
    BY <1>1, <2>1, <2>2, UsableCalm DEF Quiet
<1>5. ASSUME NEW n \in Names, Lookup(t, n), pc[t] = "idle" PROVE UsableInv'
  <2>1. via[t] = None
    BY <1>0, <1>5 DEF StageOf, Without
  <2>2. QED
    BY <1>1, <1>5, <2>1, UsableLookup DEF Quiet, Untouched
<1>6. CASE Open(t) \/ \E n \in Names : Database(t, n) \/ Create(t, n)
  BY <1>0, <1>5, <1>6 DEF Open, Database, Create
<1>7. QED
  BY <1>2, <1>3, <1>4, <1>6 DEF CallStep, HandleStep

\* A session with database n that t's drop ends is somebody else's, and then the two
\* race: no handle that a drop finds in the cache has one.
LEMMA DropEnds ==
  ASSUME Shape, UsableInv, Noted, engine \in {"postgres", "mysql"}, NEW t \in Threads,
         Dropping(t, name[t]), NEW h \in Handles, h.db = name[t], h # via[t], conn[h] = "up"
  PROVE  name[t] \in raced'
<1>0. Keyed /\ Unreferenced /\ StageOf(t) /\ Evicted(t) /\ raced' = raced \cup Racing
  BY DEF Shape, UsableInv, Noted
<1>1. SUFFICES ASSUME name[t] \notin raced \cup Racing PROVE FALSE
  BY <1>0
<1>2. h \in Referenced(cache, via)
  BY <1>0 DEF Unreferenced
<1>3. ASSUME NEW u \in Threads, via[u] = h PROVE FALSE
  <2>1. u # t /\ via[u] # None /\ via[u].db = name[t]
    BY <1>3, HandleIsHandle
  <2>2. name[t] \in Names
    BY HandleIsHandle
  <2>3. QED
    BY <1>1, <2>1, <2>2 DEF Racing
<1>4. ASSUME NEW n \in Names, cache[n] = h PROVE FALSE
  <2>1. n = name[t] /\ cache[n] # None
    BY <1>0, <1>4, HandleIsHandle DEF Keyed
  <2>2. QED
    BY <1>0, <1>1, <1>4, <2>1 DEF Evicted
<1>5. QED
  BY <1>2, <1>3, <1>4 DEF Referenced

\* PostgreSQL's own calls.
LEMMA UsablePg ==
  ASSUME Shape, UsableInv, Noted, NEW t \in Threads, PgStep(t)
  PROVE  UsableInv'
<1> USE HandleIsHandle
<1>0. /\ TypeOK /\ Keyed /\ Unreferenced /\ StageOf(t) /\ info \in Names /\ Evicted(t) /\ Dead
      /\ cache \in [Names -> Handles \cup {None}] /\ via \in [Threads -> Handles \cup {None}]
      /\ conn \in [Handles -> Sessions] /\ pc \in [Threads -> Stages]
      /\ name \in [Threads -> Names \cup {None}] /\ newName \in [Threads -> Names \cup {None}]
      /\ connectedDb \in [Threads -> BOOLEAN] /\ engine = "postgres"
  BY DEF Shape, Types, TypeOK, Sessions, UsableInv, PgStep
<1>1. CASE Created(t) \/ NoMaintenance(t) \/ DropFails(t) \/ Renamed(t) \/ (DropSucceeds(t) /\ ~connectedDb[t])
  <2>1. via[t] \in Handles
    BY <1>0, <1>1 DEF Created, NoMaintenance, DropFails, Renamed, DropSucceeds, StageOf, Using
  <2>2. CASE NoMaintenance(t)
    BY <2>2, UsableFinish DEF NoMaintenance
  <2>3. CASE Created(t) \/ DropFails(t) \/ Renamed(t) \/ (DropSucceeds(t) /\ ~connectedDb[t])
    <3>1. PICK c \in EnsureConn(via[t]) : cache' = cache /\ Finish(t, c)
      BY <2>3 DEF Created, DropFails, Renamed, DropSucceeds
    <3>2. QED
      BY <2>1, <3>1, UsableFinish
  <2>4. QED
    BY <1>1, <2>2, <2>3
<1>2. CASE DropErase(t) \/ RenameErase(t)
  <2>1. PICK p \in {"via", "renameVia"} :
          /\ cache' = [cache EXCEPT ![name[t]] = None] /\ conn' = Keep(conn, Referenced(cache', via))
          /\ pc' = [pc EXCEPT ![t] = p] /\ UNCHANGED <<call, via, info, open, exists>>
          /\ pc[t] \in {"erase", "renameErase"}
    BY <1>2 DEF DropErase, RenameErase, Erase, Goto
  <2>2. name[t] \in Names /\ UNCHANGED <<name, newName, connectedDb>>
    BY <1>0, <2>1 DEF StageOf, Naming, call
  <2>3. /\ cache' \in [Names -> Handles \cup {None}] /\ cache'[name'[t]] = None
        /\ \A n \in Names : cache'[n] = cache[n] \/ cache'[n] = None
    BY <1>0, <2>1, <2>2
  <2>4. \A u \in Threads \ {t} : Untouched(u)
    BY <1>0, <2>1, <2>2 DEF Untouched
  <2>5. QED
    BY <2>1, <2>3, <2>4, UsableForget
<1>3. CASE DropVia(t) \/ RenameVia(t)
  <2>1. PICK p \in Stages :
          /\ pc[t] \in {"via", "renameVia"} /\ (pc[t] = "renameVia" => p = "rename")
          /\ pc' = [pc EXCEPT ![t] = p] /\ Lookup(t, info) /\ UNCHANGED call
    <3>1. CASE DropVia(t)
      <4>1. PICK p \in Stages : pc' = [pc EXCEPT ![t] = p]
        BY <3>1 DEF DropVia, Goto, Stages
      <4>2. QED
        BY <3>1, <4>1 DEF DropVia
    <3>2. CASE RenameVia(t)
      BY <3>2 DEF RenameVia, Goto, Stages
    <3>3. QED
      BY <1>3, <3>1, <3>2
  <2>2. via[t] = None
    BY <1>0, <2>1 DEF StageOf, Without
  <2>3. UNCHANGED <<name, newName, connectedDb>> /\ pc'[t] = p /\ \A u \in Threads \ {t} : pc'[u] = pc[u]
    BY <1>0, <2>1 DEF call
  <2>4. QED
    BY <1>0, <2>1, <2>2, <2>3, UsableLookup
<1>4. CASE DropMaintenance(t)
  <2>1. PICK h \in Handles :
          /\ Fresh(h, Maintenance) /\ via' = [via EXCEPT ![t] = h]
          /\ conn' = Keep([conn EXCEPT ![h] = "up"], Referenced(cache, via'))
    BY <1>4 DEF DropMaintenance
  <2>2. /\ pc[t] = "maintenance" /\ pc' = [pc EXCEPT ![t] = "terminate"]
        /\ UNCHANGED <<name, newName, connectedDb, cache>>
    BY <1>4 DEF DropMaintenance, Goto, call
  <2>3. PICK c \in [Handles -> Sessions] :
          /\ conn' = Keep(c, Referenced(cache, via'))
          /\ c[h] = "up" /\ \A g \in Handles : g # h => c[g] = conn[g]
    <3> DEFINE d == [conn EXCEPT ![h] = "up"]
    <3>1. d \in [Handles -> Sessions] /\ d[h] = "up" /\ \A g \in Handles : g # h => d[g] = conn[g]
      BY <1>0 DEF Sessions
    <3>2. conn' = Keep(d, Referenced(cache, via'))
      BY <2>1
    <3> HIDE DEF d
    <3>3. QED
      BY <3>1, <3>2
  <2>4. \A g \in Handles : conn'[g] = c[g] \/ conn'[g] = "none"
    BY <2>3 DEF Keep
  <2>5. \A g \in Handles : g # h => conn'[g] = conn[g] \/ conn'[g] = "none"
    BY <2>3, <2>4
  <2>6. conn'[h] # "dead" /\ h \notin Referenced(cache, via)
    BY <2>1, <2>3, <2>4 DEF Fresh
  <2>7. Gentle(t)
    BY <2>2, <2>5, <2>6 DEF Gentle
  <2>8. \A u \in Threads \ {t} : Untouched(u)
    BY <1>0, <2>1, <2>2 DEF Untouched
  <2>9. Dead'
    BY <1>0, <2>5, <2>6 DEF Dead, Noted
  <2>10. Evicted(t)'
    <3>1. SUFFICES ASSUME name[t] \notin raced \cup Racing, cache[name[t]] # None
                   PROVE  conn'[cache[name[t]]] = "none"
      BY <2>2 DEF Evicted, Noted
    <3>2. name[t] \in Names
      BY <1>0, <2>2 DEF StageOf, Naming
    <3>3. conn[cache[name[t]]] = "none"
      BY <1>0, <2>2, <3>1 DEF Evicted, Dropping
    <3>4. cache[name[t]] # h /\ cache[name[t]] \in Handles
      BY <1>0, <2>6, <3>1, <3>2 DEF Referenced
    <3>5. QED
      BY <2>5, <3>3, <3>4
  <2>11. QED
    BY <2>7, <2>8, <2>9, <2>10, UsableStep
<1>5. CASE Terminate(t)
  <2>1. /\ pc[t] = "terminate" /\ via[t] \in Handles /\ name[t] \in Names
        /\ pc' = [pc EXCEPT ![t] = "drop"] /\ UNCHANGED <<name, newName, connectedDb, via, cache>>
    BY <1>0, <1>5 DEF Terminate, Goto, call, StageOf, Using, Naming
  <2>2. PICK c \in EnsureConn(via[t]) :
          conn' = [h \in Handles |-> IF c[via[t]] = "up" /\ h \in Others(c, name[t], via[t])
                                     THEN "dead" ELSE c[h]]
    BY <1>5 DEF Terminate
  <2>3. /\ c \in [Handles -> Sessions] /\ \A h \in Handles : h # via[t] => c[h] = conn[h]
        /\ c[via[t]] = conn[via[t]] \/ (conn[via[t]] = "none" /\ c[via[t]] = "up")
    BY <1>0, <2>1, EnsureConnFacts
  <2>4. \A h \in Handles : \/ conn'[h] = c[h]
                           \/ h # via[t] /\ h.db = name[t] /\ c[h] = "up" /\ conn'[h] = "dead"
    BY <2>2 DEF Others
  <2>5. Gentle(t)
    BY <2>1, <2>3, <2>4 DEF Gentle
  <2>6. \A u \in Threads \ {t} : Untouched(u)
    BY <1>0, <2>1 DEF Untouched
  <2>7. Dead'
    <3>1. SUFFICES ASSUME NEW h \in Handles, conn'[h] = "dead" PROVE h.db \in raced'
      BY DEF Dead
    <3>2. CASE conn[h] = "dead"
      BY <1>0, <3>2 DEF Dead, Noted
    <3>3. CASE conn[h] # "dead"
      <4>1. h # via[t] /\ h.db = name[t] /\ conn[h] = "up"
        BY <2>3, <2>4, <3>1, <3>3
      <4>2. Dropping(t, name[t])
        BY <2>1 DEF Dropping
      <4>3. QED
        BY <1>0, <4>1, <4>2, DropEnds
    <3>4. QED
      BY <3>2, <3>3
  <2>8. Evicted(t)'
    <3>1. SUFFICES ASSUME name[t] \notin raced \cup Racing, cache[name[t]] # None, cache[name[t]] # via[t]
                   PROVE  conn'[cache[name[t]]] = "none"
      BY <1>0, <2>1 DEF Evicted, Noted
    <3>2. conn[cache[name[t]]] = "none" /\ cache[name[t]] \in Handles
      BY <1>0, <2>1, <3>1 DEF Evicted, Dropping
    <3>3. QED
      BY <2>3, <2>4, <3>1, <3>2
  <2>9. QED
    BY <2>5, <2>6, <2>7, <2>8, UsableStep
<1>6. CASE DropSucceeds(t) /\ connectedDb[t]
  <2>1. via[t] \in Handles
    BY <1>0, <1>6 DEF DropSucceeds, StageOf
  <2>2. PICK c \in EnsureConn(via[t]) :
          pc' = [pc EXCEPT ![t] = "dropped"] /\ conn' = c /\ UNCHANGED <<call, via, cache>>
    BY <1>6 DEF DropSucceeds, Goto
  <2>3. /\ \A h \in Handles : h # via[t] => c[h] = conn[h]
        /\ c[via[t]] = conn[via[t]] \/ (conn[via[t]] = "none" /\ c[via[t]] = "up")
    BY <1>0, <2>1, EnsureConnFacts
  <2>4. Gentle(t)
    BY <2>2, <2>3 DEF Gentle
  <2>5. \A u \in Threads \ {t} : Untouched(u)
    BY <1>0, <2>2 DEF Untouched, call
  <2>6. \A h \in Handles : conn'[h] = "dead" => conn[h] = "dead"
    BY <2>1, <2>2, <2>3
  <2>7. pc'[t] = "dropped"
    BY <1>0, <2>2
  <2>8. QED
    BY <2>4, <2>5, <2>6, <2>7, UsableCalm
<1>7. CASE Dropped(t)
  <2>1. pc[t] = "dropped" /\ cache' = [cache EXCEPT ![via[t].db] = via[t]] /\ Finish(t, conn)
    BY <1>7 DEF Dropped
  <2>2. via[t] \in Handles /\ via[t].db \in Names
    BY <1>0, <2>1 DEF StageOf
  <2>3. /\ cache' \in [Names -> Handles \cup {None}]
        /\ \A n \in Names : n # via[t].db => cache'[n] = cache[n]
    BY <1>0, <2>1, <2>2
  <2>4. /\ pc'[t] = "idle" /\ \A u \in Threads \ {t} : Untouched(u)
        /\ \A h \in Handles : conn'[h] = conn[h] \/ conn'[h] = "none"
    BY <1>0, <2>1, <2>3, FinishFacts DEF Untouched
  <2>5. Gentle(t)
    BY <2>2, <2>3, <2>4 DEF Gentle
  <2>6. QED
    BY <2>4, <2>5, UsableCalm
<1>8. ASSUME NEW n \in Names, Drop(t, n) \/ \E m \in Names \cup {None} : Rename(t, n, m) PROVE UsableInv'
  <2>1. PICK p \in {"erase", "renameErase"} : pc' = [pc EXCEPT ![t] = p]
    BY <1>8 DEF Drop, Rename, Goto
  <2>2. UNCHANGED <<via, cache, conn>>
    BY <1>8 DEF Drop, Rename
  <2>3. \A u \in Threads \ {t} : Untouched(u)
    BY <1>0, <1>8, <2>1, <2>2 DEF Drop, Rename, Untouched
  <2>4. Gentle(t) /\ pc'[t] = p
    BY <1>0, <2>1, <2>2 DEF Gentle
  <2>5. QED
    BY <2>2, <2>3, <2>4, UsableCalm
<1>9. QED
  BY <1>1, <1>2, <1>3, <1>4, <1>5, <1>6, <1>7, <1>8 DEF PgStep

\* MySQL's own calls: a drop goes through a session that is not on the database.
LEMMA UsableMySql ==
  ASSUME Shape, UsableInv, MySqlDefault, Noted, NEW t \in Threads, MySqlStep(t)
  PROVE  UsableInv'
<1> USE HandleIsHandle
<1>0. /\ TypeOK /\ Keyed /\ Unreferenced /\ StageOf(t) /\ info \in Names /\ Evicted(t) /\ Dead
      /\ cache \in [Names -> Handles \cup {None}] /\ via \in [Threads -> Handles \cup {None}]
      /\ conn \in [Handles -> Sessions] /\ pc \in [Threads -> Stages]
      /\ name \in [Threads -> Names \cup {None}] /\ newName \in [Threads -> Names \cup {None}]
      /\ connectedDb \in [Threads -> BOOLEAN] /\ engine = "mysql" /\ MySqlCall(t)
  BY DEF Shape, Types, TypeOK, Sessions, UsableInv, MySqlStep, MySqlDefault
<1>1. CASE MySqlCreated(t)
  <2>1. via[t] \in Handles
    BY <1>0, <1>1 DEF MySqlCreated, StageOf, Using
  <2>2. PICK c \in EnsureConn(via[t]) : cache' = cache /\ Finish(t, c)
    BY <1>1 DEF MySqlCreated
  <2>3. QED
    BY <2>1, <2>2, UsableFinish
<1>2. CASE MySqlDropped(t)
  BY <1>2, UsableFinish DEF MySqlDropped
<1>3. CASE MySqlDropFails(t)
  <2>1. PICK c \in MySqlDropSessions(t) : pc[t] = "drop" /\ cache' = cache /\ Finish(t, c)
    BY <1>3 DEF MySqlDropFails
  <2>2. c = conn \/ (via[t] \in Handles /\ c \in EnsureConn(via[t]))
    BY <1>0, <2>1 DEF MySqlDropSessions, StageOf
  <2>3. QED
    BY <2>1, <2>2, UsableFinish
<1>4. CASE MySqlDrop(t)
  <2>1. PICK n \in Names :
          /\ pc[t] = "idle"
          /\ name' = [name EXCEPT ![t] = n]
          /\ connectedDb' = [connectedDb EXCEPT ![t] = (n = info)]
          /\ cache' = [cache EXCEPT ![n] = None]
          /\ conn' = Keep(conn, Referenced(cache', via))
          /\ pc' = [pc EXCEPT ![t] = IF n = info THEN "drop" ELSE "via"]
          /\ UNCHANGED <<newName, via>>
    BY <1>4 DEF MySqlDrop, Goto
  <2>2. /\ cache' \in [Names -> Handles \cup {None}] /\ cache'[name'[t]] = None
        /\ \A m \in Names : cache'[m] = cache[m] \/ cache'[m] = None
    BY <1>0, <2>1
  <2>3. \A u \in Threads \ {t} : Untouched(u)
    BY <1>0, <2>1 DEF Untouched
  <2>4. QED
    BY <2>1, <2>2, <2>3, UsableForget
<1>5. CASE MySqlDropVia(t)
  <2>1. /\ pc[t] = "via" /\ pc' = [pc EXCEPT ![t] = "drop"] /\ Lookup(t, info)
        /\ UNCHANGED <<name, newName, connectedDb>>
    BY <1>5 DEF MySqlDropVia, Goto, call
  <2>2. via[t] = None /\ \A u \in Threads \ {t} : pc'[u] = pc[u]
    BY <1>0, <2>1 DEF StageOf, Without
  <2>3. QED
    BY <1>0, <2>1, <2>2, UsableLookup
<1>6. CASE MySqlDropRuns(t)
  <2>1. /\ pc[t] = "drop" /\ name[t] \in Names /\ name[t] # Maintenance /\ cache' = cache
        /\ Dropping(t, name[t])
    BY <1>0, <1>6 DEF MySqlDropRuns, Finish, Droppable, StageOf, Naming, Dropping
  <2>2. PICK c \in MySqlDropSessions(t) :
          \/ /\ connectedDb[t] /\ conn' = WithoutSchema(c, name[t])
             /\ pc' = [pc EXCEPT ![t] = "dropped"] /\ UNCHANGED <<call, via>>
          \/ ~connectedDb[t] /\ Finish(t, WithoutSchema(c, name[t]))
    BY <1>6 DEF MySqlDropRuns, Goto
  \* The session that drops is not one on the database.
  <2>3. via[t] = None \/ (via[t] \in Handles /\ via[t].db # name[t])
    BY <1>0, <2>1 DEF MySqlCall
  <2>4. /\ c \in [Handles -> Sessions] /\ \A h \in Handles : h # via[t] => c[h] = conn[h]
        /\ \A h \in Handles : c[h] = "dead" => conn[h] = "dead"
    <3>1. CASE connectedDb[t]
      BY <1>0, <3>1 DEF MySqlDropSessions
    <3>2. CASE ~connectedDb[t]
      <4>1. via[t] \in Handles /\ c \in EnsureConn(via[t])
        BY <1>0, <2>1, <3>2 DEF MySqlDropSessions, StageOf
      <4>2. QED
        BY <1>0, <4>1, EnsureConnFacts
    <3>3. QED
      BY <3>1, <3>2
  <2>5. PICK d \in [Handles -> Sessions] :
          /\ d = WithoutSchema(c, name[t])
          /\ \A h \in Handles : d[h] = c[h] \/ (d[h] = "dead" /\ h.db = name[t] /\ c[h] = "up")
    BY <2>4 DEF WithoutSchema, Sessions
  <2>6. /\ \A h \in Handles : conn'[h] = d[h] \/ conn'[h] = "none"
        /\ pc'[t] \in {"idle", "dropped"} /\ \A u \in Threads \ {t} : Untouched(u)
    <3>1. CASE connectedDb[t]
      BY <1>0, <2>2, <2>5, <3>1 DEF Untouched, call
    <3>2. CASE ~connectedDb[t]
      BY <1>0, <2>1, <2>2, <2>5, <3>2, FinishFacts DEF Untouched
    <3>3. QED
      BY <3>1, <3>2
  <2>7. Gentle(t)
    BY <2>1, <2>4, <2>5, <2>6 DEF Gentle
  <2>8. Dead'
    <3>1. SUFFICES ASSUME NEW h \in Handles, conn'[h] = "dead", conn[h] # "dead" PROVE h.db \in raced'
      BY <1>0 DEF Dead, Noted
    <3>2. h.db = name[t] /\ h # via[t] /\ conn[h] = "up"
      BY <2>3, <2>4, <2>5, <2>6, <3>1
    <3>3. QED
      BY <1>0, <2>1, <3>2, DropEnds
  <2>9. Evicted(t)'
    BY <2>6 DEF Evicted, Dropping
  <2>10. QED
    BY <2>6, <2>7, <2>8, <2>9, UsableStep
<1>7. QED
  BY <1>1, <1>2, <1>3, <1>4, <1>5, <1>6 DEF MySqlStep

\* SQL Server's sessions are opened again when they were killed, and nothing ends an
\* Oracle session: none is ever dead.
LEMMA UsableOther ==
  ASSUME Shape, UsableInv, Noted, NEW t \in Threads, MssqlStep(t) \/ OracleStep(t)
  PROVE  UsableInv'
<1>1. engine' = engine /\ engine \notin {"postgres", "mysql"} /\ conn \in [Handles -> Sessions]
  BY DEF Noted, MssqlStep, OracleStep, Shape, Types, TypeOK, Sessions
<1>2. SUFFICES ASSUME NEW h \in Handles, conn'[h] = "dead" PROVE conn[h] = "dead"
  BY <1>1 DEF UsableInv, Dead, Noted
<1>3. ASSUME NEW refs, conn' = Keep(conn, refs) PROVE conn[h] = "dead"
  BY <1>2, <1>3 DEF Keep
<1>4. CASE MssqlStep(t)
  <2>1. CASE MssqlCreate(t)
    BY <1>2, <2>1 DEF MssqlCreate
  <2>2. CASE MssqlDrop(t) \/ MssqlRename(t)
    BY <1>3, <2>2 DEF MssqlDrop, MssqlRename, MssqlForget
  <2>3. CASE execOnMaster(t)
    BY <1>2, <2>3 DEF execOnMaster, Killed
  <2>4. CASE MssqlBatchFails(t) \/ MssqlDropped(t) \/ MssqlRenamed(t)
    BY <1>3, <2>4 DEF MssqlBatchFails, MssqlDropped, MssqlRenamed, Finish
  <2>5. QED
    BY <1>4, <2>1, <2>2, <2>3, <2>4 DEF MssqlStep
<1>5. CASE OracleStep(t)
  <2>1. CASE OracleOpen(t) \/ OracleClose(t) \/ OracleCreate(t)
    BY <1>2, <2>1 DEF OracleOpen, OracleClose, OracleCreate
  <2>2. CASE OracleCloseCache(t) \/ OracleDrop(t)
    BY <1>3, <2>2 DEF OracleCloseCache, OracleDrop, MssqlForget
  <2>3. CASE OracleDropRuns(t) \/ OracleDropFails(t)
    BY <1>3, <2>3 DEF OracleDropRuns, OracleDropFails, Finish
  <2>4. QED
    BY <1>5, <2>1, <2>2, <2>3 DEF OracleStep
<1>6. QED
  BY <1>4, <1>5

\* A dead session in the cache comes from a race of a drop with a call on the same
\* database: for any number of threads that make any calls and any databases.
THEOREM CacheCorrect == ServersSpec => []CachedHandleUsable
<1>1. ServersInit => UsableInv
  <2> SUFFICES ASSUME ServersInit PROVE UsableInv
    OBVIOUS
  <2>1. pc = [t \in Threads |-> "idle"] /\ conn = [h \in Handles |-> "none"]
    BY DEF ServersInit, Init
  <2>2. Dead /\ \A t \in Threads : Evicted(t)
    BY <2>1 DEF Dead, Evicted, Dropping
  <2>3. QED
    BY <2>2 DEF UsableInv
<1>2. Shape /\ DefaultInv /\ UsableInv /\ [ServersNext]_serverVars => UsableInv'
  <2> SUFFICES ASSUME Shape, DefaultInv, UsableInv, [ServersNext]_serverVars PROVE UsableInv'
    OBVIOUS
  <2>1. CASE UNCHANGED serverVars
    <3>1. UNCHANGED <<pc, name, via, cache, conn, engine, raced>>
      BY <2>1 DEF serverVars, vars
    <3>2. Racing' = Racing
      BY <3>1 DEF Racing, Dropping
    <3>3. Dead' /\ \A t \in Threads : Evicted(t)' <=> Evicted(t)
      BY <3>1, <3>2 DEF UsableInv, Dead, Evicted, Dropping
    <3>4. QED
      BY <3>1, <3>3 DEF UsableInv
  <2>2. CASE ServersNext
    <3>1. PICK t \in Threads : Noted /\ AnyStep(t)
      BY <2>2, StepCases
    <3>2. CASE CallStep(t) \/ HandleStep(t)
      BY <3>1, <3>2, UsableCalls
    <3>3. CASE PgStep(t)
      BY <3>1, <3>3, UsablePg
    <3>4. CASE MySqlStep(t)
      BY <3>1, <3>4, UsableMySql DEF DefaultInv
    <3>5. CASE MssqlStep(t) \/ OracleStep(t)
      BY <3>1, <3>5, UsableOther
    <3>6. QED
      BY <3>1, <3>2, <3>3, <3>4, <3>5 DEF AnyStep
  <2>3. QED
    BY <2>1, <2>2
<1>3. Shape /\ UsableInv => CachedHandleUsable
  <2> SUFFICES ASSUME Shape, UsableInv, NEW n \in Names, cache[n] # None, conn[cache[n]] = "dead"
               PROVE  n \in raced
    BY DEF CachedHandleUsable
  <2>1. cache[n] \in Handles /\ cache[n].db = n
    BY DEF Shape, Types, TypeOK, Keyed
  <2>2. QED
    BY <2>1 DEF UsableInv, Dead
<1>4. QED
  BY <1>1, <1>2, <1>3, ShapeCorrect, DefaultInvCorrect, PTL DEF ServersSpec

----------------------------------------------------------------------------
(***************************************************************************)
(* The Oracle client.                                                      *)
(***************************************************************************)
ClientCall == [pc : PCs, auto : BOOLEAN, installed : BOOLEAN]

Env == [boot : BOOLEAN, path : BOOLEAN, loader : BOOLEAN]

\* The parts of the types the other proofs rest on.
ClientTypes ==
    /\ th \in [HostThreads -> ClientCall]
    /\ lib \in BOOLEAN
    /\ env \in Env
    /\ execs \in Nat

\* The image after an exec carries the guard that forbids the next one.
Guarded == execs <= 1 /\ (execs = 1 => env.boot)

\* The stages of an install() that answers for the archive.
Owning == Installing \ {"check", "aio"}

Owned == archive # "none" => orphan \/ \E t \in HostThreads : th[t].pc \in Owning

\* Who holds the context's mutex.
Locking ==
    /\ mutex \in HostThreads \cup {NoThread}
    /\ \A t \in HostThreads : (th[t].auto \/ th[t].pc = "create") <=> mutex = t

----------------------------------------------------------------------------
\* The calls a step can leave a thread in.
LEMMA CallStates ==
  /\ Idle \in ClientCall
  /\ \A p \in PCs, a, i \in BOOLEAN : [pc |-> p, auto |-> a, installed |-> i] \in ClientCall
  /\ \A f \in [HostThreads -> ClientCall], t \in HostThreads, p \in PCs : [f EXCEPT ![t].pc = p] \in [HostThreads -> ClientCall]
  /\ \A f \in [HostThreads -> ClientCall], t \in HostThreads, r \in ClientCall : [f EXCEPT ![t] = r] \in [HostThreads -> ClientCall]
<1>1. Idle \in ClientCall
  BY Zenon DEF Idle, ClientCall, PCs
<1>2. \A p \in PCs, a, i \in BOOLEAN : [pc |-> p, auto |-> a, installed |-> i] \in ClientCall
  BY Zenon DEF ClientCall
<1>3. \A f \in [HostThreads -> ClientCall], t \in HostThreads, p \in PCs : [f EXCEPT ![t].pc = p] \in [HostThreads -> ClientCall]
  BY DEF ClientCall
<1>4. \A f \in [HostThreads -> ClientCall], t \in HostThreads, r \in ClientCall : [f EXCEPT ![t] = r] \in [HostThreads -> ClientCall]
  OBVIOUS
<1>5. QED
  BY <1>1, <1>2, <1>3, <1>4

\* The calls, the environment and the count of execs keep their types.
LEMMA ClientTypesCorrect == ClientSpec => []ClientTypes
<1>1. ClientInit => ClientTypes
  <2> SUFFICES ASSUME ClientInit PROVE ClientTypes
    OBVIOUS
  <2>1. lib \in BOOLEAN
    BY Zenon DEF ClientInit
  <2>2. env \in Env
    BY DEF ClientInit, Env
  <2>3. th \in [HostThreads -> ClientCall] /\ execs \in Nat
    BY CallStates DEF ClientInit
  <2>4. QED
    BY <2>1, <2>2, <2>3 DEF ClientTypes
<1>2. ClientTypes /\ [ClientNext]_clientVars => ClientTypes'
  <2> SUFFICES ASSUME ClientTypes, [ClientNext]_clientVars PROVE ClientTypes'
    OBVIOUS
  <2>0. th \in [HostThreads -> ClientCall] /\ lib \in BOOLEAN /\ env \in Env /\ execs \in Nat
    BY DEF ClientTypes
  <2>go. ASSUME NEW t \in HostThreads, NEW p \in PCs, GoOn(t, p) PROVE th' \in [HostThreads -> ClientCall]
    BY <2>0, <2>go, CallStates DEF GoOn
  <2>end. ASSUME NEW t \in HostThreads, NEW r \in ClientCall, th' = [th EXCEPT ![t] = r]
          PROVE  th' \in [HostThreads -> ClientCall]
    BY <2>0, <2>end, CallStates
  <2>ret. ASSUME NEW t \in HostThreads, NEW ok \in BOOLEAN, InstallReturns(t, ok)
          PROVE  th' \in [HostThreads -> ClientCall]
    <3>1. [pc |-> "create", auto |-> FALSE, installed |-> isInstalled] \in ClientCall
      BY <2>0, CallStates DEF isInstalled, PCs
    <3>2. QED
      BY <2>ret, <2>end, <3>1, CallStates DEF InstallReturns
  <2>1. ASSUME NEW t \in HostThreads, Install(t) \/ Connect(t) \/ ResetContext(t) PROVE ClientTypes'
    <3>1. th' \in [HostThreads -> ClientCall]
      BY <2>1, <2>go DEF Install, Connect, ResetContext, Enter, PCs, Installing
    <3>2. QED
      BY <2>0, <2>1, <3>1 DEF Install, Connect, ResetContext, ClientTypes, disk
  <2>2. ASSUME NEW t \in HostThreads,
               InstallEarly(t) \/ DownloadFails(t) \/ Clean(t) \/ InstallLibaio(t)
        PROVE  ClientTypes'
    <3>1. th' \in [HostThreads -> ClientCall]
      BY <2>2, <2>go, <2>ret
      DEF InstallEarly, DownloadFails, Clean, InstallLibaio, PCs, Installing
    <3>2. QED
      BY <2>0, <2>2, <3>1 DEF InstallEarly, DownloadFails, Clean, InstallLibaio, ClientTypes, disk
  <2>3. ASSUME NEW t \in HostThreads, OpenArchive(t) \/ Downloaded(t) \/ UnzipRest(t) \/ UnzipFails(t)
        PROVE  ClientTypes'
    <3>1. th' \in [HostThreads -> ClientCall]
      BY <2>3, <2>go DEF OpenArchive, Downloaded, UnzipRest, UnzipFails, PCs, Installing
    <3>2. QED
      BY <2>0, <2>3, <3>1 DEF OpenArchive, Downloaded, UnzipRest, UnzipFails, ClientTypes, disk
  <2>4. ASSUME NEW t \in HostThreads, UnzipLib(t) PROVE ClientTypes'
    <3>1. th' \in [HostThreads -> ClientCall]
      BY <2>4, <2>go DEF UnzipLib, PCs, Installing
    <3>2. lib' \in BOOLEAN
      BY <2>4, Zenon DEF UnzipLib
    <3>3. QED
      BY <2>0, <2>4, <3>1, <3>2 DEF UnzipLib, ClientTypes
  <2>5. ASSUME NEW t \in HostThreads, NEW a \in BOOLEAN, GetDpiContext(t, a) PROVE ClientTypes'
    <3>1. /\ [pc |-> "create", auto |-> FALSE, installed |-> isInstalled] \in ClientCall
          /\ [pc |-> "check", auto |-> TRUE, installed |-> FALSE] \in ClientCall
      BY <2>0, CallStates DEF isInstalled, PCs, Installing
    <3>2. th' \in [HostThreads -> ClientCall]
      BY <2>5, <2>end, <3>1, CallStates DEF GetDpiContext
    <3>3. QED
      BY <2>0, <2>5, <3>2 DEF GetDpiContext, ClientTypes, disk
  <2>6. ASSUME NEW t \in HostThreads, Remembered(t) PROVE ClientTypes'
    BY <2>0, <2>6, <2>end, CallStates DEF Remembered, ClientTypes, disk
  <2>7. ASSUME NEW t \in HostThreads, CreateContext(t) PROVE ClientTypes'
    <3>a. \A e \in Env : [e EXCEPT !.boot = TRUE, !.path = TRUE] \in Env
      BY DEF Env
    <3>1. env' \in Env
      <4>1. env' = env \/ env' = [env EXCEPT !.boot = TRUE, !.path = TRUE]
        BY <2>7 DEF CreateContext
      <4>2. QED
        BY <2>0, <3>a, <4>1
    <3>2. th' \in [HostThreads -> ClientCall]
      BY <2>7, <2>end, CallStates DEF CreateContext
    <3>3. QED
      BY <2>0, <2>7, <3>1, <3>2 DEF CreateContext, ClientTypes
  <2>8. ASSUME NEW t \in HostThreads, Reexec(t) PROVE ClientTypes'
    <3>1. env' \in Env
      <4>1. PICK p \in BOOLEAN : env' = [boot |-> TRUE, path |-> p, loader |-> p]
        BY <2>8 DEF Reexec
      <4>2. [boot |-> TRUE, path |-> p, loader |-> p] \in Env
        BY Zenon DEF Env
      <4>3. QED
        BY <4>1, <4>2
    <3>2. th' \in [HostThreads -> ClientCall]
      BY <2>8, CallStates DEF Reexec, NewProcess
    <3>3. QED
      BY <2>0, <2>8, <3>1, <3>2 DEF Reexec, ClientTypes
  <2>9. CASE Crash
    <3>1. env' \in Env
      BY <2>9, Zenon DEF Crash, Env
    <3>2. th' \in [HostThreads -> ClientCall]
      BY <2>9, CallStates DEF Crash, NewProcess
    <3>3. QED
      BY <2>0, <2>9, <3>1, <3>2 DEF Crash, ClientTypes, disk
  <2>10. CASE UNCHANGED clientVars
    BY <2>10 DEF clientVars, disk, ClientTypes
  <2>11. QED
    BY <2>1, <2>2, <2>3, <2>4, <2>5, <2>6, <2>7, <2>8, <2>9, <2>10 DEF ClientNext, Step
<1>3. QED
  BY <1>1, <1>2, PTL DEF ClientSpec

----------------------------------------------------------------------------
\* The context's mutex is held exactly by the thread that creates the context or
\* runs the install() of getDpiContext: every way out of either releases it.
THEOREM LocksCorrect == ClientSpec => []Locking
<1>1. ClientInit => Locking
  BY OracleAssumption DEF ClientInit, Locking, Idle
<1>2. ClientTypes /\ Locking /\ [ClientNext]_clientVars => Locking'
  <2> SUFFICES ASSUME ClientTypes, Locking, [ClientNext]_clientVars PROVE Locking'
    OBVIOUS
  <2>0. th \in [HostThreads -> ClientCall]
    BY DEF ClientTypes
  <2>stay. ASSUME NEW t \in HostThreads, NEW p \in PCs \ {"create"}, th[t].pc # "create",
                  GoOn(t, p), UNCHANGED mutex
           PROVE  Locking'
    <3>1. \A u \in HostThreads \ {t} : th'[u] = th[u]
      BY <2>0, <2>stay DEF GoOn
    <3>2. th'[t].auto = th[t].auto /\ th'[t].pc = p
      BY <2>0, <2>stay DEF GoOn, ClientCall
    <3>3. QED
      BY <2>stay, <3>1, <3>2 DEF Locking
  <2>keep. ASSUME NEW t \in HostThreads, NEW r, th[t].auto \/ th[t].pc = "create",
                  r.auto \/ r.pc = "create", th' = [th EXCEPT ![t] = r], UNCHANGED mutex
           PROVE  Locking'
    BY <2>0, <2>keep DEF Locking
  <2>rel. ASSUME NEW t \in HostThreads, th[t].auto \/ th[t].pc = "create",
                 th' = [th EXCEPT ![t] = Idle], mutex' = NoThread
          PROVE  Locking'
    BY <2>0, <2>rel, OracleAssumption DEF Locking, Idle
  <2>idle. ASSUME NEW t \in HostThreads, ~(th[t].auto \/ th[t].pc = "create"),
                  th' = [th EXCEPT ![t] = Idle], UNCHANGED mutex
           PROVE  Locking'
    BY <2>0, <2>idle DEF Locking, Idle
  <2>take. ASSUME NEW t \in HostThreads, NEW r, mutex = NoThread, r.auto \/ r.pc = "create",
                  th' = [th EXCEPT ![t] = r], mutex' = t
           PROVE  Locking'
    BY <2>0, <2>take, OracleAssumption DEF Locking
  <2>ret. ASSUME NEW t \in HostThreads, NEW ok \in BOOLEAN, th[t].pc # "create", InstallReturns(t, ok)
          PROVE  Locking'
    <3>1. CASE ~th[t].auto
      BY <2>ret, <2>idle, <3>1 DEF InstallReturns, memory
    <3>2. CASE th[t].auto /\ ok
      BY <2>ret, <2>keep, <3>2 DEF InstallReturns, memory
    <3>3. CASE th[t].auto /\ ~ok
      BY <2>ret, <2>rel, <3>3 DEF InstallReturns
    <3>4. QED
      BY <3>1, <3>2, <3>3
  <2>1. ASSUME NEW t \in HostThreads, Install(t) \/ Connect(t) \/ ResetContext(t) PROVE Locking'
    BY <2>1, <2>stay DEF Install, Connect, ResetContext, Enter, memory, PCs, Installing
  <2>2. ASSUME NEW t \in HostThreads, InstallEarly(t) \/ DownloadFails(t) \/ InstallLibaio(t)
        PROVE  Locking'
    BY <2>2, <2>ret DEF InstallEarly, DownloadFails, InstallLibaio
  <2>3. ASSUME NEW t \in HostThreads, Clean(t) PROVE Locking'
    BY <2>3, <2>ret, <2>stay DEF Clean, memory, PCs, Installing
  <2>4. ASSUME NEW t \in HostThreads,
               OpenArchive(t) \/ Downloaded(t) \/ UnzipLib(t) \/ UnzipRest(t) \/ UnzipFails(t)
        PROVE  Locking'
    BY <2>4, <2>stay
    DEF OpenArchive, Downloaded, UnzipLib, UnzipRest, UnzipFails, memory, PCs, Installing
  <2>5. ASSUME NEW t \in HostThreads, NEW a \in BOOLEAN, GetDpiContext(t, a) PROVE Locking'
    <3>1. CASE ctx
      <4>1. ~(th[t].auto \/ th[t].pc = "create")
        BY <2>5, OracleAssumption DEF GetDpiContext, Locking
      <4>2. QED
        BY <2>5, <2>idle, <3>1, <4>1 DEF GetDpiContext
    <3>2. CASE ~ctx
      BY <2>5, <2>take, <3>2 DEF GetDpiContext
    <3>3. QED
      BY <3>1, <3>2
  <2>6. ASSUME NEW t \in HostThreads, Remembered(t) \/ CreateContext(t) PROVE Locking'
    BY <2>6, <2>rel DEF Remembered, CreateContext, ToBeTried
  <2>7. CASE Crash \/ \E t \in HostThreads : Reexec(t)
    <3>1. NewProcess
      BY <2>7 DEF Crash, Reexec
    <3>2. QED
      BY <3>1, OracleAssumption DEF NewProcess, Locking, Idle
  <2>8. CASE UNCHANGED clientVars
    BY <2>8 DEF clientVars, memory, Locking
  <2>9. QED
    BY <2>1, <2>2, <2>3, <2>4, <2>5, <2>6, <2>7, <2>8 DEF ClientNext, Step
<1>3. QED
  BY <1>1, <1>2, ClientTypesCorrect, PTL DEF ClientSpec

----------------------------------------------------------------------------
\* Only an exec, a context and a crash touch the guard and the count.
LEMMA GuardedCorrect == ClientSpec => []Guarded
<1>1. ClientInit => Guarded
  BY DEF ClientInit, Guarded
<1>2. ClientTypes /\ Guarded /\ [ClientNext]_clientVars => Guarded'
  <2> SUFFICES ASSUME ClientTypes, Guarded, [ClientNext]_clientVars PROVE Guarded'
    OBVIOUS
  <2>1. ASSUME NEW t \in HostThreads, Reexec(t) PROVE Guarded'
    <3>1. ~env.boot /\ execs' = execs + 1 /\ env'.boot
      BY <2>1 DEF Reexec, MayReexec
    <3>2. QED
      BY <3>1 DEF Guarded, ClientTypes
  <2>2. ASSUME NEW t \in HostThreads, CreateContext(t) PROVE Guarded'
    <3>1. env.boot => env'.boot
      BY <2>2 DEF CreateContext, ClientTypes, Env
    <3>2. QED
      BY <2>2, <3>1 DEF CreateContext, Guarded
  <2>3. CASE Crash
    BY <2>3 DEF Crash, Guarded
  <2>4. ASSUME NEW t \in HostThreads,
               \/ Install(t) \/ Connect(t) \/ ResetContext(t)
               \/ InstallEarly(t) \/ OpenArchive(t) \/ Downloaded(t) \/ DownloadFails(t)
               \/ UnzipLib(t) \/ UnzipRest(t) \/ UnzipFails(t) \/ Clean(t) \/ InstallLibaio(t)
               \/ (\E a \in BOOLEAN : GetDpiContext(t, a)) \/ Remembered(t)
        PROVE  UNCHANGED <<env, execs>>
    BY <2>4 DEF Install, Connect, ResetContext, InstallEarly, OpenArchive, Downloaded,
                DownloadFails, UnzipLib, UnzipRest, UnzipFails, Clean, InstallLibaio,
                GetDpiContext, Remembered
  <2>5. CASE UNCHANGED <<env, execs>>
    BY <2>5 DEF Guarded
  <2>6. QED
    BY <2>1, <2>2, <2>3, <2>4, <2>5 DEF ClientNext, Step, clientVars
<1>3. QED
  BY <1>1, <1>2, ClientTypesCorrect, PTL DEF ClientSpec

\* The process replaces itself at most once between two starts: no exec loop,
\* whatever the new image finds.
THEOREM ReexecCorrect == ClientSpec => []ReexecOnce
<1>1. Guarded => ReexecOnce
  BY DEF Guarded, ReexecOnce
<1>2. QED
  BY <1>1, GuardedCorrect, PTL

----------------------------------------------------------------------------
\* Every archive on disk has an install() that will remove it, unless a process
\* ended inside one.
LEMMA OwnedCorrect == ClientSpec => []Owned
<1> USE DEF Owning, Installing
<1>1. ClientInit => Owned
  BY DEF ClientInit, Owned
<1>2. ClientTypes /\ Owned /\ [ClientNext]_clientVars => Owned'
  <2> SUFFICES ASSUME ClientTypes, Owned, [ClientNext]_clientVars PROVE Owned'
    OBVIOUS
  <2>go. ASSUME NEW t \in HostThreads, NEW p \in Owning, GoOn(t, p), orphan' = orphan PROVE Owned'
    <3>1. th'[t].pc \in Owning
      BY <2>go DEF GoOn, ClientTypes, ClientCall
    <3>2. QED
      BY <3>1 DEF Owned
  <2>1. ASSUME NEW t \in HostThreads,
               OpenArchive(t) \/ Downloaded(t) \/ UnzipLib(t) \/ UnzipRest(t) \/ UnzipFails(t)
        PROVE  Owned'
    BY <2>1, <2>go DEF OpenArchive, Downloaded, UnzipLib, UnzipRest, UnzipFails
  <2>2. ASSUME NEW t \in HostThreads, DownloadFails(t) \/ Clean(t) PROVE Owned'
    BY <2>2 DEF DownloadFails, Clean, Owned
  <2>away. ASSUME NEW t \in HostThreads, th[t].pc \notin Owning,
                  \A u \in HostThreads \ {t} : th'[u] = th[u], UNCHANGED <<archive, orphan>>
           PROVE  Owned'
    BY <2>away DEF Owned
  <2>3. ASSUME NEW t \in HostThreads,
               \/ Install(t) \/ Connect(t) \/ ResetContext(t) \/ InstallEarly(t)
               \/ InstallLibaio(t) \/ (\E a \in BOOLEAN : GetDpiContext(t, a))
               \/ Remembered(t) \/ CreateContext(t)
        PROVE  Owned'
    <3>1. th[t].pc \notin Owning
      BY <2>3 DEF Install, Connect, ResetContext, Enter, InstallEarly, InstallLibaio,
                  GetDpiContext, Remembered, CreateContext, ToBeTried
    <3>2. \A u \in HostThreads \ {t} : th'[u] = th[u]
      BY <2>3 DEF Install, Connect, ResetContext, Enter, GoOn, InstallEarly, InstallLibaio,
                  InstallReturns, GetDpiContext, Remembered, CreateContext, ClientTypes
    <3>3. UNCHANGED <<archive, orphan>>
      BY <2>3 DEF Install, Connect, ResetContext, InstallEarly, InstallLibaio,
                  GetDpiContext, Remembered, CreateContext, disk
    <3>4. QED
      BY <2>away, <3>1, <3>2, <3>3
  <2>4. ASSUME NewProcess, UNCHANGED archive PROVE Owned'
    BY <2>4 DEF NewProcess, Owned
  <2>5. CASE Crash \/ \E t \in HostThreads : Reexec(t)
    BY <2>4, <2>5 DEF Crash, Reexec, disk
  <2>6. CASE UNCHANGED clientVars
    BY <2>6 DEF clientVars, disk, Owned
  <2>7. QED
    BY <2>1, <2>2, <2>3, <2>5, <2>6 DEF ClientNext, Step
<1>3. QED
  BY <1>1, <1>2, ClientTypesCorrect, PTL DEF ClientSpec

\* No archive is left behind on any way out of install(), with any number of
\* installs at a time.
THEOREM ArchiveCorrect == ClientSpec => []ArchiveIsOwned
<1>1. Owned => ArchiveIsOwned
  BY DEF Owned, Owning, ArchiveIsOwned
<1>2. QED
  BY <1>1, OwnedCorrect, PTL
=============================================================================

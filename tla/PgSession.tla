----------------------------- MODULE PgSession -----------------------------
(***************************************************************************)
(* PostgresDatabase: one libpq connection shared by the database handle    *)
(* and by every PostgresSchema handle made from it                         *)
(* (src/postgres_connection.cpp, PostgresDatabase and PostgresSchema).     *)
(*                                                                         *)
(* executeIn(schema, sql) keeps the session's search_path in searchPath_   *)
(* and sends SET/RESET search_path, as a round trip of its own, only when  *)
(* the schema differs from it.  pathMu_ spans the whole call, mu_ one      *)
(* round trip (run).  Catalog calls and open() take mu_ only.  A catalog   *)
(* call is one such round trip here; that describeTable("t") then reads    *)
(* current_schema(), whatever it is, is not followed up.                   *)
(*                                                                         *)
(* SQL text is abstracted to its kind: what it does to the server's        *)
(* session, and whether the text contains one of the words executeIn looks *)
(* for.  The server's side (path, base, txn) is external: PostgreSQL's     *)
(* transactional search_path setting.                                      *)
(***************************************************************************)
EXTENDS Naturals

CONSTANTS
    Threads,        \* the host's threads
    Schemas,        \* schema names
    Default,        \* the server's own search_path: the database handle ("")
    Unknown,        \* searchPath_ = UNKNOWN, a name no schema can have
    None,           \* no thread, and "ran nowhere"
    Kinds,          \* the kinds of statement the host sends, see AllKinds
    QuietFailures   \* round trips that may fail although the session could run
                    \* them (a host cancel, a catalog query this server lacks)
                    \* and that executeIn does not look at: "set", "catalog"

Paths == Schemas \cup {Default}

AllKinds == {"query", "begin", "commit", "rollback", "abort",
             "setPath", "setSchema", "reset"}

ASSUME NameAssumption ==
    /\ Default \notin Schemas
    /\ Unknown \notin Paths
    /\ None \notin Threads
    /\ None \notin Paths
ASSUME KindAssumption ==
    /\ Kinds \subseteq AllKinds
    /\ QuietFailures \subseteq {"set", "catalog"}

VARIABLES
    pc,          \* pc[t]: where t is in its call
    io,          \* io[t]: the round trip t is in: "none", "sent", "ok", "fail"
    ns,          \* ns[t]: the handle t called: a schema, or Default
    sql,         \* sql[t]: the kind of statement it passed
    pathMu, mu,  \* pathMu_, mu_: the holder, or None
    conn,        \* conn_: "none", "up", or "broken" (PQstatus # CONNECTION_OK)
    searchPath,  \* searchPath_
    path,        \* server: the search_path in force
    base,        \* server: the search_path a rollback restores, None outside a block
    txn,         \* server: "idle", "active" or "failed" transaction block
    ranIn        \* ranIn[t]: the path t's statement ran under, None before

serverVars == <<path, base, txn>>
vars == <<pc, io, ns, sql, pathMu, mu, conn, searchPath, path, base, txn,
          ranIn>>

Stages == {"idle", "path", "set", "setDone", "sql", "sqlDone",
           "catalog", "open", "done"}

TypeOK ==
    /\ pc \in [Threads -> Stages]
    /\ io \in [Threads -> {"none", "sent", "ok", "fail"}]
    /\ ns \in [Threads -> Paths]
    /\ sql \in [Threads -> AllKinds]
    /\ pathMu \in Threads \cup {None}
    /\ mu \in Threads \cup {None}
    /\ conn \in {"none", "up", "broken"}
    /\ searchPath \in Paths \cup {Unknown}
    /\ path \in Paths
    /\ base \in Paths \cup {None}
    /\ txn \in {"idle", "active", "failed"}
    /\ ranIn \in [Threads -> Paths \cup {None}]

Init ==
    /\ pc = [t \in Threads |-> "idle"]
    /\ io = [t \in Threads |-> "none"]
    /\ ns = [t \in Threads |-> Default]
    /\ sql = [t \in Threads |-> "query"]
    /\ pathMu = None
    /\ mu = None
    /\ conn = "none"
    /\ searchPath = Default
    /\ path = Default
    /\ base = None
    /\ txn = "idle"
    /\ ranIn = [t \in Threads |-> None]

----------------------------------------------------------------------------
(* Calls *)

\* execute() on the database (s = Default) or on a schema handle.
Execute(t, s, k) ==
    /\ pc[t] = "idle"
    /\ pc' = [pc EXCEPT ![t] = "path"]
    /\ ns' = [ns EXCEPT ![t] = s]
    /\ sql' = [sql EXCEPT ![t] = k]
    /\ UNCHANGED <<io, pathMu, mu, conn, searchPath, ranIn>>
    /\ UNCHANGED serverVars

\* describeTable("t") on the database handle: run() without pathMu_.
Describe(t) ==
    /\ pc[t] = "idle"
    /\ pc' = [pc EXCEPT ![t] = "catalog"]
    /\ UNCHANGED <<io, ns, sql, pathMu, mu, conn, searchPath, ranIn>>
    /\ UNCHANGED serverVars

\* open(): ensureConn() under mu_ alone.
Open(t) ==
    /\ pc[t] = "idle"
    /\ pc' = [pc EXCEPT ![t] = "open"]
    /\ UNCHANGED <<io, ns, sql, pathMu, mu, conn, searchPath, ranIn>>
    /\ UNCHANGED serverVars

----------------------------------------------------------------------------
(* executeIn *)

\* Mutant: the compare with the cached path is dropped.
LockPathTrusting(t) ==
    /\ pc[t] = "path"
    /\ pathMu = None
    /\ pathMu' = t
    /\ pc' = [pc EXCEPT ![t] = "sql"]
    /\ UNCHANGED <<io, ns, sql, mu, conn, searchPath, ranIn>>
    /\ UNCHANGED serverVars

\* executeIn takes pathMu_ and compares the schema with the cached path.
LockPath(t) ==
    /\ pc[t] = "path"
    /\ pathMu = None
    /\ pathMu' = t
    /\ pc' = [pc EXCEPT ![t] = IF ns[t] # searchPath THEN "set" ELSE "sql"]
    /\ UNCHANGED <<io, ns, sql, mu, conn, searchPath, ranIn>>
    /\ UNCHANGED serverVars

\* Mutant: a failed SET is ignored and the statement runs anyway.
AfterSetIgnoring(t) ==
    /\ pc[t] = "setDone"
    /\ searchPath' = IF io[t] = "ok" THEN ns[t] ELSE searchPath
    /\ pc' = [pc EXCEPT ![t] = "sql"]
    /\ io' = [io EXCEPT ![t] = "none"]
    /\ UNCHANGED <<ns, sql, pathMu, mu, conn, ranIn>>
    /\ UNCHANGED serverVars

\* Mutant: the early return after a failed SET leaves pathMu_ locked.
AfterSetLocked(t) ==
    /\ pc[t] = "setDone"
    /\ searchPath' = IF io[t] = "ok" THEN ns[t] ELSE searchPath
    /\ pc' = [pc EXCEPT ![t] = IF io[t] = "ok" THEN "sql" ELSE "done"]
    /\ io' = [io EXCEPT ![t] = "none"]
    /\ UNCHANGED <<ns, sql, pathMu, mu, conn, ranIn>>
    /\ UNCHANGED serverVars

\* After SET/RESET search_path: its failure is the call's result, the cached
\* path is left alone; its success is recorded and the statement follows.
AfterSet(t) ==
    /\ pc[t] = "setDone"
    /\ IF io[t] = "ok"
       THEN /\ searchPath' = ns[t]
            /\ pc' = [pc EXCEPT ![t] = "sql"]
            /\ UNCHANGED pathMu
       ELSE /\ pathMu' = None
            /\ pc' = [pc EXCEPT ![t] = "done"]
            /\ UNCHANGED searchPath
    /\ io' = [io EXCEPT ![t] = "none"]
    /\ UNCHANGED <<ns, sql, mu, conn, ranIn>>
    /\ UNCHANGED serverVars

\* Mutant: "search_path" is not among the words looked for.
NamesPathForgetful(k) == k \in {"rollback", "reset"}

\* The text holds "search_path", "rollback", "discard" or "reset".
NamesPath(k) == k \in {"setPath", "rollback", "reset"}

\* After the user's statement: a failure, or a text that names the path,
\* makes the cached path Unknown; pathMu_ is released.
AfterSql(t) ==
    /\ pc[t] = "sqlDone"
    /\ searchPath' = IF io[t] = "fail" \/ NamesPath(sql[t]) THEN Unknown ELSE searchPath
    /\ pathMu' = None
    /\ pc' = [pc EXCEPT ![t] = "done"]
    /\ io' = [io EXCEPT ![t] = "none"]
    /\ UNCHANGED <<ns, sql, mu, conn, ranIn>>
    /\ UNCHANGED serverVars

\* The call returns, its arguments and result leave the model.
Return(t) ==
    /\ pc[t] = "done"
    /\ pc' = [pc EXCEPT ![t] = "idle"]
    /\ ns' = [ns EXCEPT ![t] = Default]
    /\ sql' = [sql EXCEPT ![t] = "query"]
    /\ ranIn' = [ranIn EXCEPT ![t] = None]
    /\ UNCHANGED <<io, pathMu, mu, conn, searchPath>>
    /\ UNCHANGED serverVars

----------------------------------------------------------------------------
(* run: one round trip under mu_ *)

InRun(t) == pc[t] \in {"set", "sql", "catalog", "open"}

\* open() is finished once it has a connection; run() sends its statement.
AfterConnect(t) == IF pc[t] = "open" THEN "ok" ELSE "sent"

\* Mutant: run() does not take mu_.
RunOnConnUnlocked(t) ==
    /\ InRun(t)
    /\ io[t] = "none"
    /\ conn # "none"
    /\ mu' = t
    /\ io' = [io EXCEPT ![t] = AfterConnect(t)]
    /\ UNCHANGED <<pc, ns, sql, pathMu, conn, searchPath, ranIn>>
    /\ UNCHANGED serverVars

\* mu_ taken and a connection already there, broken or not: ensureConn returns.
RunOnConn(t) ==
    /\ InRun(t)
    /\ io[t] = "none"
    /\ mu = None
    /\ conn # "none"
    /\ mu' = t
    /\ io' = [io EXCEPT ![t] = AfterConnect(t)]
    /\ UNCHANGED <<pc, ns, sql, pathMu, conn, searchPath, ranIn>>
    /\ UNCHANGED serverVars

\* mu_ taken and ensureConn connects: a new session on the server default.
RunConnects(t) ==
    /\ InRun(t)
    /\ io[t] = "none"
    /\ mu = None
    /\ conn = "none"
    /\ mu' = t
    /\ conn' = "up"
    /\ searchPath' = Default
    /\ path' = Default
    /\ base' = None
    /\ txn' = "idle"
    /\ io' = [io EXCEPT ![t] = AfterConnect(t)]
    /\ UNCHANGED <<pc, ns, sql, pathMu, ranIn>>

\* mu_ taken and ensureConn throws: the round trip fails, nothing is sent.
RunConnectFails(t) ==
    /\ InRun(t)
    /\ io[t] = "none"
    /\ mu = None
    /\ conn = "none"
    /\ mu' = t
    /\ io' = [io EXCEPT ![t] = "fail"]
    /\ UNCHANGED <<pc, ns, sql, pathMu, conn, searchPath, ranIn>>
    /\ UNCHANGED serverVars

\* PQgetResult returned the last result: run() returns and releases mu_.
RunEnd(t) ==
    /\ InRun(t)
    /\ io[t] \in {"ok", "fail"}
    /\ mu' = None
    /\ pc' = [pc EXCEPT ![t] = IF @ = "set" THEN "setDone"
                               ELSE IF @ = "sql" THEN "sqlDone" ELSE "done"]
    /\ io' = IF pc[t] \in {"set", "sql"} THEN io ELSE [io EXCEPT ![t] = "none"]
    /\ UNCHANGED <<ns, sql, pathMu, conn, searchPath, ranIn>>
    /\ UNCHANGED serverVars

----------------------------------------------------------------------------
(* The server (external) *)

Sent(t) == io[t] = "sent" /\ conn = "up"

EndsBlock(k) == k \in {"commit", "rollback", "abort"}

\* What a statement of kind k does to the session when it succeeds.
SqlEffect(k) ==
    \/ /\ k = "query"
       /\ UNCHANGED serverVars
    \/ /\ k = "begin"
       /\ txn' = "active"
       /\ base' = IF txn = "idle" THEN path ELSE base
       /\ UNCHANGED path
    \/ /\ k = "commit"
       /\ txn' = "idle"
       /\ base' = None
       /\ UNCHANGED path
    \/ /\ k \in {"rollback", "abort"}
       /\ txn' = "idle"
       /\ path' = IF txn = "active" THEN base ELSE path
       /\ base' = None
    \/ /\ k \in {"setPath", "setSchema"}
       /\ path' \in Paths
       /\ UNCHANGED <<base, txn>>
    \/ /\ k = "reset"
       /\ path' = Default
       /\ UNCHANGED <<base, txn>>

\* The user's statement succeeds.  An aborted transaction block accepts only
\* the statements that end it; COMMIT then reports success and rolls back.
UserSqlSucceeds(t) ==
    /\ Sent(t)
    /\ pc[t] = "sql"
    /\ txn # "failed" \/ EndsBlock(sql[t])
    /\ SqlEffect(sql[t])
    /\ ranIn' = [ranIn EXCEPT ![t] = path]
    /\ io' = [io EXCEPT ![t] = "ok"]
    /\ UNCHANGED <<pc, ns, sql, pathMu, mu, conn, searchPath>>

\* What an error does to the transaction block: the block is aborted and the
\* settings made in it are undone; a COMMIT that fails ends the block.
AbortBlock(k) ==
    /\ txn' = IF txn = "active" /\ k # "commit" THEN "failed"
              ELSE IF k = "commit" THEN "idle" ELSE txn
    /\ path' = IF txn = "active" THEN base ELSE path
    /\ base' = None

\* The user's statement fails: an error in it, or a cancel() by the host.
UserSqlFails(t) ==
    /\ Sent(t)
    /\ pc[t] = "sql"
    /\ txn = "failed" => ~EndsBlock(sql[t])
    /\ sql[t] \notin {"rollback", "abort"}
    /\ AbortBlock(sql[t])
    /\ ranIn' = [ranIn EXCEPT ![t] = IF txn = "failed" THEN @ ELSE path]
    /\ io' = [io EXCEPT ![t] = "fail"]
    /\ UNCHANGED <<pc, ns, sql, pathMu, mu, conn, searchPath>>

\* SET search_path TO schema, or RESET search_path.
SetSucceeds(t) ==
    /\ Sent(t)
    /\ pc[t] = "set"
    /\ txn # "failed"
    /\ path' = ns[t]
    /\ io' = [io EXCEPT ![t] = "ok"]
    /\ UNCHANGED <<pc, ns, sql, pathMu, mu, conn, searchPath, base, txn, ranIn>>

SetFails(t) ==
    /\ Sent(t)
    /\ pc[t] = "set"
    /\ txn = "failed" \/ "set" \in QuietFailures
    /\ AbortBlock("set")
    /\ io' = [io EXCEPT ![t] = "fail"]
    /\ UNCHANGED <<pc, ns, sql, pathMu, mu, conn, searchPath, ranIn>>

\* A catalog query, current_schema() included, reads and changes nothing.
CatalogSucceeds(t) ==
    /\ Sent(t)
    /\ pc[t] = "catalog"
    /\ txn # "failed"
    /\ io' = [io EXCEPT ![t] = "ok"]
    /\ UNCHANGED <<pc, ns, sql, pathMu, mu, conn, searchPath, ranIn>>
    /\ UNCHANGED serverVars

CatalogFails(t) ==
    /\ Sent(t)
    /\ pc[t] = "catalog"
    /\ txn = "failed" \/ "catalog" \in QuietFailures
    /\ AbortBlock("catalog")
    /\ io' = [io EXCEPT ![t] = "fail"]
    /\ UNCHANGED <<pc, ns, sql, pathMu, mu, conn, searchPath, ranIn>>

\* A round trip on a lost connection.
LostFails(t) ==
    /\ io[t] = "sent"
    /\ conn = "broken"
    /\ io' = [io EXCEPT ![t] = "fail"]
    /\ UNCHANGED <<pc, ns, sql, pathMu, mu, conn, searchPath, ranIn>>
    /\ UNCHANGED serverVars

\* The server goes away; nothing ever replaces conn_.
ConnectionLost ==
    /\ conn = "up"
    /\ conn' = "broken"
    /\ UNCHANGED <<pc, io, ns, sql, pathMu, mu, searchPath, ranIn>>
    /\ UNCHANGED serverVars

----------------------------------------------------------------------------
Server(t) ==
    \/ UserSqlSucceeds(t)
    \/ UserSqlFails(t)
    \/ SetSucceeds(t)
    \/ SetFails(t)
    \/ CatalogSucceeds(t)
    \/ CatalogFails(t)
    \/ LostFails(t)

Client(t) ==
    \/ LockPath(t)
    \/ AfterSet(t)
    \/ AfterSql(t)
    \/ Return(t)
    \/ RunOnConn(t)
    \/ RunConnects(t)
    \/ RunConnectFails(t)
    \/ RunEnd(t)

Host(t) ==
    \/ \E s \in Paths, k \in Kinds : Execute(t, s, k)
    \/ Describe(t)
    \/ Open(t)

Next ==
    \/ \E t \in Threads : Host(t) \/ Client(t) \/ Server(t)
    \/ ConnectionLost

Spec == Init /\ [][Next]_vars

\* A thread inside the library keeps running and the server answers every
\* round trip it received.  Mutexes are not assumed to be fair.
FairSpec == Spec /\ \A t \in Threads : WF_vars(Client(t)) /\ WF_vars(Server(t))

\* A host that reacts to an aborted transaction the documented way: it keeps
\* sending ROLLBACK through the handle whose statement failed or any other.
RollbackFairSpec ==
    /\ FairSpec
    /\ \A t \in Threads : SF_vars(\E s \in Paths : Execute(t, s, "rollback"))

----------------------------------------------------------------------------
(* Properties *)

\* A round trip of executeIn is over and searchPath_ does not record it yet.
Recording == \E t \in Threads :
    pc[t] \in {"set", "setDone", "sql", "sqlDone"} /\ io[t] \in {"ok", "fail"}

\* A cached path other than Unknown is the one in force on the server, except
\* between a round trip of executeIn and the assignment that records it.
PathCacheSound ==
    conn = "up" /\ ~Recording /\ searchPath # Unknown => searchPath = path

\* An unqualified query passed to a handle resolves its names in that handle's
\* schema or is not run: "schema handles switch search_path only when needed
\* and database-level queries reset it".
RunsInOwnSchema ==
    \A t \in Threads :
        sql[t] = "query" => ranIn[t] \in {None, ns[t]}

\* The PGconn, which libpq lets one thread use at a time, never has two
\* statements on it, and only the holder of pathMu_ is inside executeIn.
OneStatementAtATime ==
    \A t, u \in Threads :
        /\ io[t] = "sent" /\ io[u] = "sent" => t = u
        /\ pc[t] \in {"set", "setDone", "sql", "sqlDone"} /\
           pc[u] \in {"set", "setDone", "sql", "sqlDone"} => t = u

\* Calls return: no lock is left held on any path, the failing ones included.
CallsReturn ==
    (\E t \in Threads : pc[t] # "idle") ~> (\E t \in Threads : pc[t] = "done")

\* A host can always get out of a failed transaction: the path is "unknown and
\* must be set again", and a ROLLBACK passed to execute() reaches the server.
RollbackEndsFailedBlock ==
    (txn = "failed" /\ conn = "up") ~> (txn # "failed" \/ conn # "up")

----------------------------------------------------------------------------
(* Refinement: an execute() call as NamespacedSession sees it *)

\* A call is refused when its SET failed or its statement never ran.
AbsStage(t) ==
    IF pc[t] \in {"set", "setDone"} /\ io[t] = "fail" THEN "refused"
    ELSE IF pc[t] \in {"path", "set", "setDone"} THEN "waiting"
    ELSE IF pc[t] \in {"sql", "sqlDone"} /\ io[t] \in {"none", "sent"} THEN "waiting"
    ELSE IF pc[t] \in {"sql", "sqlDone"} /\ ranIn[t] = None THEN "refused"
    ELSE IF pc[t] \in {"sql", "sqlDone"} THEN "ran"
    ELSE "idle"

Abs == INSTANCE NamespacedSession WITH
    Namespaces <- Paths,
    Nowhere <- None,
    stage <- [t \in Threads |-> AbsStage(t)],
    want <- [t \in Threads |-> IF AbsStage(t) = "idle" THEN None ELSE ns[t]],
    ranIn <- [t \in Threads |-> IF AbsStage(t) = "idle" THEN None ELSE ranIn[t]]

\* Whatever the interleaving of the handles on one connection, each of their
\* calls behaves as a call of NamespacedSession.
ImplementsNamespacedSession == Abs!Spec
=============================================================================

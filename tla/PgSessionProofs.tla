-------------------------- MODULE PgSessionProofs --------------------------
(***************************************************************************)
(* Proofs about PgSession, for any number of threads and schemas.          *)
(*                                                                         *)
(* PathCacheSound and RunsInOwnSchema need a host whose statements         *)
(* executeIn can follow (Tracked below): after an ABORT, a SET SCHEMA or   *)
(* an unseen failure in a transaction block the cached path may be wrong.  *)
(* The invariant is strengthened with who holds which mutex in which stage *)
(* (Locking), what is known while there is no connection (NoConnection),   *)
(* what a transaction block implies (Blocks), and what executeIn knows of  *)
(* the path stage by stage (Path).                                         *)
(***************************************************************************)
EXTENDS PgSession, TLAPS

\* executeIn recognises every statement of the host that moves the path, and
\* a host that opens transaction blocks sees no failure executeIn ignores.
Tracked ==
    /\ Kinds \cap {"abort", "setSchema"} = {}
    /\ "begin" \in Kinds => QuietFailures = {}

InExecuteIn(t) == pc[t] \in {"set", "setDone", "sql", "sqlDone"}

Locking ==
    \A t \in Threads :
        /\ mu = t <=> InRun(t) /\ io[t] # "none"
        /\ pathMu = t <=> InExecuteIn(t)
        /\ pc[t] \in {"setDone", "sqlDone"} => io[t] \in {"ok", "fail"}
        /\ pc[t] \in {"idle", "path", "done"} => io[t] = "none"

\* The server remembers a path to restore exactly while a block is open.
SavedPath == txn = "active" <=> base # None

\* Statements come from the host, and only a BEGIN opens a block.
Blocks ==
    /\ \A t \in Threads : sql[t] \in Kinds \cup {"query"}
    /\ txn # "idle" => "begin" \in Kinds

NoConnection ==
    conn = "none" => searchPath \in {Default, Unknown}

\* A SET that succeeded, succeeded on a connection.
SetReached ==
    \A t \in Threads :
        pc[t] \in {"set", "setDone"} /\ io[t] = "ok" => conn # "none"

\* The round trip t has finished may have left searchPath_ behind the server.
Stale(t) ==
    \/ pc[t] \in {"set", "setDone"} /\ io[t] = "ok"
    \/ pc[t] \in {"sql", "sqlDone"} /\ io[t] = "fail"
    \/ pc[t] \in {"sql", "sqlDone"} /\ io[t] = "ok" /\ NamesPath(sql[t])

\* No finished round trip is unrecorded: a known path is the server's.
CacheAgrees ==
    conn = "up" /\ searchPath # Unknown /\ (\A t \in Threads : ~Stale(t))
        => searchPath = path

\* A SET that succeeded put the server on the caller's schema.
SetApplied ==
    \A t \in Threads :
        pc[t] \in {"set", "setDone"} /\ io[t] = "ok" /\ conn = "up" => path = ns[t]

\* The user's statement is sent only once the cached path is the caller's.
OwnPath == \A t \in Threads : pc[t] \in {"sql", "sqlDone"} => searchPath = ns[t]

\* A statement that ran, ran on the caller's path.
RanOwn ==
    \A t \in Threads :
        /\ ranIn[t] \in {None, ns[t]}
        /\ pc[t] \in {"sql", "sqlDone", "done"} \/ ranIn[t] = None
        /\ pc[t] = "sql" /\ io[t] \in {"none", "sent"} => ranIn[t] = None

Path == CacheAgrees /\ SetApplied /\ OwnPath /\ RanOwn

IInv == /\ TypeOK /\ SavedPath /\ Locking /\ Blocks
        /\ NoConnection /\ SetReached /\ Path

----------------------------------------------------------------------------
\* The state keeps its types in every behaviour, whatever the host sends.
THEOREM TypeCorrect == Spec => [](TypeOK /\ SavedPath)
<1> USE NameAssumption, KindAssumption DEF TypeOK, SavedPath, Paths
<1>1. Init => TypeOK /\ SavedPath
  BY DEF Init, Stages, AllKinds
<1>2. TypeOK /\ SavedPath /\ [Next]_vars => (TypeOK /\ SavedPath)'
  <2> SUFFICES ASSUME TypeOK, SavedPath, [Next]_vars
               PROVE  (TypeOK /\ SavedPath)'
    OBVIOUS
  <2> USE DEF Stages, AllKinds, serverVars
  <2>1. ASSUME NEW t \in Threads, Host(t)
        PROVE  (TypeOK /\ SavedPath)'
    BY <2>1 DEF Host, Execute, Describe, Open
  <2>2. ASSUME NEW t \in Threads, LockPath(t) \/ AfterSet(t) \/ AfterSql(t) \/ Return(t)
        PROVE  (TypeOK /\ SavedPath)'
    BY <2>2 DEF LockPath, AfterSet, AfterSql, Return
  <2>3. ASSUME NEW t \in Threads, RunOnConn(t) \/ RunConnects(t) \/ RunConnectFails(t)
        PROVE  (TypeOK /\ SavedPath)'
    BY <2>3 DEF RunOnConn, RunConnects, RunConnectFails, AfterConnect
  <2>4. ASSUME NEW t \in Threads, RunEnd(t)
        PROVE  (TypeOK /\ SavedPath)'
    BY <2>4 DEF RunEnd, InRun
  <2>5. ASSUME NEW t \in Threads, UserSqlSucceeds(t)
        PROVE  (TypeOK /\ SavedPath)'
    BY <2>5 DEF UserSqlSucceeds, SqlEffect, EndsBlock
  <2>6. ASSUME NEW t \in Threads,
               UserSqlFails(t) \/ SetFails(t) \/ CatalogFails(t)
        PROVE  (TypeOK /\ SavedPath)'
    BY <2>6 DEF UserSqlFails, SetFails, CatalogFails, AbortBlock
  <2>7. ASSUME NEW t \in Threads,
               SetSucceeds(t) \/ CatalogSucceeds(t) \/ LostFails(t)
        PROVE  (TypeOK /\ SavedPath)'
    BY <2>7 DEF SetSucceeds, CatalogSucceeds, LostFails
  <2>8. CASE ConnectionLost
    BY <2>8 DEF ConnectionLost
  <2>9. CASE UNCHANGED vars
    BY <2>9 DEF vars
  <2>10. QED
    BY <2>1, <2>2, <2>3, <2>4, <2>5, <2>6, <2>7, <2>8, <2>9 DEF Next, Client, Server
<1>3. QED
  BY <1>1, <1>2, PTL DEF Spec

----------------------------------------------------------------------------
\* mu_ and pathMu_ are held exactly in the stages the code holds them in.
THEOREM LocksCorrect == Spec => []Locking
<1> USE NameAssumption DEF Locking, InRun, InExecuteIn
<1>1. Init => Locking
  <2> SUFFICES ASSUME Init, NEW t \in Threads
               PROVE  /\ pc[t] = "idle" /\ io[t] = "none"
                      /\ mu # t /\ pathMu # t
    OBVIOUS
  <2>1. QED
    BY DEF Init
<1>2. TypeOK /\ Locking /\ [Next]_vars => Locking'
  <2> SUFFICES ASSUME TypeOK, Locking, [Next]_vars
               PROVE  Locking'
    OBVIOUS
  <2> USE DEF TypeOK
  <2>1. ASSUME NEW t \in Threads, Host(t)
        PROVE  Locking'
    BY <2>1 DEF Host, Execute, Describe, Open
  <2>2. ASSUME NEW t \in Threads, LockPath(t)
        PROVE  Locking'
    BY <2>2 DEF LockPath
  <2>3. ASSUME NEW t \in Threads, AfterSet(t)
        PROVE  Locking'
    BY <2>3 DEF AfterSet
  <2>4. ASSUME NEW t \in Threads, AfterSql(t)
        PROVE  Locking'
    BY <2>4 DEF AfterSql
  <2>5. ASSUME NEW t \in Threads, Return(t)
        PROVE  Locking'
    BY <2>5 DEF Return
  <2>6. ASSUME NEW t \in Threads, RunOnConn(t) \/ RunConnects(t) \/ RunConnectFails(t)
        PROVE  Locking'
    BY <2>6 DEF RunOnConn, RunConnects, RunConnectFails, AfterConnect
  <2>7. ASSUME NEW t \in Threads, RunEnd(t)
        PROVE  Locking'
    BY <2>7 DEF RunEnd
  <2>8. ASSUME NEW t \in Threads, Server(t)
        PROVE  Locking'
    <3>1. /\ io[t] = "sent"
          /\ io' = [io EXCEPT ![t] = "ok"] \/ io' = [io EXCEPT ![t] = "fail"]
          /\ UNCHANGED <<pc, mu, pathMu>>
      BY <2>8 DEF Server, Sent, UserSqlSucceeds, UserSqlFails, SetSucceeds, SetFails,
                  CatalogSucceeds, CatalogFails, LostFails
    <3>2. QED
      BY <3>1
  <2>9. CASE ConnectionLost
    BY <2>9 DEF ConnectionLost
  <2>10. CASE UNCHANGED vars
    BY <2>10 DEF vars
  <2>11. QED
    BY <2>1, <2>2, <2>3, <2>4, <2>5, <2>6, <2>7, <2>8, <2>9, <2>10 DEF Next, Client
<1>3. QED
  BY <1>1, <1>2, TypeCorrect, PTL DEF Spec

\* Two threads never have a statement on the PGconn, nor are two in executeIn.
THEOREM OneStatement == Spec => []OneStatementAtATime
<1>1. TypeOK /\ Locking => OneStatementAtATime
  <2> SUFFICES ASSUME TypeOK, Locking, NEW t \in Threads, NEW u \in Threads
               PROVE  /\ io[t] = "sent" /\ io[u] = "sent" => t = u
                      /\ InExecuteIn(t) /\ InExecuteIn(u) => t = u
    BY DEF OneStatementAtATime, InExecuteIn
  <2>1. \A x \in Threads : io[x] = "sent" => mu = x
    BY DEF TypeOK, Locking, InRun, Stages
  <2>2. \A x \in Threads : InExecuteIn(x) => pathMu = x
    BY DEF Locking
  <2>3. QED
    BY <2>1, <2>2
<1>2. QED
  BY <1>1, TypeCorrect, LocksCorrect, PTL

----------------------------------------------------------------------------
\* Statements come from the host and only BEGIN opens a block.
THEOREM BlocksCorrect == Spec => []Blocks
<1> USE KindAssumption DEF Blocks
<1>1. Init => Blocks
  BY DEF Init
<1>2. TypeOK /\ Blocks /\ [Next]_vars => Blocks'
  <2> SUFFICES ASSUME TypeOK, Blocks, [Next]_vars
               PROVE  Blocks'
    OBVIOUS
  <2> USE DEF TypeOK, serverVars
  <2>1. ASSUME NEW t \in Threads, Host(t)
        PROVE  Blocks'
    BY <2>1 DEF Host, Execute, Describe, Open
  <2>2. ASSUME NEW t \in Threads, Client(t)
        PROVE  Blocks'
    BY <2>2 DEF Client, LockPath, AfterSet, AfterSql, Return, RunOnConn, RunConnects,
                RunConnectFails, RunEnd
  <2>3. ASSUME NEW t \in Threads, UserSqlSucceeds(t)
        PROVE  Blocks'
    BY <2>3 DEF UserSqlSucceeds, SqlEffect
  <2>4. ASSUME NEW t \in Threads, UserSqlFails(t) \/ SetFails(t) \/ CatalogFails(t)
        PROVE  Blocks'
    BY <2>4 DEF UserSqlFails, SetFails, CatalogFails, AbortBlock
  <2>5. ASSUME NEW t \in Threads, SetSucceeds(t) \/ CatalogSucceeds(t) \/ LostFails(t)
        PROVE  Blocks'
    BY <2>5 DEF SetSucceeds, CatalogSucceeds, LostFails
  <2>6. CASE ConnectionLost \/ UNCHANGED vars
    BY <2>6 DEF ConnectionLost, vars
  <2>7. QED
    BY <2>1, <2>2, <2>3, <2>4, <2>5, <2>6 DEF Next, Server
<1>3. QED
  BY <1>1, <1>2, TypeCorrect, PTL DEF Spec

\* While there is no connection no schema is recorded in searchPath_.
THEOREM NoConnectionCorrect == Spec => [](NoConnection /\ SetReached)
<1> USE NameAssumption DEF NoConnection, SetReached
<1>1. Init => NoConnection /\ SetReached
  BY DEF Init
<1>2. TypeOK /\ Locking /\ NoConnection /\ SetReached /\ [Next]_vars
          => (NoConnection /\ SetReached)'
  <2> SUFFICES ASSUME TypeOK, Locking, NoConnection, SetReached, [Next]_vars
               PROVE  (NoConnection /\ SetReached)'
    OBVIOUS
  <2> USE DEF TypeOK
  <2>1. ASSUME NEW t \in Threads, Host(t)
        PROVE  (NoConnection /\ SetReached)'
    BY <2>1 DEF Host, Execute, Describe, Open, Locking
  <2>2. ASSUME NEW t \in Threads, LockPath(t) \/ AfterSet(t) \/ AfterSql(t) \/ Return(t)
        PROVE  (NoConnection /\ SetReached)'
    BY <2>2 DEF LockPath, AfterSet, AfterSql, Return, Locking
  <2>3. ASSUME NEW t \in Threads, RunOnConn(t) \/ RunConnects(t) \/ RunConnectFails(t)
        PROVE  (NoConnection /\ SetReached)'
    BY <2>3 DEF RunOnConn, RunConnects, RunConnectFails, AfterConnect, InRun
  <2>4. ASSUME NEW t \in Threads, RunEnd(t)
        PROVE  (NoConnection /\ SetReached)'
    BY <2>4 DEF RunEnd
  <2>5. ASSUME NEW t \in Threads, Server(t)
        PROVE  (NoConnection /\ SetReached)'
    <3>1. /\ io[t] = "sent"
          /\ io' = [io EXCEPT ![t] = "ok"] \/ io' = [io EXCEPT ![t] = "fail"]
          /\ conn # "none"
          /\ UNCHANGED <<pc, conn, searchPath>>
      BY <2>5 DEF Server, Sent, UserSqlSucceeds, UserSqlFails, SetSucceeds, SetFails,
                  CatalogSucceeds, CatalogFails, LostFails
    <3>2. QED
      BY <3>1
  <2>6. CASE ConnectionLost \/ UNCHANGED vars
    BY <2>6 DEF ConnectionLost, vars
  <2>7. QED
    BY <2>1, <2>2, <2>3, <2>4, <2>5, <2>6 DEF Next, Client
<1>3. QED
  BY <1>1, <1>2, TypeCorrect, LocksCorrect, PTL DEF Spec

----------------------------------------------------------------------------
\* One step of a host executeIn can follow keeps what it knows of the path.
LEMMA PathStep ==
  ASSUME Tracked, IInv, [Next]_vars
  PROVE  Path'
<1> USE NameAssumption DEF IInv, Path, TypeOK, Paths
<1>own. \A t, u \in Threads : InExecuteIn(t) /\ InExecuteIn(u) => t = u
  BY DEF Locking
<1>1. ASSUME NEW t \in Threads, Host(t)
      PROVE  Path'
  BY <1>1 DEF Host, Execute, Describe, Open, CacheAgrees, SetApplied, OwnPath, RanOwn,
              Stale, Locking, serverVars, NamesPath
<1>2. ASSUME NEW t \in Threads, LockPath(t)
      PROVE  Path'
  BY <1>2 DEF LockPath, CacheAgrees, SetApplied, OwnPath, RanOwn, Stale, Locking,
              serverVars, NamesPath
<1>3. ASSUME NEW t \in Threads, AfterSet(t)
      PROVE  Path'
  BY <1>3, <1>own DEF AfterSet, CacheAgrees, SetApplied, OwnPath, RanOwn, Stale, Locking,
              serverVars, NamesPath, InExecuteIn
<1>4. ASSUME NEW t \in Threads, AfterSql(t)
      PROVE  Path'
  BY <1>4, <1>own DEF AfterSql, CacheAgrees, SetApplied, OwnPath, RanOwn, Stale, Locking,
              serverVars, NamesPath, InExecuteIn
<1>5. ASSUME NEW t \in Threads, Return(t)
      PROVE  Path'
  BY <1>5 DEF Return, CacheAgrees, SetApplied, OwnPath, RanOwn, Stale, Locking,
              serverVars, NamesPath
<1>6. ASSUME NEW t \in Threads, RunOnConn(t) \/ RunConnectFails(t)
      PROVE  Path'
  BY <1>6 DEF RunOnConn, RunConnectFails, AfterConnect, InRun, CacheAgrees, SetApplied,
              OwnPath, RanOwn, Stale, serverVars, NamesPath
<1>7. ASSUME NEW t \in Threads, RunConnects(t)
      PROVE  Path'
  BY <1>7 DEF RunConnects, AfterConnect, InRun, CacheAgrees, SetApplied, OwnPath, RanOwn,
              Stale, NamesPath, NoConnection, SetReached
<1>8. ASSUME NEW t \in Threads, RunEnd(t)
      PROVE  Path'
  BY <1>8 DEF RunEnd, InRun, CacheAgrees, SetApplied, OwnPath, RanOwn, Stale, Locking,
              serverVars, NamesPath
<1>9. ASSUME NEW t \in Threads, UserSqlSucceeds(t)
      PROVE  Path'
  <2>1. path = ns[t]
    BY <1>9, <1>own DEF UserSqlSucceeds, Sent, CacheAgrees, OwnPath, Stale, InExecuteIn
  <2>2. sql[t] \notin {"abort", "setSchema"}
    BY DEF Tracked, Blocks
  <2>3. NamesPath(sql[t]) \/ UNCHANGED path
    BY <1>9, <2>2 DEF UserSqlSucceeds, SqlEffect, NamesPath, serverVars
  <2>4. QED
    BY <1>9, <1>own, <2>1, <2>3 DEF UserSqlSucceeds, Sent, CacheAgrees, SetApplied,
              OwnPath, RanOwn, Stale, InExecuteIn
<1>10. ASSUME NEW t \in Threads, UserSqlFails(t)
       PROVE  Path'
  <2>1. path = ns[t]
    BY <1>10, <1>own DEF UserSqlFails, Sent, CacheAgrees, OwnPath, Stale, InExecuteIn
  <2>2. QED
    BY <1>10, <1>own, <2>1 DEF UserSqlFails, Sent, CacheAgrees, SetApplied, OwnPath,
              RanOwn, Stale, InExecuteIn, NamesPath
<1>11. ASSUME NEW t \in Threads, SetSucceeds(t)
       PROVE  Path'
  BY <1>11, <1>own DEF SetSucceeds, Sent, CacheAgrees, SetApplied, OwnPath, RanOwn, Stale,
              InExecuteIn, NamesPath
<1>12. ASSUME NEW t \in Threads, SetFails(t) \/ CatalogFails(t)
       PROVE  Path'
  <2>1. txn # "active"
    BY <1>12 DEF SetFails, CatalogFails, Tracked, Blocks
  <2>2. UNCHANGED <<path, pc, ns, sql, searchPath, conn, ranIn>>
    BY <1>12, <2>1 DEF SetFails, CatalogFails, AbortBlock
  <2>3. io' = [io EXCEPT ![t] = "fail"] /\ pc[t] \in {"set", "catalog"}
    BY <1>12 DEF SetFails, CatalogFails
  <2>4. QED
    BY <1>12, <2>2, <2>3 DEF SetFails, CatalogFails, Sent, CacheAgrees, SetApplied,
              OwnPath, RanOwn, Stale, NamesPath
<1>13. ASSUME NEW t \in Threads, CatalogSucceeds(t) \/ LostFails(t)
       PROVE  Path'
  BY <1>13 DEF CatalogSucceeds, LostFails, CacheAgrees, SetApplied, OwnPath, RanOwn, Stale,
              NamesPath, serverVars, Sent
<1>14. CASE ConnectionLost \/ UNCHANGED vars
  BY <1>14 DEF ConnectionLost, vars, CacheAgrees, SetApplied, OwnPath, RanOwn, Stale,
              NamesPath, serverVars
<1>15. QED
  BY <1>1, <1>2, <1>3, <1>4, <1>5, <1>6, <1>7, <1>8, <1>9, <1>10, <1>11, <1>12, <1>13,
     <1>14 DEF Next, Client, Server

\* The inductive invariant holds in every behaviour of a host executeIn can follow.
THEOREM IInvCorrect == Tracked => (Spec => []IInv)
<1> SUFFICES ASSUME Tracked PROVE Spec => []IInv
  OBVIOUS
<1>1. Init => Path
  BY NameAssumption DEF Init, Path, CacheAgrees, SetApplied, OwnPath, RanOwn
<1>2. IInv /\ [Next]_vars => Path'
  BY PathStep
<1>3. IInv <=> TypeOK /\ SavedPath /\ Locking /\ Blocks /\ NoConnection /\ SetReached /\ Path
  BY DEF IInv
<1>4. QED
  BY <1>1, <1>2, <1>3, TypeCorrect, LocksCorrect, BlocksCorrect, NoConnectionCorrect, PTL
  DEF Spec

\* The cached search_path is never wrong: for a host executeIn can follow, a
\* path it knows is the one in force on the server.
THEOREM PathCacheCorrect == Tracked => (Spec => []PathCacheSound)
<1>1. IInv => PathCacheSound
  <2> SUFFICES ASSUME IInv, conn = "up", ~Recording, searchPath # Unknown
               PROVE  searchPath = path
    BY DEF PathCacheSound
  <2>1. \A t \in Threads : ~Stale(t)
    BY DEF Recording, Stale
  <2>2. QED
    BY <2>1 DEF IInv, Path, CacheAgrees
<1>2. QED
  BY <1>1, IInvCorrect, PTL

\* An unqualified query resolves in the schema of the handle it was given to.
THEOREM OwnSchemaCorrect == Tracked => (Spec => []RunsInOwnSchema)
<1>1. IInv => RunsInOwnSchema
  BY DEF IInv, Path, RanOwn, RunsInOwnSchema
<1>2. QED
  BY <1>1, IInvCorrect, PTL

----------------------------------------------------------------------------
(* PgSession implements NamespacedSession *)

\* Every step of the session is a step of NamespacedSession or leaves its
\* variables unchanged.
LEMMA AbsStep ==
  ASSUME Tracked, IInv, [Next]_vars
  PROVE  [Abs!Next]_(Abs!vars)
<1> USE NameAssumption DEF IInv, TypeOK
<1>own. \A t, u \in Threads : InExecuteIn(t) /\ InExecuteIn(u) => t = u
  BY DEF Locking
<1> DEFINE Same(t) == /\ AbsStage(t)' = AbsStage(t)
                      /\ AbsStage(t) # "idle" => ns'[t] = ns[t] /\ ranIn'[t] = ranIn[t]
<1>same. ASSUME \A t \in Threads : Same(t)
         PROVE  UNCHANGED Abs!vars
  BY <1>same DEF Abs!vars, AbsStage
<1>1. ASSUME NEW t \in Threads, NEW s \in Paths, NEW k \in Kinds, Execute(t, s, k)
      PROVE  Abs!Invoke(t, s)
  BY <1>1 DEF Execute, Abs!Invoke, AbsStage, Locking, Path, RanOwn
<1>2. ASSUME NEW t \in Threads, UserSqlSucceeds(t) \/ UserSqlFails(t)
      PROVE  Abs!Run(t) \/ Abs!Refuse(t)
  <2>1. path = ns[t] /\ ranIn[t] = None /\ path # None
    BY <1>2, <1>own DEF UserSqlSucceeds, UserSqlFails, Sent, Path, CacheAgrees, OwnPath,
                        RanOwn, Stale, InExecuteIn, Paths
  <2>2. CASE ranIn' = [ranIn EXCEPT ![t] = path]
    BY <1>2, <2>1, <2>2 DEF UserSqlSucceeds, UserSqlFails, Sent, Abs!Run, AbsStage
  <2>3. CASE ranIn' = ranIn
    BY <1>2, <2>1, <2>3 DEF UserSqlSucceeds, UserSqlFails, Sent, Abs!Refuse, AbsStage
  <2>4. QED
    BY <1>2, <2>1, <2>2, <2>3 DEF UserSqlSucceeds, UserSqlFails
<1>3. ASSUME NEW t \in Threads, SetFails(t)
      PROVE  Abs!Refuse(t)
  BY <1>3 DEF SetFails, Sent, Abs!Refuse, AbsStage
<1>4. ASSUME NEW t \in Threads, LostFails(t) \/ RunConnectFails(t),
             pc[t] \in {"set", "sql"}
      PROVE  Abs!Refuse(t)
  <2>1. /\ io[t] \in {"none", "sent"} /\ io' = [io EXCEPT ![t] = "fail"]
        /\ UNCHANGED <<pc, ns, ranIn>>
    BY <1>4 DEF LostFails, RunConnectFails
  <2>2. ranIn[t] = None
    BY <1>4, <2>1 DEF Path, RanOwn
  <2>3. QED
    BY <1>4, <2>1, <2>2 DEF Abs!Refuse, AbsStage
<1>5. ASSUME NEW t \in Threads, LostFails(t) \/ RunConnectFails(t),
             pc[t] \notin {"set", "sql"}
      PROVE  \A u \in Threads : Same(u)
  BY <1>5 DEF LostFails, RunConnectFails, AbsStage, InRun, Locking
<1>6. ASSUME NEW t \in Threads, AfterSet(t), io[t] = "ok"
      PROVE  \A u \in Threads : Same(u)
  BY <1>6 DEF AfterSet, AbsStage
<1>7. ASSUME NEW t \in Threads, (AfterSet(t) /\ io[t] # "ok") \/ AfterSql(t)
      PROVE  Abs!Return(t)
  <2>1. /\ pc[t] \in {"setDone", "sqlDone"} /\ io[t] \in {"ok", "fail"}
        /\ pc[t] = "setDone" => io[t] = "fail"
        /\ pc' = [pc EXCEPT ![t] = "done"] /\ io' = [io EXCEPT ![t] = "none"]
        /\ UNCHANGED <<ns, ranIn>>
    BY <1>7 DEF AfterSet, AfterSql, Locking
  <2>2. QED
    BY <2>1 DEF Abs!Return, AbsStage
<1>8. ASSUME NEW t \in Threads,
             LockPath(t) \/ Return(t) \/ RunOnConn(t) \/ RunConnects(t) \/ RunEnd(t)
      PROVE  \A u \in Threads : Same(u)
  BY <1>8 DEF LockPath, Return, RunOnConn, RunConnects, RunEnd, InRun, AfterConnect,
              AbsStage, Locking
<1>9. ASSUME NEW t \in Threads, Describe(t) \/ Open(t)
      PROVE  \A u \in Threads : Same(u)
  BY <1>9 DEF Describe, Open, AbsStage
<1>10. ASSUME NEW t \in Threads, SetSucceeds(t) \/ CatalogSucceeds(t) \/ CatalogFails(t)
       PROVE  \A u \in Threads : Same(u)
  BY <1>10 DEF SetSucceeds, CatalogSucceeds, CatalogFails, AbsStage, Sent
<1>11. ASSUME ConnectionLost \/ UNCHANGED vars
       PROVE  \A u \in Threads : Same(u)
  BY <1>11 DEF ConnectionLost, vars, AbsStage
<1>12. ASSUME NEW t \in Threads, Host(t)
       PROVE  Abs!Next \/ UNCHANGED Abs!vars
  BY <1>1, <1>9, <1>same, <1>12 DEF Host, Abs!Next
<1>13. ASSUME NEW t \in Threads, Client(t)
       PROVE  Abs!Next \/ UNCHANGED Abs!vars
  <2>1. CASE \A u \in Threads : Same(u)
    BY <2>1, <1>same
  <2>2. CASE Abs!Refuse(t) \/ Abs!Return(t)
    BY <2>2 DEF Abs!Next
  <2>3. QED
    BY <1>4, <1>5, <1>6, <1>7, <1>8, <1>13, <2>1, <2>2 DEF Client
<1>14. ASSUME NEW t \in Threads, Server(t)
       PROVE  Abs!Next \/ UNCHANGED Abs!vars
  <2>1. CASE \A u \in Threads : Same(u)
    BY <2>1, <1>same
  <2>2. CASE Abs!Run(t) \/ Abs!Refuse(t)
    BY <2>2 DEF Abs!Next
  <2>3. QED
    BY <1>2, <1>3, <1>4, <1>5, <1>10, <1>14, <2>1, <2>2 DEF Server
<1>15. QED
  BY <1>11, <1>12, <1>13, <1>14, <1>same DEF Next

\* However handles interleave on one connection, the session behaves as
\* NamespacedSession: own schema or nowhere, at most once, success only if run.
THEOREM SessionRefines == Tracked => (Spec => ImplementsNamespacedSession)
<1> SUFFICES ASSUME Tracked PROVE Spec => ImplementsNamespacedSession
  OBVIOUS
<1>1. Init => Abs!Init
  BY DEF Init, Abs!Init, AbsStage
<1>2. IInv /\ [Next]_vars => [Abs!Next]_(Abs!vars)
  BY AbsStep
<1>3. QED
  BY <1>1, <1>2, IInvCorrect, PTL DEF Spec, ImplementsNamespacedSession, Abs!Spec
=============================================================================

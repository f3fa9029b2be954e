--------------------------- MODULE CassandraProofs ---------------------------
(***************************************************************************)
(* Proofs about CassandraSession, for any number of threads, keyspaces and *)
(* sessions, with or without a host that sends USE, drops keyspaces or     *)
(* meets a USE that fails.                                                 *)
(*                                                                         *)
(* SessionLifetime and ActiveKeyspaceSound are inductive once the types    *)
(* and the stages of a call (Calls: in particular, that only a catalog     *)
(* query has a reference) are known.  The refinement needs in addition     *)
(* that where no host disturbs the session every keyspace is there         *)
(* (Undisturbed), so that a USE cannot fail unnoticed.                     *)
(***************************************************************************)
EXTENDS CassandraSession, TLAPS

\* What a call has done at each of its stages.
Calls ==
    \A t \in Threads :
        /\ pc[t] \in {"idle", "close"} =>
            ks[t] = NoKeyspace /\ kind[t] = "query" /\ ranIn[t] = None /\ result[t] = "none"
        /\ pc[t] \in {"execute", "drop", "create"} => ranIn[t] = None /\ result[t] = "none"
        /\ pc[t] \in {"drop", "create"} => kind[t] = "admin"
        /\ pc[t] \in {"tables", "columns"} =>
            ranIn[t] = None /\ result[t] \in {"none", "ok", "partial"}
        /\ ref[t] # None => pc[t] \in {"tables", "columns"}

\* createDatabase() and dropDatabase() name a keyspace.
Named == \A t \in Threads : pc[t] \in {"drop", "create"} => ks[t] \in Keyspaces

\* Where nobody drops keyspaces or sends USE, every keyspace is there.
Undisturbed ==
    touched = "never" =>
        exists = Keyspaces /\ \A t \in Threads : pc[t] # "drop" /\ kind[t] # "use"

----------------------------------------------------------------------------
\* Types, which need that a createDatabase() names a keyspace.
LEMMA TypesCorrect == Spec => [](TypeOK /\ Named)
<1> USE CassandraAssumption DEF Stages
<1> DEFINE Inv == TypeOK /\ Named
<1>1. Init => Inv
  <2> SUFFICES ASSUME Init PROVE Inv
    OBVIOUS
  <2>1. open \in BOOLEAN
    BY Zenon DEF Init
  <2>2. QED
    BY <2>1 DEF Init, TypeOK, Named
<1>2. Inv /\ [Next]_vars => Inv'
  <2> SUFFICES ASSUME Inv, [Next]_vars PROVE Inv'
    OBVIOUS
  <2> USE DEF TypeOK, Named, Goto, Finish, calls
  <2>1. ASSUME NEW t \in Threads, Host(t) PROVE Inv'
    <3>1. ASSUME NEW k \in Keyspaces \cup {NoKeyspace}, NEW c \in {"query", "use"},
                 CallExecute(t, k, c)
          PROVE  Inv'
      BY <3>1 DEF CallExecute, Call
    <3>2. ASSUME NEW k \in Keyspaces, NEW p \in {"tables", "columns"}, CallCatalog(t, p, k)
          PROVE  Inv'
      BY <3>2 DEF CallCatalog, Call
    <3>3. ASSUME NEW k \in Droppable, CallDrop(t, k) \/ CallCreate(t, k) PROVE Inv'
      BY <3>3 DEF CallDrop, CallCreate, Call
    <3>4. ASSUME NEW k \in Keyspaces, Database(t, k) PROVE Inv'
      BY <3>4 DEF Database
    <3>5. QED
      BY <2>1, <3>1, <3>2, <3>3, <3>4 DEF Host
  <2>2. ASSUME NEW t \in Threads, Return(t) \/ NotConnected(t) PROVE Inv'
    BY <2>2 DEF Return, NotConnected
  <2>3. ASSUME NEW t \in Threads, Execute(t) PROVE Inv'
    <3>1. PICK c \in Keyspaces \cup {NoKeyspace} :
            SwitchKeyspace(ks[t], c) /\ RunStatement(t, c)
      BY <2>3 DEF Execute
    <3>2. activeKeyspace' \in Keyspaces \cup {NoKeyspace}
      BY <3>1 DEF SwitchKeyspace
    <3>3. /\ cur' \in [Sessions -> Keyspaces \cup {NoKeyspace}]
          /\ ranIn' \in [Threads -> Keyspaces \cup {NoKeyspace, None}]
          /\ touched' \in {"never", "no", "yes"}
          /\ \E r \in {"ok", "error"} : Finish(t, r)
      BY <3>1 DEF RunStatement
    <3>4. QED
      BY <2>3, <3>2, <3>3 DEF Execute
  <2>4. ASSUME NEW t \in Threads, DropDatabase(t) \/ CreateDatabase(t) PROVE Inv'
    BY <2>4 DEF DropDatabase, CreateDatabase
  <2>5. ASSUME NEW t \in Threads, TakeSession(t) \/ CatalogReply(t) \/ CatalogFails(t)
        PROVE  Inv'
    BY <2>5 DEF TakeSession, CatalogReply, CatalogFails, NextTable
  <2>6. ASSUME NEW t \in Threads, Open(t) PROVE Inv'
    <3>1. open' \in BOOLEAN
      BY <2>6, Zenon DEF Open
    <3>2. QED
      BY <2>6, <3>1 DEF Open
  <2>7. ASSUME NEW t \in Threads, CloseCache(t) \/ Close(t) PROVE Inv'
    <3>1. open' \in BOOLEAN
      BY <2>7, Zenon DEF CloseCache, Close
    <3>2. QED
      BY <2>7, <3>1 DEF CloseCache, Close
  <2>8. CASE UNCHANGED vars
    BY <2>8 DEF vars
  <2>9. QED
    BY <2>1, <2>2, <2>3, <2>4, <2>5, <2>6, <2>7, <2>8 DEF Next, Library
<1>3. QED
  BY <1>1, <1>2, PTL DEF Spec

\* Every variable keeps its type: no keyspace the host did not name is ever
\* created, selected or queried.
THEOREM TypeCorrect == Spec => []TypeOK
BY TypesCorrect, PTL

\* What a call has done is what its stage says, and only a catalog query has a
\* reference to a session.
LEMMA CallsCorrect == Spec => []Calls
<1> USE CassandraAssumption DEF Stages, Calls
<1>1. Init => Calls
  BY DEF Init
<1>2. TypeOK /\ Calls /\ [Next]_vars => Calls'
  <2> SUFFICES ASSUME TypeOK, Calls, [Next]_vars PROVE Calls'
    OBVIOUS
  <2> USE DEF TypeOK, Goto, Finish, calls
  <2>1. ASSUME NEW t \in Threads, Host(t) PROVE Calls'
    <3>1. ASSUME NEW k \in Keyspaces \cup {NoKeyspace}, NEW c \in {"query", "use"},
                 CallExecute(t, k, c)
          PROVE  Calls'
      BY <3>1 DEF CallExecute, Call
    <3>2. ASSUME NEW k \in Keyspaces, NEW p \in {"tables", "columns"}, CallCatalog(t, p, k)
          PROVE  Calls'
      BY <3>2 DEF CallCatalog, Call
    <3>3. ASSUME NEW k \in Droppable, CallDrop(t, k) \/ CallCreate(t, k) PROVE Calls'
      BY <3>3 DEF CallDrop, CallCreate, Call
    <3>4. ASSUME NEW k \in Keyspaces, Database(t, k) PROVE Calls'
      BY <3>4 DEF Database
    <3>5. QED
      BY <2>1, <3>1, <3>2, <3>3, <3>4 DEF Host
  <2>2. ASSUME NEW t \in Threads, Return(t) \/ NotConnected(t) PROVE Calls'
    BY <2>2 DEF Return, NotConnected
  <2>3. ASSUME NEW t \in Threads, Execute(t) PROVE Calls'
    <3>1. /\ pc[t] = "execute" /\ pc' = [pc EXCEPT ![t] = "done"]
          /\ \A u \in Threads \ {t} : ranIn'[u] = ranIn[u] /\ result'[u] = result[u]
          /\ UNCHANGED <<ks, kind, ref>>
      BY <2>3 DEF Execute, RunStatement
    <3>2. QED
      BY <3>1
  <2>4. ASSUME NEW t \in Threads, DropDatabase(t) \/ CreateDatabase(t) PROVE Calls'
    BY <2>4 DEF DropDatabase, CreateDatabase
  <2>5. ASSUME NEW t \in Threads, TakeSession(t) \/ CatalogReply(t) \/ CatalogFails(t)
        PROVE  Calls'
    BY <2>5 DEF TakeSession, CatalogReply, CatalogFails, NextTable
  <2>6. ASSUME NEW t \in Threads, Open(t) \/ CloseCache(t) \/ Close(t) PROVE Calls'
    BY <2>6 DEF Open, CloseCache, Close
  <2>7. CASE UNCHANGED vars
    BY <2>7 DEF vars
  <2>8. QED
    BY <2>1, <2>2, <2>3, <2>4, <2>5, <2>6, <2>7 DEF Next, Library
<1>3. QED
  BY <1>1, <1>2, TypeCorrect, PTL DEF Spec

----------------------------------------------------------------------------
\* A catalog query's session outlives any open() and close() of other threads,
\* and no session outlives its last user: the sessions alive are exactly the
\* referenced ones.
THEOREM LifetimeCorrect == Spec => []SessionLifetime
<1> USE CassandraAssumption DEF SessionLifetime, Referenced
<1>1. Init => SessionLifetime
  BY DEF Init
<1>2. TypeOK /\ Calls /\ SessionLifetime /\ [Next]_vars => SessionLifetime'
  <2> SUFFICES ASSUME TypeOK, Calls, SessionLifetime, [Next]_vars PROVE SessionLifetime'
    OBVIOUS
  <2> USE DEF TypeOK
  <2>1. CASE UNCHANGED <<state, ref, live>>
    BY <2>1
  <2>2. ASSUME NEW t \in Threads, Host(t) PROVE UNCHANGED <<state, ref, live>>
    BY <2>2 DEF Host, CallExecute, CallCatalog, CallDrop, CallCreate, Database, Call
  <2>3. ASSUME NEW t \in Threads,
               \/ Return(t) \/ NotConnected(t) \/ Execute(t)
               \/ DropDatabase(t) \/ CreateDatabase(t) \/ CloseCache(t)
        PROVE  UNCHANGED <<state, ref, live>>
    BY <2>3 DEF Return, NotConnected, Execute, DropDatabase, CreateDatabase, CloseCache
  <2>4. ASSUME NEW t \in Threads, TakeSession(t) PROVE SessionLifetime'
    BY <2>4 DEF TakeSession
  <2>5. ASSUME NEW t \in Threads, CatalogReply(t) \/ CatalogFails(t) PROVE SessionLifetime'
    <3>1. /\ ref' = [ref EXCEPT ![t] = None]
          /\ live' = live \cap ({state} \cup {ref'[u] : u \in Threads})
          /\ UNCHANGED state
      BY <2>5 DEF CatalogReply, CatalogFails
    <3>2. \A u \in Threads : ref'[u] # None => u # t /\ ref'[u] = ref[u]
      BY <3>1
    <3>3. live' = {s \in Sessions : s \in {state'} \cup {ref'[u] : u \in Threads}}
      BY <3>1, <3>2
    <3>4. QED
      BY <3>1, <3>2, <3>3
  <2>6. ASSUME NEW t \in Threads, Close(t) PROVE SessionLifetime'
    BY <2>6 DEF Close
  <2>7. ASSUME NEW t \in Threads, Open(t) PROVE SessionLifetime'
    BY <2>7 DEF Open
  <2>8. QED
    BY <2>1, <2>2, <2>3, <2>4, <2>5, <2>6, <2>7 DEF Next, Library, vars
<1>3. QED
  BY <1>1, <1>2, TypeCorrect, CallsCorrect, PTL DEF Spec

----------------------------------------------------------------------------
\* activeKeyspace_ is where the session is, until the host sends USE itself: a
\* failed USE, a dropped keyspace, close() and reopen keep the two together.
THEOREM ActiveKeyspaceCorrect == Spec => []ActiveKeyspaceSound
<1> USE CassandraAssumption DEF ActiveKeyspaceSound
<1>1. Init => ActiveKeyspaceSound
  BY DEF Init
<1>2. TypeOK /\ ActiveKeyspaceSound /\ [Next]_vars => ActiveKeyspaceSound'
  <2> SUFFICES ASSUME TypeOK, ActiveKeyspaceSound, [Next]_vars PROVE ActiveKeyspaceSound'
    OBVIOUS
  <2> USE DEF TypeOK
  <2>1. CASE UNCHANGED <<state, activeKeyspace, cur, touched>>
    BY <2>1
  <2>2. ASSUME NEW t \in Threads, Host(t)
        PROVE  UNCHANGED <<state, activeKeyspace, cur, touched>>
    BY <2>2 DEF Host, CallExecute, CallCatalog, CallDrop, CallCreate, Database, Call
  <2>3. ASSUME NEW t \in Threads, Library(t), ~Execute(t), ~Open(t), ~Close(t)
        PROVE  UNCHANGED <<state, activeKeyspace, cur, touched>>
    BY <2>3 DEF Library, Return, NotConnected, DropDatabase, CreateDatabase, CloseCache,
                TakeSession, CatalogReply, CatalogFails
  <2>4. ASSUME NEW t \in Threads, Execute(t) PROVE ActiveKeyspaceSound'
    <3>1. PICK c \in Keyspaces \cup {NoKeyspace} :
            SwitchKeyspace(ks[t], c) /\ RunStatement(t, c)
      BY <2>4 DEF Execute
    <3>2. state \in Sessions /\ UNCHANGED state
      BY <2>4 DEF Execute
    <3>3. touched # "yes" => activeKeyspace' = c
      BY <3>1, <3>2 DEF SwitchKeyspace
    <3>4. \/ cur' = [cur EXCEPT ![state] = c] /\ UNCHANGED touched
          \/ touched' = "yes"
      BY <3>1 DEF RunStatement
    <3>5. QED
      BY <3>2, <3>3, <3>4
  <2>5. ASSUME NEW t \in Threads, Open(t) \/ Close(t) PROVE ActiveKeyspaceSound'
    BY <2>5 DEF Open, Close
  <2>6. QED
    BY <2>1, <2>2, <2>3, <2>4, <2>5 DEF Next, vars
<1>3. QED
  BY <1>1, <1>2, TypeCorrect, PTL DEF Spec

----------------------------------------------------------------------------
\* A host is of one kind for good: one that never disturbs the session still
\* does not after any step, and one that may still may.
LEMMA TouchedStep ==
  ASSUME Undisturbed, [Next]_vars
  PROVE  touched' = "never" <=> touched = "never"
<1> USE DEF Undisturbed
<1>1. ASSUME NEW t \in Threads, Execute(t) PROVE touched' = "never" <=> touched = "never"
  BY <1>1 DEF Execute, RunStatement
<1>2. ASSUME NEW t \in Threads, Host(t) PROVE UNCHANGED touched
  BY <1>2 DEF Host, CallExecute, CallCatalog, CallDrop, CallCreate, Database, Call
<1>3. ASSUME NEW t \in Threads, Open(t) \/ Close(t)
      PROVE  touched' = "never" <=> touched = "never"
  BY <1>3 DEF Open, Close
<1>4. ASSUME NEW t \in Threads, Library(t), ~Execute(t), ~Open(t), ~Close(t)
      PROVE  UNCHANGED touched
  BY <1>4 DEF Library, Return, NotConnected, DropDatabase, CreateDatabase, CloseCache,
              TakeSession, CatalogReply, CatalogFails
<1>5. QED
  BY <1>1, <1>2, <1>3, <1>4 DEF Next, vars

\* Where nobody disturbs the session, no keyspace goes away.
LEMMA UndisturbedCorrect == Spec => []Undisturbed
<1> USE CassandraAssumption
<1>1. Init => Undisturbed
  BY DEF Init, Undisturbed
<1>2. TypeOK /\ Named /\ Undisturbed /\ [Next]_vars => Undisturbed'
  <2> SUFFICES ASSUME TypeOK, Named, Undisturbed, [Next]_vars, touched' = "never"
               PROVE  Undisturbed'
    BY DEF Undisturbed
  <2>1. touched = "never"
    BY TouchedStep
  <2> USE <2>1 DEF Undisturbed, TypeOK, Goto, Finish, calls
  <2>2. ASSUME NEW t \in Threads, Host(t) PROVE Undisturbed'
    BY <2>2 DEF Host, CallExecute, CallCatalog, CallDrop, CallCreate, Database, Call
  <2>3. ASSUME NEW t \in Threads, Library(t)
        PROVE  /\ exists' = exists
               /\ \A u \in Threads : /\ pc'[u] = "drop" => pc[u] = "drop"
                                     /\ kind'[u] = "use" => kind[u] = "use"
    <3>1. CASE Return(t) \/ NotConnected(t)
      BY <3>1 DEF Return, NotConnected
    <3>2. CASE DropDatabase(t) \/ CreateDatabase(t)
      <4>1. exists' = exists
        BY <3>2 DEF DropDatabase, CreateDatabase, Named
      <4>2. QED
        BY <3>2, <4>1 DEF DropDatabase, CreateDatabase
    <3>3. CASE Execute(t)
      BY <3>3 DEF Execute, RunStatement
    <3>4. CASE TakeSession(t) \/ CatalogReply(t) \/ CatalogFails(t)
      BY <3>4 DEF TakeSession, CatalogReply, CatalogFails, NextTable
    <3>5. CASE Open(t) \/ CloseCache(t) \/ Close(t)
      BY <3>5 DEF Open, CloseCache, Close
    <3>6. QED
      BY <2>3, <3>1, <3>2, <3>3, <3>4, <3>5 DEF Library
  <2>4. QED
    BY <2>2, <2>3 DEF Next, vars
<1>3. QED
  BY <1>1, <1>2, TypesCorrect, PTL DEF Spec

----------------------------------------------------------------------------
IInv == TypeOK /\ Calls /\ ActiveKeyspaceSound /\ Undisturbed

\* Where nobody disturbs the session, execute() on the handle of a keyspace runs
\* its statement in that keyspace: the USE it may need cannot go unnoticed.
LEMMA ExecuteRunsOwn ==
  ASSUME IInv, touched = "never", NEW t \in Threads, Execute(t), ks[t] # NoKeyspace
  PROVE  IF kind[t] = "query"
         THEN ranIn' = [ranIn EXCEPT ![t] = ks[t]]
         ELSE UNCHANGED ranIn
<1> USE CassandraAssumption DEF IInv, TypeOK, Undisturbed
<1>1. PICK c \in Keyspaces \cup {NoKeyspace} : SwitchKeyspace(ks[t], c) /\ RunStatement(t, c)
  BY DEF Execute
<1>2. state # None
  BY DEF Execute
<1>3. c = ks[t] /\ c \in exists
  BY <1>1, <1>2 DEF SwitchKeyspace, ActiveKeyspaceSound
<1>4. QED
  BY <1>1, <1>3 DEF RunStatement

\* A caller of t sees no change.
Same(t) ==
    /\ AbsStage(t)' = AbsStage(t)
    /\ AbsStage(t) # "idle" => ks'[t] = ks[t] /\ ranIn'[t] = ranIn[t]

\* What only t's caller sees is an abstract step of t: the steps of
\* NamespacedSession written out for one thread.
LEMMA AbsSteps ==
  ASSUME NEW t \in Threads, \A u \in Threads \ {t} : Same(u)
  PROVE  /\ \A k \in Keyspaces :
                AbsStage(t) = "idle" /\ AbsStage(t)' = "waiting" /\ ks'[t] = k /\ ranIn'[t] = None
                => Abs!Invoke(t, k)
         /\ AbsStage(t) = "waiting" /\ AbsStage(t)' = "ran" /\ ks'[t] = ks[t] /\ ranIn'[t] = ks[t]
            => Abs!Run(t)
         /\ AbsStage(t) = "waiting" /\ AbsStage(t)' = "refused" /\ ks'[t] = ks[t]
                /\ ranIn'[t] = ranIn[t]
            => Abs!Refuse(t)
         /\ AbsStage(t) \in {"ran", "refused"} /\ AbsStage(t)' = "idle"
            => Abs!Return(t)
BY DEF Same, Abs!Invoke, Abs!Run, Abs!Refuse, Abs!Return

\* A step of the session is a step of NamespacedSession, or one its caller does
\* not see.
LEMMA AbsStep ==
  ASSUME IInv, [Next]_vars
  PROVE  [Abs!Next]_(Abs!vars)
<1>same. ASSUME \A t \in Threads : Same(t) PROVE UNCHANGED Abs!vars
  BY <1>same DEF Same, Abs!vars
<1>1. touched' = "never" <=> touched = "never"
  BY TouchedStep DEF IInv
<1>2. CASE touched # "never"
  <2>1. \A t \in Threads : Same(t)
    BY <1>1, <1>2 DEF AbsStage, Same
  <2>2. QED
    BY <2>1, <1>same
<1>3. CASE touched = "never"
  <2>run. ASSUME NEW t \in Threads, Execute(t), ks[t] # NoKeyspace, kind[t] = "query"
          PROVE  ranIn' = [ranIn EXCEPT ![t] = ks[t]]
    BY <2>run, <1>3, ExecuteRunsOwn
  <2> USE CassandraAssumption, <1>1, <1>3 DEF IInv, TypeOK, AbsStage, Same, Goto, Finish, calls
  <2>1. ASSUME NEW t \in Threads, NEW k \in Keyspaces, NEW c \in Kinds, CallExecute(t, k, c)
        PROVE  Abs!Invoke(t, k)
    <3>1. /\ pc[t] = "idle" /\ pc' = [pc EXCEPT ![t] = "execute"]
          /\ ks' = [ks EXCEPT ![t] = k] /\ kind' = [kind EXCEPT ![t] = "query"]
          /\ UNCHANGED <<ranIn, result>>
      BY <2>1 DEF CallExecute, Call
    <3>2. /\ AbsStage(t) = "idle" /\ AbsStage(t)' = "waiting"
          /\ ks'[t] = k /\ ranIn'[t] = None
          /\ \A u \in Threads \ {t} : Same(u)
      BY <3>1 DEF Calls
    <3> HIDE DEF AbsStage, Same
    <3>3. QED
      BY <3>2, AbsSteps
  <2>2. ASSUME NEW t \in Threads, CallExecute(t, NoKeyspace, "query")
        PROVE  \A u \in Threads : Same(u)
    BY <2>2 DEF CallExecute, Call, Calls
  <2>3. ASSUME NEW t \in Threads, NEW k \in Keyspaces, NEW p \in {"tables", "columns"},
               CallCatalog(t, p, k)
        PROVE  \A u \in Threads : Same(u)
    BY <2>3 DEF CallCatalog, Call, Calls
  <2>4. ASSUME NEW t \in Threads, NEW k \in Keyspaces,
               CallDrop(t, k) \/ CallCreate(t, k) \/ Database(t, k)
        PROVE  \A u \in Threads : Same(u)
    BY <2>4 DEF CallDrop, CallCreate, Database, Call, Calls
  <2>5. ASSUME NEW t \in Threads, Execute(t), AbsStage(t) = "waiting" PROVE Abs!Run(t)
    <3>1. /\ pc[t] = "execute" /\ pc' = [pc EXCEPT ![t] = "done"]
          /\ ranIn' = [ranIn EXCEPT ![t] = ks[t]] /\ UNCHANGED <<ks, kind>>
          /\ ks[t] \in Keyspaces
          /\ \A u \in Threads \ {t} : result'[u] = result[u]
      BY <2>5, <2>run DEF Execute, RunStatement
    <3>2. /\ AbsStage(t)' = "ran" /\ ks'[t] = ks[t] /\ ranIn'[t] = ks[t]
          /\ \A u \in Threads \ {t} : Same(u)
      BY <2>5, <3>1
    <3> HIDE DEF AbsStage, Same
    <3>3. QED
      BY <2>5, <3>2, AbsSteps
  <2>6. ASSUME NEW t \in Threads, NotConnected(t), AbsStage(t) = "waiting"
        PROVE  Abs!Refuse(t)
    <3>1. /\ pc' = [pc EXCEPT ![t] = "done"] /\ result' = [result EXCEPT ![t] = "error"]
          /\ UNCHANGED <<ks, kind, ranIn>>
      BY <2>6 DEF NotConnected
    <3>2. ranIn[t] = None
      BY <2>6 DEF Calls
    <3>3. /\ AbsStage(t)' = "refused" /\ ks'[t] = ks[t] /\ ranIn'[t] = ranIn[t]
          /\ \A u \in Threads \ {t} : Same(u)
      BY <2>6, <3>1, <3>2
    <3> HIDE DEF AbsStage, Same
    <3>4. QED
      BY <2>6, <3>3, AbsSteps
  <2>7. ASSUME NEW t \in Threads, Execute(t) \/ NotConnected(t), AbsStage(t) # "waiting"
        PROVE  \A u \in Threads : Same(u)
    <3>1. /\ pc[t] \in {"execute", "drop", "create"} /\ pc' = [pc EXCEPT ![t] = "done"]
          /\ UNCHANGED <<ks, kind>>
          /\ \A u \in Threads \ {t} : result'[u] = result[u] /\ ranIn'[u] = ranIn[u]
      BY <2>7 DEF Execute, RunStatement, NotConnected
    <3>2. ks[t] = NoKeyspace \/ kind[t] # "query"
      BY <2>7, <3>1 DEF Calls
    <3>3. QED
      BY <3>1, <3>2
  <2>8. ASSUME NEW t \in Threads, Return(t) PROVE Abs!Return(t) \/ \A u \in Threads : Same(u)
    <3>1. CASE AbsStage(t) = "idle"
      BY <2>8, <3>1 DEF Return
    <3>2. CASE AbsStage(t) # "idle"
      <4>1. /\ AbsStage(t) \in {"ran", "refused"} /\ AbsStage(t)' = "idle"
            /\ \A u \in Threads \ {t} : Same(u)
        BY <2>8, <3>2 DEF Return
      <4> HIDE DEF AbsStage, Same
      <4>2. QED
        BY <4>1, AbsSteps
    <3>3. QED
      BY <3>1, <3>2
  <2>9. ASSUME NEW t \in Threads, DropDatabase(t) \/ CreateDatabase(t)
        PROVE  \A u \in Threads : Same(u)
    BY <2>9 DEF DropDatabase, CreateDatabase, Calls
  <2>10. ASSUME NEW t \in Threads, TakeSession(t) \/ CatalogReply(t) \/ CatalogFails(t)
         PROVE  \A u \in Threads : Same(u)
    BY <2>10 DEF TakeSession, CatalogReply, CatalogFails, NextTable, Calls
  <2>11. ASSUME NEW t \in Threads, Open(t) \/ CloseCache(t) \/ Close(t)
         PROVE  \A u \in Threads : Same(u)
    BY <2>11 DEF Open, CloseCache, Close, Calls
  <2>12. CASE UNCHANGED vars
    <3>1. \A u \in Threads : Same(u)
      BY <2>12 DEF vars
    <3>2. QED
      BY <3>1, <1>same
  <2>13. ASSUME NEW t \in Threads, Host(t) PROVE Abs!Next \/ UNCHANGED Abs!vars
    <3>1. CASE \A u \in Threads : Same(u)
      BY <3>1, <1>same
    <3>2. ASSUME NEW k \in Keyspaces, Abs!Invoke(t, k) PROVE Abs!Next
      BY <3>2 DEF Abs!Next
    <3>3. QED
      BY <2>1, <2>2, <2>3, <2>4, <2>13, <3>1, <3>2 DEF Host
  <2>14. ASSUME NEW t \in Threads, Library(t) PROVE Abs!Next \/ UNCHANGED Abs!vars
    <3>1. CASE \A u \in Threads : Same(u)
      BY <3>1, <1>same
    <3>2. CASE Abs!Run(t) \/ Abs!Refuse(t) \/ Abs!Return(t)
      BY <3>2 DEF Abs!Next
    <3>3. QED
      BY <2>5, <2>6, <2>7, <2>8, <2>9, <2>10, <2>11, <2>14, <3>1, <3>2 DEF Library
  <2>15. QED
    BY <2>12, <2>13, <2>14 DEF Next
<1>4. QED
  BY <1>2, <1>3

\* Handles of different keyspaces share one session and each behave as a handle
\* of NamespacedSession: own keyspace or nowhere, at most once, success only if
\* it ran.
THEOREM SessionRefines == Spec => ImplementsNamespacedSession
<1>1. Init => Abs!Init
  BY DEF Init, Abs!Init, AbsStage
<1>2. IInv /\ [Next]_vars => [Abs!Next]_(Abs!vars)
  BY AbsStep
<1>3. Spec => []IInv
  BY TypeCorrect, CallsCorrect, ActiveKeyspaceCorrect, UndisturbedCorrect, PTL DEF IInv
<1>4. QED
  BY <1>1, <1>2, <1>3, PTL DEF Spec, ImplementsNamespacedSession, Abs!Spec
=============================================================================

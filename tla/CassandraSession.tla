-------------------------- MODULE CassandraSession --------------------------
(***************************************************************************)
(* CassandraConnImpl and its CassandraDatabase handles                     *)
(* (src/cassandra_connection.cpp).                                         *)
(*                                                                         *)
(* One driver session serves the handles of every keyspace; execute()      *)
(* sends USE when activeKeyspace_ is not the handle's own, and runs the    *)
(* statement under the same hold of mu_, so that is one action.  Catalog   *)
(* calls take a reference to the session under mu_ and query it without    *)
(* the lock: open() and close() may replace or drop state_ meanwhile, and  *)
(* the DriverState is destroyed with its last reference.                   *)
(*                                                                         *)
(* The server's side is external: the keyspaces that exist, and the        *)
(* keyspace each session is in.                                            *)
(***************************************************************************)
EXTENDS Naturals

CONSTANTS
    Threads,     \* the host's threads
    Keyspaces,   \* keyspaces the host has handles for
    NoKeyspace,  \* "": no keyspace selected
    Sessions,    \* DriverState objects; one is free as long as there are more
                 \* of them than threads
    None,
    Kinds,       \* what the host passes to execute(): "query", "use"
    Droppable,   \* keyspaces the host drops and creates
    UseMayFail   \* USE of an existing keyspace may fail (a timeout)

ASSUME CassandraAssumption ==
    /\ NoKeyspace \notin Keyspaces
    /\ None \notin Threads \cup Sessions \cup Keyspaces \cup {NoKeyspace}
    /\ Kinds \subseteq {"query", "use"}
    /\ Droppable \subseteq Keyspaces
    /\ UseMayFail \in BOOLEAN

VARIABLES
    pc,              \* pc[t]: where t is in its call
    ks,              \* ks[t]: the keyspace of the handle, or of the call
    kind,            \* kind[t]: what t passed to execute(), or "admin"
    state,           \* state_: the current session, or None
    open,            \* open_
    activeKeyspace,  \* activeKeyspace_
    cache,           \* cache_: keyspaces with a cached handle
    ref,             \* ref[t]: the session t's catalog query runs on, or None
    live,            \* DriverStates not destroyed yet
    exists,          \* server: the keyspaces that exist
    cur,             \* server: cur[s], the keyspace session s is in
    touched,         \* whether the host sent USE itself on the current session:
                     \* "no", "yes", or "never" where no host sends USE or drops
                     \* a keyspace, and USE does not fail
    ranIn,           \* ranIn[t]: the keyspace t's statement ran in, or None
    result           \* result[t]: "none", "ok", "error", "partial"

vars == <<pc, ks, kind, state, open, activeKeyspace, cache, ref, live, exists, cur,
          touched, ranIn, result>>
calls == <<pc, ks, kind, ranIn, result>>

Stages == {"idle", "execute", "tables", "columns", "drop", "create", "close", "done"}

TypeOK ==
    /\ pc \in [Threads -> Stages]
    /\ ks \in [Threads -> Keyspaces \cup {NoKeyspace}]
    /\ kind \in [Threads -> {"query", "use", "admin"}]
    /\ state \in Sessions \cup {None}
    /\ open \in BOOLEAN
    /\ activeKeyspace \in Keyspaces \cup {NoKeyspace}
    /\ cache \subseteq Keyspaces
    /\ ref \in [Threads -> Sessions \cup {None}]
    /\ live \subseteq Sessions
    /\ exists \subseteq Keyspaces
    /\ cur \in [Sessions -> Keyspaces \cup {NoKeyspace}]
    /\ touched \in {"never", "no", "yes"}
    /\ ranIn \in [Threads -> Keyspaces \cup {NoKeyspace, None}]
    /\ result \in [Threads -> {"none", "ok", "error", "partial"}]

Init ==
    /\ pc = [t \in Threads |-> "idle"]
    /\ ks = [t \in Threads |-> NoKeyspace]
    /\ kind = [t \in Threads |-> "query"]
    /\ state = None
    /\ open = FALSE
    /\ activeKeyspace = NoKeyspace
    /\ cache = {}
    /\ ref = [t \in Threads |-> None]
    /\ live = {}
    /\ exists = Keyspaces
    /\ cur = [s \in Sessions |-> NoKeyspace]
    /\ touched \in {"never", "no"}
    /\ ranIn = [t \in Threads |-> None]
    /\ result = [t \in Threads |-> "none"]

\* The references that keep a DriverState alive: state_ and the catalog queries.
Referenced(st, refs) == {st} \cup {refs[t] : t \in Threads}

\* The calling thread's progress: its call goes to stage p.
Goto(t, p) == pc' = [pc EXCEPT ![t] = p]

Finish(t, r) ==
    /\ Goto(t, "done")
    /\ result' = [result EXCEPT ![t] = r]

----------------------------------------------------------------------------
(* Host calls *)

\* A call that works on keyspace k, begun by an idle thread.
Call(t, p, k) ==
    /\ pc[t] = "idle"
    /\ Goto(t, p)
    /\ ks' = [ks EXCEPT ![t] = k]
    /\ UNCHANGED <<state, open, activeKeyspace, ref, live, exists, cur,
                   touched, ranIn, result>>

\* CassandraDatabase::execute() on the handle of k; getTableData(), getRowCount()
\* and listKeyspaces() are the same call with a qualified statement and no
\* keyspace.
CallExecute(t, k, c) ==
    /\ touched = "never" => c = "query"
    /\ Call(t, "execute", k)
    /\ kind' = [kind EXCEPT ![t] = c]
    /\ UNCHANGED cache

\* tables() and views() list names and then load the columns of each; p is
\* "columns" for describeTable(), which only loads columns.
CallCatalog(t, p, k) == Call(t, p, k) /\ UNCHANGED <<kind, cache>>

\* dropDatabase() erases the cached handle, under cacheMu_, before it drops.
CallDrop(t, k) ==
    /\ open
    /\ touched # "never"
    /\ Call(t, "drop", k)
    /\ cache' = cache \ {k}
    /\ kind' = [kind EXCEPT ![t] = "admin"]

CallCreate(t, k) ==
    /\ open
    /\ Call(t, "create", k)
    /\ kind' = [kind EXCEPT ![t] = "admin"]
    /\ UNCHANGED cache

\* database(k), under cacheMu_.
Database(t, k) ==
    /\ pc[t] = "idle"
    /\ cache' = cache \cup {k}
    /\ UNCHANGED <<calls, state, open, activeKeyspace, ref, live, exists, cur, touched>>

Return(t) ==
    /\ pc[t] = "done"
    /\ Goto(t, "idle")
    /\ ks' = [ks EXCEPT ![t] = NoKeyspace]
    /\ kind' = [kind EXCEPT ![t] = "query"]
    /\ ranIn' = [ranIn EXCEPT ![t] = None]
    /\ result' = [result EXCEPT ![t] = "none"]
    /\ UNCHANGED <<state, open, activeKeyspace, cache, ref, live, exists, cur, touched>>

----------------------------------------------------------------------------
(* execute(): USE and the statement under one hold of mu_ *)

NotConnected(t) ==
    /\ pc[t] \in {"execute", "drop", "create"}
    /\ state = None
    /\ Finish(t, "error")
    /\ UNCHANGED <<ks, kind, state, open, activeKeyspace, cache, ref, live, exists, cur,
                   touched, ranIn>>

\* Mutant: activeKeyspace_ is assigned whether or not USE succeeded.
SwitchKeyspaceEarly(k, c) ==
    IF k \in {NoKeyspace, activeKeyspace}
    THEN c = cur[state] /\ UNCHANGED activeKeyspace
    ELSE /\ activeKeyspace' = k
         /\ \/ k \in exists /\ c = k
            \/ (k \notin exists \/ (UseMayFail /\ touched # "never")) /\ c = cur[state]

\* Mutant: USE is sent only while no keyspace was chosen yet.
SwitchKeyspaceOnce(k, c) ==
    IF k = NoKeyspace \/ activeKeyspace # NoKeyspace
    THEN c = cur[state] /\ UNCHANGED activeKeyspace
    ELSE c = k /\ activeKeyspace' = k

\* The keyspace c the session is in when the statement is sent, after the USE
\* that execute() sends when k is named and is not activeKeyspace_.  A USE that
\* fails is not looked at.
SwitchKeyspace(k, c) ==
    \/ /\ k \in {NoKeyspace, activeKeyspace}
       /\ c = cur[state]
       /\ UNCHANGED activeKeyspace
    \/ /\ k \notin {NoKeyspace, activeKeyspace}
       /\ k \in exists
       /\ c = k
       /\ activeKeyspace' = k
    \/ /\ k \notin {NoKeyspace, activeKeyspace}
       /\ k \notin exists \/ (UseMayFail /\ touched # "never")
       /\ c = cur[state]
       /\ UNCHANGED activeKeyspace

\* What the server makes of the statement in keyspace c.  A qualified one (no
\* keyspace given) does not depend on c; an unqualified one resolves in c, or
\* nowhere when c is gone or none was selected; the host's own USE moves the
\* session.  Any of them may fail for its own reasons.
RunStatement(t, c) ==
    \/ /\ kind[t] = "query"
       /\ ks[t] = NoKeyspace \/ c \in exists
       /\ ranIn' = [ranIn EXCEPT ![t] = IF ks[t] = NoKeyspace THEN None ELSE c]
       /\ cur' = [cur EXCEPT ![state] = c]
       /\ \E r \in {"ok", "error"} : Finish(t, r)
       /\ UNCHANGED touched
    \/ /\ kind[t] = "query" => ks[t] # NoKeyspace /\ c \notin exists
       /\ cur' = [cur EXCEPT ![state] = c]
       /\ Finish(t, "error")
       /\ UNCHANGED <<ranIn, touched>>
    \/ /\ kind[t] = "use"
       /\ \E d \in exists : cur' = [cur EXCEPT ![state] = d]
       /\ touched' = "yes"
       /\ Finish(t, "ok")
       /\ UNCHANGED ranIn

Execute(t) ==
    /\ pc[t] = "execute"
    /\ state # None
    /\ \E c \in Keyspaces \cup {NoKeyspace} :
        SwitchKeyspace(ks[t], c) /\ RunStatement(t, c)
    /\ UNCHANGED <<ks, kind, state, open, cache, ref, live, exists>>

\* DROP KEYSPACE IF EXISTS and CREATE KEYSPACE IF NOT EXISTS; activeKeyspace_
\* and the session stay where they are.
DropDatabase(t) ==
    /\ pc[t] = "drop"
    /\ state # None
    /\ \/ exists' = exists \ {ks[t]} /\ Finish(t, "ok")
       \/ exists' = exists /\ Finish(t, "error")
    /\ UNCHANGED <<ks, kind, state, open, activeKeyspace, cache, ref, live, cur,
                   touched, ranIn>>

CreateDatabase(t) ==
    /\ pc[t] = "create"
    /\ state # None
    /\ \/ exists' = exists \cup {ks[t]} /\ Finish(t, "ok")
       \/ exists' = exists /\ Finish(t, "error")
    /\ UNCHANGED <<ks, kind, state, open, activeKeyspace, cache, ref, live, cur,
                   touched, ranIn>>

----------------------------------------------------------------------------
(* Catalog calls: runCql(session(), ...) for the tables, then for the columns *)

\* session() copies state_ under mu_; without a session the query fails.
TakeSession(t) ==
    /\ pc[t] \in {"tables", "columns"}
    /\ ref[t] = None
    /\ state # None
    /\ ref' = [ref EXCEPT ![t] = state]
    /\ UNCHANGED <<calls, state, open, activeKeyspace, cache, live, exists, cur, touched>>

\* The columns of one more table are loaded, or the last one's were: the call
\* returns, with r when it read everything it asked for.
NextTable(t, r) == (Goto(t, "columns") \/ Goto(t, "done")) /\ result' = [result EXCEPT ![t] = r]

\* The query is over: runCql drops its reference, and destroys the session when
\* it was the last one.  A list of names may be empty.
CatalogReply(t) ==
    /\ ref[t] # None
    /\ ref' = [ref EXCEPT ![t] = None]
    /\ live' = live \cap Referenced(state, ref')
    /\ NextTable(t, IF result[t] = "partial" THEN "partial" ELSE "ok")
    /\ UNCHANGED <<ks, kind, state, open, activeKeyspace, cache, exists, cur, touched, ranIn>>

\* A query that failed, or found no session, gives nothing and no error: no
\* tables at all, or one table without its columns and on with the next.
CatalogFails(t) ==
    /\ pc[t] \in {"tables", "columns"}
    /\ ref[t] # None \/ state = None
    /\ ref' = [ref EXCEPT ![t] = None]
    /\ live' = live \cap Referenced(state, ref')
    /\ IF pc[t] = "tables" THEN Finish(t, "partial") ELSE NextTable(t, "partial")
    /\ UNCHANGED <<ks, kind, state, open, activeKeyspace, cache, exists, cur, touched, ranIn>>

----------------------------------------------------------------------------
(* open() and close() *)

\* open() drops the session it has, and connects a new one or fails; mu_ is held
\* throughout.
Open(t) ==
    /\ pc[t] = "idle"
    /\ activeKeyspace' = NoKeyspace
    /\ touched' = IF touched = "yes" THEN "no" ELSE touched
    /\ LET kept == live \cap Referenced(None, ref) IN
        \/ \E s \in Sessions \ kept :
            /\ state' = s
            /\ open' = TRUE
            /\ live' = kept \cup {s}
            /\ cur' = [cur EXCEPT ![s] = NoKeyspace]
        \/ /\ state' = None
           /\ open' = FALSE
           /\ live' = kept
           /\ UNCHANGED cur
    /\ UNCHANGED <<calls, cache, ref, exists>>

\* close() empties the cache under cacheMu_ ...
CloseCache(t) ==
    /\ pc[t] = "idle"
    /\ Goto(t, "close")
    /\ cache' = {}
    /\ UNCHANGED <<ks, kind, ranIn, result, state, open, activeKeyspace, ref, live, exists,
                   cur, touched>>

\* Mutant: close() destroys the session although a catalog query is on it.
CloseDestroying(t) ==
    /\ pc[t] = "close"
    /\ Goto(t, "idle")
    /\ state' = None
    /\ open' = FALSE
    /\ activeKeyspace' = NoKeyspace
    /\ touched' = IF touched = "yes" THEN "no" ELSE touched
    /\ live' = live \ {state}
    /\ UNCHANGED <<ks, kind, ranIn, result, cache, ref, exists, cur>>

\* ... and then, under mu_, drops the session.
Close(t) ==
    /\ pc[t] = "close"
    /\ Goto(t, "idle")
    /\ state' = None
    /\ open' = FALSE
    /\ activeKeyspace' = NoKeyspace
    /\ touched' = IF touched = "yes" THEN "no" ELSE touched
    /\ live' = live \cap Referenced(None, ref)
    /\ UNCHANGED <<ks, kind, ranIn, result, cache, ref, exists, cur>>

----------------------------------------------------------------------------
Host(t) ==
    \/ \E k \in Keyspaces, c \in Kinds : CallExecute(t, k, c)
    \/ CallExecute(t, NoKeyspace, "query")
    \/ \E k \in Keyspaces, p \in {"tables", "columns"} : CallCatalog(t, p, k)
    \/ \E k \in Droppable : CallDrop(t, k) \/ CallCreate(t, k)
    \/ \E k \in Keyspaces : Database(t, k)

Library(t) ==
    \/ Return(t)
    \/ NotConnected(t)
    \/ Execute(t)
    \/ DropDatabase(t)
    \/ CreateDatabase(t)
    \/ TakeSession(t)
    \/ CatalogReply(t)
    \/ CatalogFails(t)
    \/ Open(t)
    \/ CloseCache(t)
    \/ Close(t)

Next == \E t \in Threads : Host(t) \/ Library(t)

Spec == Init /\ [][Next]_vars

----------------------------------------------------------------------------
(* Properties *)

\* "catalog queries hold a reference to the session, so a close() from another
\* thread frees it only once they finish": no query is on a destroyed session,
\* and none outlives its last user either, through any open() and close().
SessionLifetime ==
    /\ \A t \in Threads : ref[t] # None => ref[t] \in live
    /\ live = {s \in Sessions : s \in Referenced(state, ref)}

\* activeKeyspace_ names the keyspace the session is in, through failed USEs,
\* dropped keyspaces, close() and reopen, as long as only the library sends USE.
ActiveKeyspaceSound ==
    state # None /\ touched # "yes" => activeKeyspace = cur[state]

----------------------------------------------------------------------------
(* Refinement *)

\* Only a handle's own statement counts: not a qualified one, not a USE; and
\* nothing is promised where the host moves the session or drops keyspaces.
AbsStage(t) ==
    IF touched # "never" \/ ks[t] = NoKeyspace \/ kind[t] # "query" THEN "idle"
    ELSE IF pc[t] = "execute" THEN "waiting"
    ELSE IF ranIn[t] # None THEN "ran"
    ELSE IF result[t] = "error" THEN "refused"
    ELSE "idle"

Abs == INSTANCE NamespacedSession WITH
    Namespaces <- Keyspaces,
    Nowhere <- None,
    stage <- [t \in Threads |-> AbsStage(t)],
    want <- [t \in Threads |-> IF AbsStage(t) = "idle" THEN None ELSE ks[t]],
    ranIn <- [t \in Threads |-> IF AbsStage(t) = "idle" THEN None ELSE ranIn[t]]

\* Handles of different keyspaces share one session and still each behave as a
\* handle of NamespacedSession: "concurrent handles cannot interleave a USE".
ImplementsNamespacedSession == Abs!Spec
=============================================================================

---------------------------- MODULE RedisSession ----------------------------
(***************************************************************************)
(* RedisConnection, the RedisState it shares with its RedisDatabase        *)
(* handles, and the handles (src/redis_connection.cpp).                    *)
(*                                                                         *)
(* One redisContext, guarded by RedisState::mu, serves every logical       *)
(* database; a handle sends SELECT when selectedDb is not its own index.   *)
(* Every use of the context happens under mu, so a section that holds it   *)
(* is one action here.  getTableData is two such sections with mu released *)
(* in between.  A handle is nothing but its index, so which handles are    *)
(* cached (dbCache) makes no difference here.                              *)
(*                                                                         *)
(* The server's side is external: the database commands run in (db), and   *)
(* MULTI, under which commands, SELECT included, are queued until EXEC.    *)
(***************************************************************************)
EXTENDS Naturals

CONSTANTS
    Threads,         \* the host's threads
    NumDatabases,    \* logical databases of the server, 0 .. NumDatabases - 1
    HandleIndexes,   \* indexes the host asks handles for; may exceed the server's
    InfoDatabase,    \* info_.database: the index open() selects
    None,
    Commands         \* the kinds of command the host sends, see AllCommands

AllCommands == {"key", "select", "multi", "exec", "discard"}

ServerDbs == 0 .. NumDatabases - 1

ASSUME RedisAssumption ==
    /\ NumDatabases \in Nat \ {0}
    /\ HandleIndexes \subseteq Nat
    /\ InfoDatabase \in Nat
    /\ Commands \subseteq AllCommands
    /\ None \notin Nat
    /\ None \notin Threads

VARIABLES
    pc,          \* pc[t]: where t is in its call
    idx,         \* idx[t]: index_ of the handle t called
    cmd,         \* cmd[t]: what it asked for: a command kind, "data" or "count"
    ctx,         \* RedisState::ctx: "null", "up" or "broken" (ctx->err set)
    selectedDb,  \* RedisState::selectedDb
    selectedDb_, \* RedisConnection::selectedDb_
    db,          \* server: the database this connection is on
    queuedDb,    \* server: the database after the commands queued by MULTI, or None
    touched,     \* whether the host sent SELECT or MULTI itself since the last
                 \* open(): "no", "yes", or "never" for a host that never does
    ranIn,       \* ranIn[t]: the database t's command, or the latest half of its
                 \* getTableData that ran, ran (or was queued) in, or None
    detailed,    \* the threads the server answered the second half of getTableData for
    lost,        \* the threads whose context closed or broke after their first section
    result       \* result[t]: what t's call returns, see Results

vars == <<pc, idx, cmd, ctx, selectedDb, selectedDb_, db, queuedDb, touched,
          ranIn, detailed, lost, result>>
server == <<db, queuedDb, touched>>
halves == <<detailed, lost>>

\* "rows" are keys (with their details, for getTableData); "unknown" are keys whose
\* details are marked as missing, "blank" are rows of an empty key.
Results == {"none", "ok", "error", "rows", "unknown", "blank", "empty"}

TypeOK ==
    /\ pc \in [Threads -> {"idle", "wait", "details", "done"}]
    /\ idx \in [Threads -> Nat]
    /\ cmd \in [Threads -> AllCommands \cup {"data", "count"}]
    /\ ctx \in {"null", "up", "broken"}
    /\ selectedDb \in Nat
    /\ selectedDb_ \in Nat
    /\ db \in ServerDbs
    /\ queuedDb \in ServerDbs \cup {None}
    /\ touched \in {"never", "no", "yes"}
    /\ ranIn \in [Threads -> Nat \cup {None}]
    /\ detailed \subseteq Threads
    /\ lost \subseteq Threads
    /\ result \in [Threads -> Results]

Init ==
    /\ pc = [t \in Threads |-> "idle"]
    /\ idx = [t \in Threads |-> 0]
    /\ cmd = [t \in Threads |-> "key"]
    /\ ctx = "null"
    /\ selectedDb = 0
    /\ selectedDb_ = 0
    /\ db = 0
    /\ queuedDb = None
    /\ touched \in {"never", "no"}
    /\ ranIn = [t \in Threads |-> None]
    /\ detailed = {}
    /\ lost = {}
    /\ result = [t \in Threads |-> "none"]

----------------------------------------------------------------------------
(* The server (external) *)

\* The database a command sent now runs in, or will when EXEC runs it.
Effective(d, q) == IF q = None THEN d ELSE q

\* The server answers SELECT i without an error and is then on d, with q
\* queued.  MULTI queues any SELECT; one out of range fails only in EXEC.
ServerSelect(i, d, q) ==
    \/ queuedDb = None /\ i \in ServerDbs /\ d = i /\ q = None
    \/ queuedDb # None /\ d = db /\ q = IF i \in ServerDbs THEN i ELSE queuedDb

\* The effect on the connection of a command of kind k, sent to database d
\* with q queued, when the server accepts it.
CommandEffect(k, d, q) ==
    \/ k = "key" /\ db' = d /\ queuedDb' = q
    \/ k = "select" /\ q = None /\ db' \in ServerDbs /\ queuedDb' = None
    \/ k = "select" /\ q # None /\ db' = d /\ queuedDb' \in ServerDbs
    \/ k = "multi" /\ q = None /\ db' = d /\ queuedDb' = d
    \/ k = "exec" /\ q # None /\ db' = q /\ queuedDb' = None
    \/ k = "discard" /\ q # None /\ db' = d /\ queuedDb' = None

\* ... and when it answers with an error: EXEC still ends the transaction.
CommandError(k, d, q) ==
    /\ db' = d
    /\ queuedDb' = IF k = "exec" THEN None ELSE q

----------------------------------------------------------------------------
(* Handles: execute(), getTableData(), getRowCount() and tables() *)

Call(t, i, c) ==
    /\ pc[t] = "idle"
    /\ touched = "never" => c \in {"key", "data", "count"}
    /\ pc' = [pc EXCEPT ![t] = "wait"]
    /\ idx' = [idx EXCEPT ![t] = i]
    /\ cmd' = [cmd EXCEPT ![t] = c]
    /\ UNCHANGED <<ctx, selectedDb, selectedDb_, server, ranIn, halves, result>>

Finish(t, r) ==
    /\ pc' = [pc EXCEPT ![t] = "done"]
    /\ result' = [result EXCEPT ![t] = r]

\* What a call that could not run reports: execute() an error in its result,
\* a data or catalog call no rows.
Refusal(t) == IF cmd[t] \in {"data", "count"} THEN "empty" ELSE "error"

\* ensureSelectedLocked() is false: no context, a broken one, or the server
\* refuses SELECT.
Unselectable(i) ==
    \/ ctx = "null"
    \/ selectedDb # i /\ (ctx = "broken" \/ (i \notin ServerDbs /\ queuedDb = None))

\* Mutant: selectedDb is assigned before the reply to SELECT is looked at.
NotSelectedRecorded(t) ==
    /\ pc[t] = "wait"
    /\ Unselectable(idx[t])
    /\ selectedDb' = idx[t]
    /\ Finish(t, Refusal(t))
    /\ UNCHANGED <<idx, cmd, ctx, selectedDb_, server, ranIn, halves>>

NotSelected(t) ==
    /\ pc[t] = "wait"
    /\ Unselectable(idx[t])
    /\ Finish(t, Refusal(t))
    /\ UNCHANGED <<idx, cmd, ctx, selectedDb, selectedDb_, server, ranIn, halves>>

\* The handle's index is selected, the broken context answers nothing: no
\* reply for a command, no keys for a scan.
NoReply(t) ==
    /\ pc[t] = "wait"
    /\ ctx = "broken"
    /\ selectedDb = idx[t]
    /\ Finish(t, Refusal(t))
    /\ UNCHANGED <<idx, cmd, ctx, selectedDb, selectedDb_, server, ranIn, halves>>

\* selectedDb and the server after ensureSelectedLocked() for index i: db and
\* queuedDb are the server's, d and q what the command that follows meets.
Selected(i, d, q) ==
    /\ ctx = "up"
    /\ selectedDb' = i
    /\ \/ selectedDb = i /\ d = db /\ q = queuedDb
       \/ selectedDb # i /\ ServerSelect(i, d, q)

\* execute(): select and run under one lock; the server may answer with an error.
Execute(t) ==
    /\ pc[t] = "wait"
    /\ cmd[t] \in AllCommands
    /\ \E d \in ServerDbs, q \in ServerDbs \cup {None} :
        /\ Selected(idx[t], d, q)
        /\ ranIn' = [ranIn EXCEPT ![t] = Effective(d, q)]
        /\ \/ CommandEffect(cmd[t], d, q) /\ Finish(t, "ok")
           \/ CommandError(cmd[t], d, q) /\ Finish(t, "error")
    /\ touched' = IF cmd[t] \in {"select", "multi"} THEN "yes" ELSE touched
    /\ UNCHANGED <<idx, cmd, ctx, selectedDb_, halves>>

\* getRowCount(), tables() and the first half of getTableData(): select and
\* scan under one lock.  There may be no key to find; inside MULTI the scan's
\* reply is not an array, so it always ends without keys.
Scan(t) ==
    /\ pc[t] = "wait"
    /\ cmd[t] \in {"data", "count"}
    /\ \E d \in ServerDbs, q \in ServerDbs \cup {None} :
        /\ Selected(idx[t], d, q)
        /\ db' = d
        /\ queuedDb' = q
        /\ ranIn' = [ranIn EXCEPT ![t] = Effective(d, q)]
        /\ \/ Finish(t, "empty")
           \/ q = None /\ cmd[t] = "count" /\ Finish(t, "rows")
           \/ q = None /\ cmd[t] = "data" /\ pc' = [pc EXCEPT ![t] = "details"] /\ UNCHANGED result
    /\ UNCHANGED <<idx, cmd, ctx, selectedDb_, touched, halves>>

\* The threads whose call is past its first section under mu.
Begun == {t \in Threads : pc[t] \in {"details", "done"}}

\* Mutant: the second half of getTableData() relies on the SELECT of the first.
DetailsUnselected(t) ==
    /\ pc[t] = "details"
    /\ ctx = "up"
    /\ ranIn' = [ranIn EXCEPT ![t] = Effective(db, queuedDb)]
    /\ detailed' = detailed \cup {t}
    /\ Finish(t, "rows")
    /\ UNCHANGED <<idx, cmd, ctx, selectedDb, selectedDb_, server, lost>>

\* fetchKeyDetails() takes the lock again and fills in the scanned keys; when the
\* connection fails on the way, the rest of them stays unknown.
Details(t) ==
    /\ pc[t] = "details"
    /\ \E d \in ServerDbs, q \in ServerDbs \cup {None} :
        /\ Selected(idx[t], d, q)
        /\ db' = d
        /\ queuedDb' = q
        /\ ranIn' = [ranIn EXCEPT ![t] = Effective(d, q)]
    /\ \/ detailed' = detailed \cup {t} /\ Finish(t, "rows") /\ UNCHANGED <<ctx, lost>>
       \/ ctx' = "broken" /\ lost' = lost \cup Begun /\ Finish(t, "unknown") /\ UNCHANGED detailed
    /\ UNCHANGED <<idx, cmd, selectedDb_, touched>>

\* fetchKeyDetails() without a context, or with one that cannot SELECT, gives
\* back one empty key per scanned name.
NoDetails(t) ==
    /\ pc[t] = "details"
    /\ Unselectable(idx[t])
    /\ Finish(t, "blank")
    /\ UNCHANGED <<idx, cmd, ctx, selectedDb, selectedDb_, server, ranIn, halves>>

\* Mutant: the missing replies are not told apart from answers.
DetailsNoReplyUnmarked(t) ==
    /\ pc[t] = "details"
    /\ ctx = "broken"
    /\ selectedDb = idx[t]
    /\ Finish(t, "rows")
    /\ UNCHANGED <<idx, cmd, ctx, selectedDb, selectedDb_, server, ranIn, halves>>

\* On a broken context each pipelined reply is missing: the names are kept, the
\* type says "unknown" and the value "[error]".
DetailsNoReply(t) ==
    /\ pc[t] = "details"
    /\ ctx = "broken"
    /\ selectedDb = idx[t]
    /\ Finish(t, "unknown")
    /\ UNCHANGED <<idx, cmd, ctx, selectedDb, selectedDb_, server, ranIn, halves>>

Return(t) ==
    /\ pc[t] = "done"
    /\ pc' = [pc EXCEPT ![t] = "idle"]
    /\ idx' = [idx EXCEPT ![t] = 0]
    /\ cmd' = [cmd EXCEPT ![t] = "key"]
    /\ ranIn' = [ranIn EXCEPT ![t] = None]
    /\ detailed' = detailed \ {t}
    /\ lost' = lost \ {t}
    /\ result' = [result EXCEPT ![t] = "none"]
    /\ UNCHANGED <<ctx, selectedDb, selectedDb_, server>>

----------------------------------------------------------------------------
(* RedisConnection *)

\* open() connects, authenticates, pings, and selects info_.database if it is
\* in range and the server agrees.  With a context already there, broken or
\* not, open() succeeds at once; one that fails leaves none: no change either way.
Open(t) ==
    /\ pc[t] = "idle"
    /\ ctx = "null"
    /\ ctx' = "up"
    /\ queuedDb' = None
    /\ touched' = IF touched = "yes" THEN "no" ELSE touched
    /\ \E d \in {0} \cup ({InfoDatabase} \cap ServerDbs) :
        /\ selectedDb' = d
        /\ selectedDb_' = d
        /\ db' = d
    /\ UNCHANGED <<pc, idx, cmd, ranIn, halves, result>>

\* close() frees the context under mu; selectedDb_ keeps its value.
Close(t) ==
    /\ pc[t] = "idle"
    /\ ctx' = "null"
    /\ selectedDb' = 0
    /\ lost' = lost \cup Begun
    /\ UNCHANGED <<pc, idx, cmd, selectedDb_, server, ranIn, detailed, result>>

\* selectDatabase(i), in range and accepted by the server.
SelectDatabase(t, i) ==
    /\ pc[t] = "idle"
    /\ ctx = "up"
    /\ i < NumDatabases
    /\ ServerSelect(i, db', queuedDb')
    /\ selectedDb' = i
    /\ selectedDb_' = i
    /\ UNCHANGED <<pc, idx, cmd, ctx, touched, ranIn, halves, result>>

\* The connection fails; hiredis keeps the error in the context.
ContextBreaks ==
    /\ ctx = "up"
    /\ ctx' = "broken"
    /\ lost' = lost \cup Begun
    /\ UNCHANGED <<pc, idx, cmd, selectedDb, selectedDb_, server, ranIn, detailed, result>>

----------------------------------------------------------------------------
Requests == Commands \cup {"data", "count"}

Handle(t) ==
    \/ NotSelected(t)
    \/ NoReply(t)
    \/ Execute(t)
    \/ Scan(t)
    \/ Details(t)
    \/ NoDetails(t)
    \/ DetailsNoReply(t)
    \/ Return(t)

Connection(t) ==
    \/ Open(t)
    \/ Close(t)
    \/ \E i \in HandleIndexes : SelectDatabase(t, i)

Next ==
    \/ \E t \in Threads :
        \/ \E i \in HandleIndexes, c \in Requests : Call(t, i, c)
        \/ Handle(t)
        \/ Connection(t)
    \/ ContextBreaks

Spec == Init /\ [][Next]_vars

----------------------------------------------------------------------------
(* Properties *)

\* RedisState::selectedDb is the database the connection is on, through every
\* failed SELECT, close() and reopen, until the host sends SELECT or MULTI itself.
SelectedDbSound ==
    ctx = "up" /\ touched # "yes" => selectedDb = db /\ queuedDb = None

\* A command reported as executed, keys and their count reached the server, and the
\* details of getTableData's keys did so in a section of their own.  close() or a
\* failing connection between the two sections does not make getTableData report an
\* error: its rows then come back marked unknown, or blank.  Nothing else has that
\* effect, unless the host sends SELECT or MULTI itself.
SuccessMeansRan ==
    \A t \in Threads :
        /\ result[t] \in {"ok", "rows", "unknown", "blank"} => ranIn[t] # None
        /\ result[t] = "rows" /\ cmd[t] = "data" => t \in detailed
        /\ result[t] \in {"unknown", "blank"} => t \in lost \/ touched = "yes"

----------------------------------------------------------------------------
(* Refinement *)

\* Nothing is promised to a host that sends SELECT or MULTI itself: its calls
\* are hidden.
AbsStage(t) ==
    IF touched # "never" THEN "idle"
    ELSE IF pc[t] = "wait" THEN "waiting"
    ELSE IF pc[t] \in {"details", "done"}
    THEN IF ranIn[t] = None THEN "refused" ELSE "ran"
    ELSE "idle"

Abs == INSTANCE NamespacedSession WITH
    Namespaces <- HandleIndexes,
    Nowhere <- None,
    stage <- [t \in Threads |-> AbsStage(t)],
    want <- [t \in Threads |-> IF AbsStage(t) = "idle" THEN None ELSE idx[t]],
    ranIn <- [t \in Threads |-> IF AbsStage(t) = "idle" THEN None ELSE ranIn[t]]

\* Handles of different logical databases share one connection and still each
\* behave as a handle of NamespacedSession, as long as the host leaves SELECT and
\* MULTI to the library: the handle "switches SELECT before each operation if the
\* shared context's selected index differs", in both halves of getTableData.
ImplementsNamespacedSession == Abs!Spec
=============================================================================

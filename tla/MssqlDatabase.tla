---------------------------- MODULE MssqlDatabase ----------------------------
(***************************************************************************)
(* MSSQLDatabase: one DBPROCESS, used by the database handle and its       *)
(* MSSQLSchema handles, and the cancel protocol on it                      *)
(* (src/mssql_connection.cpp).                                             *)
(*                                                                         *)
(* db-lib cannot be driven from two threads, so cancel() only raises the   *)
(* flag cancelled_, and only when inCall_ says that some execute() is      *)
(* waiting for mu_ or holding it.  The running call notices the flag       *)
(* between rows and after each result, or through the interrupt hook while *)
(* it waits on the server, which drops the DBPROCESS; it lowers the flag   *)
(* after its run.  The two steps of cancel() and the three with which a    *)
(* call leaves interleave freely.                                          *)
(*                                                                         *)
(* A batch is abstracted to the result sets it produces, at most           *)
(* MaxResults; the server and FreeTDS are external.                        *)
(***************************************************************************)
EXTENDS Naturals

CONSTANTS
    Threads,      \* threads that call execute() and open()
    Cancellers,   \* threads that call cancel()
    MaxResults,   \* bound: result sets of one batch
    MaxCancels,   \* bound: cancel() calls that find a call in progress
    None

ASSUME MssqlAssumption ==
    /\ MaxResults \in Nat
    /\ MaxCancels \in Nat
    /\ None \notin Threads

VARIABLES
    pc,         \* pc[t]: where t is in execute() or open()
    mu,         \* mu_: its holder, or None
    inCall,     \* inCall_: execute() calls waiting for or holding mu_
    cancelled,  \* cancelled_
    marking,    \* marking[c]: c read inCall_ > 0 and will set cancelled_
    conn,       \* conn_: "null", "up" or "dead" (dbdead)
    results,    \* results[t]: result sets t's batch produced so far
    outcome,    \* outcome[t]: "none", "ok", "failed", "cancelled", "empty"
    pending,    \* history: pending[t], cancelled_ when t took mu_
    aimed,      \* history: cancel() calls that found a call in progress
    hits        \* history: calls that ended as cancelled

vars == <<pc, mu, inCall, cancelled, marking, conn, results, outcome, pending, aimed, hits>>
history == <<pending, aimed, hits>>

Stages == {"idle", "lock", "connect", "use", "send", "results", "rows", "check", "clear",
           "leave", "done", "openConnect", "openUse"}

TypeOK ==
    /\ pc \in [Threads -> Stages]
    /\ mu \in Threads \cup {None}
    /\ inCall \in Nat
    /\ cancelled \in BOOLEAN
    /\ marking \in [Cancellers -> BOOLEAN]
    /\ conn \in {"null", "up", "dead"}
    /\ results \in [Threads -> Nat]
    /\ outcome \in [Threads -> {"none", "ok", "failed", "cancelled", "empty"}]
    /\ pending \in [Threads -> BOOLEAN]
    /\ aimed \in Nat
    /\ hits \in Nat

Init ==
    /\ pc = [t \in Threads |-> "idle"]
    /\ mu = None
    /\ inCall = 0
    /\ cancelled = FALSE
    /\ marking = [c \in Cancellers |-> FALSE]
    /\ conn = "null"
    /\ results = [t \in Threads |-> 0]
    /\ outcome = [t \in Threads |-> "none"]
    /\ pending = [t \in Threads |-> FALSE]
    /\ aimed = 0
    /\ hits = 0

Goto(t, p) == pc' = [pc EXCEPT ![t] = p]

\* The batch is over with outcome o; the flag is lowered next.
Ends(t, o) ==
    /\ Goto(t, "clear")
    /\ outcome' = [outcome EXCEPT ![t] = o]
    /\ hits' = IF o = "cancelled" THEN hits + 1 ELSE hits
    /\ UNCHANGED <<pending, aimed>>

----------------------------------------------------------------------------
(* execute() *)

\* ++inCall_, before mu_ is asked for.
CallExecute(t) ==
    /\ pc[t] = "idle"
    /\ Goto(t, "lock")
    /\ inCall' = inCall + 1
    /\ UNCHANGED <<mu, cancelled, marking, conn, results, outcome, history>>

\* Mutant: mu_ is not waited for.
LockUnguarded(t) ==
    /\ pc[t] = "lock"
    /\ mu' = t
    /\ Goto(t, "connect")
    /\ pending' = [pending EXCEPT ![t] = cancelled]
    /\ UNCHANGED <<inCall, cancelled, marking, conn, results, outcome, aimed, hits>>

\* Mutant: the flag is lowered before the run.
LockClearing(t) ==
    /\ pc[t] = "lock"
    /\ mu = None
    /\ mu' = t
    /\ Goto(t, "connect")
    /\ pending' = [pending EXCEPT ![t] = cancelled]
    /\ cancelled' = FALSE
    /\ UNCHANGED <<inCall, marking, conn, results, outcome, aimed, hits>>

Lock(t) ==
    /\ pc[t] = "lock"
    /\ mu = None
    /\ mu' = t
    /\ Goto(t, "connect")
    /\ pending' = [pending EXCEPT ![t] = cancelled]
    /\ UNCHANGED <<inCall, cancelled, marking, conn, results, outcome, aimed, hits>>

\* The first half of ensureConn(): nothing with a live DBPROCESS; a dead one is closed
\* and dbopen() logs in.  Without a database to use the new one is ready.  Failing to
\* connect is the call's failure, whatever the flag says.
Connect(t) ==
    /\ pc[t] = "connect"
    /\ \/ conn' = "up" /\ Goto(t, "send") /\ UNCHANGED <<outcome, history>>
       \/ conn # "up" /\ conn' = "null" /\ Goto(t, "use") /\ UNCHANGED <<outcome, history>>
       \/ conn # "up" /\ conn' = "null" /\ Ends(t, "failed")
    /\ UNCHANGED <<mu, inCall, cancelled, marking, results>>

\* Its second half: dbuse() returns, and only then is there a conn_ with the interrupt
\* hook on it.
Use(t) ==
    /\ pc[t] = "use"
    /\ \/ conn' = "up" /\ Goto(t, "send") /\ UNCHANGED <<outcome, history>>
       \/ conn' = "null" /\ Ends(t, "failed")
    /\ UNCHANGED <<mu, inCall, cancelled, marking, results>>

\* errorText(): an error while the flag is up is reported as a cancel.
ErrorOutcome == IF cancelled THEN "cancelled" ELSE "failed"

\* dbsqlexec() returns: the server answered, or refused the batch.
Send(t) ==
    /\ pc[t] = "send"
    /\ conn = "up"
    /\ \/ Goto(t, "results") /\ UNCHANGED <<outcome, history>>
       \/ Ends(t, ErrorOutcome)
    /\ UNCHANGED <<mu, inCall, cancelled, marking, conn, results>>

\* dbresults(): another result set, the end, or a failure.
Results(t) ==
    /\ pc[t] = "results"
    /\ conn = "up"
    /\ \/ /\ results[t] < MaxResults
          /\ results' = [results EXCEPT ![t] = @ + 1]
          /\ Goto(t, "rows")
          /\ UNCHANGED <<outcome, history>>
       \/ /\ \/ Ends(t, IF results[t] = 0 THEN "empty" ELSE "ok")
             \/ Ends(t, ErrorOutcome)
          /\ UNCHANGED results
    /\ UNCHANGED <<mu, inCall, cancelled, marking, conn>>

\* extractDbLibResult(): the rows of one result set, until the last one or
\* until the flag is seen up.
Rows(t) ==
    /\ pc[t] = "rows"
    /\ conn = "up"
    /\ Goto(t, "check")
    /\ UNCHANGED <<mu, inCall, cancelled, marking, conn, results, outcome, history>>

\* After each result set: a raised flag replaces it by "Query cancelled" and
\* ends the batch.
Check(t) ==
    /\ pc[t] = "check"
    /\ IF cancelled
       THEN Ends(t, "cancelled")
       ELSE Goto(t, "results") /\ UNCHANGED <<outcome, history>>
    /\ UNCHANGED <<mu, inCall, cancelled, marking, conn, results>>

\* db-lib calls on a dead DBPROCESS fail at once.
DeadFails(t) ==
    /\ conn = "dead"
    /\ \/ pc[t] \in {"send", "results"} /\ Ends(t, ErrorOutcome)
       \/ pc[t] = "rows" /\ Goto(t, "check") /\ UNCHANGED <<outcome, history>>
    /\ UNCHANGED <<mu, inCall, cancelled, marking, conn, results>>

\* Mutant: the flag is not lowered after the run.
ClearForgotten(t) ==
    /\ pc[t] = "clear"
    /\ Goto(t, "leave")
    /\ UNCHANGED <<mu, inCall, cancelled, marking, conn, results, outcome, history>>

\* cancelled_ = false, after the run.
Clear(t) ==
    /\ pc[t] = "clear"
    /\ cancelled' = FALSE
    /\ Goto(t, "leave")
    /\ UNCHANGED <<mu, inCall, marking, conn, results, outcome, history>>

\* --inCall_, and mu_ is released.
Leave(t) ==
    /\ pc[t] = "leave"
    /\ inCall' = inCall - 1
    /\ mu' = None
    /\ Goto(t, "done")
    /\ UNCHANGED <<cancelled, marking, conn, results, outcome, history>>

Return(t) ==
    /\ pc[t] = "done"
    /\ Goto(t, "idle")
    /\ results' = [results EXCEPT ![t] = 0]
    /\ outcome' = [outcome EXCEPT ![t] = "none"]
    /\ pending' = [pending EXCEPT ![t] = FALSE]
    /\ UNCHANGED <<mu, inCall, cancelled, marking, conn, aimed, hits>>

----------------------------------------------------------------------------
(* open(): ensureConn() under mu_, not counted in inCall_ *)

CallOpen(t) ==
    /\ pc[t] = "idle"
    /\ mu = None
    /\ mu' = t
    /\ Goto(t, "openConnect")
    /\ UNCHANGED <<inCall, cancelled, marking, conn, results, outcome, history>>

OpenConnect(t) ==
    /\ pc[t] = "openConnect"
    /\ \/ conn # "up" /\ conn' = "null" /\ Goto(t, "openUse") /\ UNCHANGED mu
       \/ (conn' = "up" \/ (conn # "up" /\ conn' = "null")) /\ mu' = None /\ Goto(t, "idle")
    /\ UNCHANGED <<inCall, cancelled, marking, results, outcome, history>>

\* Mutant: open() leaves as execute() does, with --inCall_.
OpenUseCounted(t) ==
    /\ pc[t] = "openUse"
    /\ conn' \in {"null", "up"}
    /\ inCall' = inCall - 1
    /\ mu' = None
    /\ Goto(t, "idle")
    /\ UNCHANGED <<cancelled, marking, results, outcome, history>>

OpenUse(t) ==
    /\ pc[t] = "openUse"
    /\ conn' \in {"null", "up"}
    /\ mu' = None
    /\ Goto(t, "idle")
    /\ UNCHANGED <<inCall, cancelled, marking, results, outcome, history>>

----------------------------------------------------------------------------
(* cancel() *)

CancelCheck(c) ==
    /\ ~marking[c]
    /\ inCall > 0
    /\ aimed < MaxCancels
    /\ marking' = [marking EXCEPT ![c] = TRUE]
    /\ aimed' = aimed + 1
    /\ UNCHANGED <<pc, mu, inCall, cancelled, conn, results, outcome, pending, hits>>

CancelMark(c) ==
    /\ marking[c]
    /\ marking' = [marking EXCEPT ![c] = FALSE]
    /\ cancelled' = TRUE
    /\ UNCHANGED <<pc, mu, inCall, conn, results, outcome, pending, aimed, hits>>

----------------------------------------------------------------------------
(* FreeTDS and the server (external) *)

\* Mutant: the hook is installed for reading rows only.
InterruptRowsOnly(t) ==
    /\ cancelled
    /\ conn = "up"
    /\ pc[t] = "rows"
    /\ Goto(t, "check")
    /\ conn' = "dead"
    /\ UNCHANGED <<mu, inCall, cancelled, marking, results, outcome, history>>

\* The interrupt hook sees the flag while db-lib waits on the server: the
\* attention drops the DBPROCESS and the call in progress fails.
Interrupt(t) ==
    /\ cancelled
    /\ conn = "up"
    /\ \/ pc[t] \in {"send", "results"} /\ Ends(t, "cancelled")
       \/ pc[t] = "rows" /\ Goto(t, "check") /\ UNCHANGED <<outcome, history>>
    /\ conn' = "dead"
    /\ UNCHANGED <<mu, inCall, cancelled, marking, results>>

\* The server closes the session: seen by the next db-lib call, or while idle.
SessionLost ==
    /\ conn = "up"
    /\ conn' = "dead"
    /\ UNCHANGED <<pc, mu, inCall, cancelled, marking, results, outcome, history>>

----------------------------------------------------------------------------
\* Steps that wait on the server, and steps that do not.
Server(t) == Use(t) \/ Send(t) \/ Results(t) \/ Rows(t) \/ OpenUse(t)

Client(t) ==
    \/ Lock(t)
    \/ Connect(t)
    \/ DeadFails(t)
    \/ Check(t)
    \/ Clear(t)
    \/ Leave(t)
    \/ Return(t)
    \/ OpenConnect(t)
    \/ Interrupt(t)

Next ==
    \/ \E t \in Threads : CallExecute(t) \/ CallOpen(t) \/ Client(t) \/ Server(t)
    \/ \E c \in Cancellers : CancelCheck(c) \/ CancelMark(c)
    \/ SessionLost

Spec == Init /\ [][Next]_vars

\* Library threads keep running, dbopen() has a login timeout, and FreeTDS polls the
\* interrupt hook once it is installed.  The server itself may never answer, dbuse()
\* included, which has neither a timeout nor the hook.
FairSpec == Spec /\ \A t \in Threads : WF_vars(Client(t))

----------------------------------------------------------------------------
(* Properties *)

\* One cancel() stops at most one call, and one made while no call is in
\* progress stops none, now or later.
CancelsBoundCalls == hits <= aimed

\* The flag is "cleared after the run, not before": a call that finds it raised
\* when it takes mu_ does not report success.
PendingCancelHonoured ==
    \A t \in Threads : pending[t] => outcome[t] # "ok"

\* Two threads never drive the DBPROCESS, "db-lib cannot be driven from two
\* threads", and the one that does is counted in inCall_ so cancel() can see it.
OneDriver ==
    \A t, u \in Threads :
        pc[t] \in {"connect", "use", "send", "results", "rows", "check"} =>
            /\ inCall > 0
            /\ pc[u] \in {"connect", "use", "send", "results", "rows", "check",
                          "openConnect", "openUse"} => u = t

\* A raised flag gets a call that has its session out of a wait on a server that never
\* answers, and is lowered again.  A call that is still connecting is not promised
\* that: dbuse() is out of the hook's reach.
CancelEndsCall ==
    (cancelled /\ \E t \in Threads : pc[t] \in {"send", "results", "rows", "check"})
        ~> ~cancelled
=============================================================================
